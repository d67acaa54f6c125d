-------------------------- MODULE WorkerPoolProofs --------------------------
(***************************************************************************)
(* Proofs about WorkerPool for every set of jobs and workers, every queue  *)
(* capacity and every fairness period: PoolSafe is an invariant, and the   *)
(* pool implements JobPool.                                                *)
(*                                                                         *)
(* GaugeCoversQueue and OneLateJob are not inductive.  The gauge of a lane *)
(* is exactly its queue plus the Enqueue that has counted its job and the  *)
(* workers that have not uncounted theirs; a worker with a late job is     *)
(* past the selects, and looks at stop before it can reach one again.      *)
(* The refinement needs every job to be in one place: one position of the  *)
(* queue of its own lane, one worker, or the hands of the client.          *)
(***************************************************************************)
EXTENDS WorkerPool, FiniteSetTheorems, SequenceTheorems, TLAPS

WorkerState == [pc : WorkerPc, job : Jobs \cup {NoJob}, round : 0..FairEvery - 1]

Holding == {"count", "execute", "deliver"}

\* The program points a worker passes between a late job and its exit.
PastSelects == Holding \cup {"check", "exit"}

\* Enqueue has counted a job of lane p and not yet sent or dropped it.
InHand(p) == IF client.job # NoJob /\ Prio[client.job] = p THEN 1 ELSE 0

\* The workers that have received a job of lane p and not yet uncounted it.
Counting(p) == {w \in Workers : worker[w].pc = "count" /\ Prio[worker[w].job] = p}

GaugeExact ==
    \A p \in Lanes : gauge[p] = Len(queue[p]) + InHand(p) + Cardinality(Counting(p))

ClientHolds == client.pc # "idle" <=> client.job # NoJob
WorkersHold == \A w \in Workers : worker[w].pc \in Holding <=> worker[w].job # NoJob

LateOnce ==
    \A w \in Workers :
        late[w] = 0 \/ (late[w] = 1 /\ stopped /\ worker[w].pc \in PastSelects)

StoppedIsIdle == stopper = "stopped" => AllExited

PoolInv == TypeOK /\ GaugeExact /\ ClientHolds /\ WorkersHold /\ LateOnce /\ StoppedIsIdle

\* A job is at one position of its own lane's queue, with one worker or with
\* the client.
QueueOwn == \A p \in Lanes : \A i \in 1..Len(queue[p]) : Prio[queue[p][i]] = p
QueueOnce ==
    \A p \in Lanes : \A i, k \in 1..Len(queue[p]) : queue[p][i] = queue[p][k] => i = k
QueueFree ==
    \A p \in Lanes : \A i \in 1..Len(queue[p]) :
        queue[p][i] # client.job /\ \A w \in Workers : queue[p][i] # worker[w].job
HeldOnce ==
    \A v, w \in Workers : worker[v].job # NoJob /\ worker[v].job = worker[w].job => v = w
ClientFree == client.job # NoJob => \A w \in Workers : worker[w].job # client.job

JobsOnce == QueueOwn /\ QueueOnce /\ QueueFree /\ HeldOnce /\ ClientFree

-----------------------------------------------------------------------------
LEMMA RoundType ==
    ASSUME NEW n \in 0..FairEvery - 1
    PROVE  NextRound(n) \in 0..FairEvery - 1
  BY PoolAssumption DEF NextRound

\* Counting and sending keep the books of a lane balanced.
LEMMA Balance ==
    ASSUME NEW g \in Int, NEW g2 \in Int, NEW l \in Nat, NEW l2 \in Nat,
           NEW h \in Nat, NEW h2 \in Nat, NEW c \in Nat,
           g = l + h + c, g2 - l2 - h2 = g - l - h
    PROVE  g2 = l2 + h2 + c
  OBVIOUS

LEMMA CountingFinite ==
    ASSUME NEW p \in Lanes
    PROVE  IsFiniteSet(Counting(p)) /\ Cardinality(Counting(p)) \in Nat
  <1>1. Counting(p) \in SUBSET Workers
    BY DEF Counting
  <1> QED
    BY <1>1, PoolAssumption, FS_Subset, FS_CardinalityType

LEMMA ListensFacts ==
    /\ \A pc : Listens(pc) \subseteq Lanes
    /\ \A pc : Listens(pc) # {} => pc \in {"critical", "two", "any"}
  BY DEF Listens, Lanes

-----------------------------------------------------------------------------
(***************************************************************************)
(* PoolInv is inductive.                                                   *)
(***************************************************************************)
LEMMA PoolInit == Init => PoolInv
  <1> SUFFICES ASSUME Init PROVE PoolInv
    OBVIOUS
  <1>1. \A p \in Lanes : queue[p] = <<>> /\ gauge[p] = 0
    BY DEF Init
  <1>2. \A w \in Workers : worker[w] = [pc |-> "check", job |-> NoJob, round |-> 0]
    BY DEF Init
  <1>3. 0 \in 0..FairEvery - 1
    BY PoolAssumption
  <1>4. worker \in [Workers -> WorkerState]
    BY <1>3 DEF Init, WorkerState, WorkerPc
  <1>5. \A p \in Lanes : 0 <= QueueSize[p]
    BY PoolAssumption
  <1>6. TypeOK
    <2>1. queue \in [Lanes -> Seq(Jobs)] /\ \A p \in Lanes : Len(queue[p]) <= QueueSize[p]
      BY <1>1, <1>5 DEF Init
    <2>2. gauge \in [Lanes -> Int] /\ late \in [Workers -> Nat]
      BY DEF Init
    <2>3. client \in [pc : {"idle", "send", "full"}, job : Jobs \cup {NoJob}]
      BY DEF Init
    <2>4. stopped \in BOOLEAN /\ cancelled \in BOOLEAN
      BY DEF Init
    <2> QED
      BY <1>4, <2>1, <2>2, <2>3, <2>4 DEF Init, TypeOK, WorkerState
  <1>7. GaugeExact
    <2> SUFFICES ASSUME NEW p \in Lanes
                 PROVE  gauge[p] = Len(queue[p]) + InHand(p) + Cardinality(Counting(p))
      BY DEF GaugeExact
    <2>1. Counting(p) = {}
      BY <1>2 DEF Counting
    <2>2. InHand(p) = 0
      BY DEF Init, InHand
    <2> QED
      BY <1>1, <2>1, <2>2, FS_EmptySet
  <1>8. ClientHolds /\ WorkersHold /\ LateOnce /\ StoppedIsIdle
    BY <1>2 DEF Init, ClientHolds, WorkersHold, LateOnce, StoppedIsIdle, Holding
  <1> QED
    BY <1>6, <1>7, <1>8 DEF PoolInv

\* A worker that moves on without touching its job or its lane's gauge.
LEMMA MoveKeeps ==
    ASSUME PoolInv, NEW w \in Workers, NEW s \in WorkerState,
           worker' = [worker EXCEPT ![w] = s], s.job = worker[w].job,
           worker[w].pc \notin {"count", "exit"}, s.pc # "count",
           worker[w].pc \in Holding <=> s.pc \in Holding,
           late[w] = 0 \/ s.pc \in PastSelects,
           UNCHANGED <<queue, gauge, client, stopped, cancelled, stopper, late>>
    PROVE  PoolInv'
  <1> USE DEF PoolInv
  <1>1. worker \in [Workers -> WorkerState] /\ worker' \in [Workers -> WorkerState]
    BY DEF TypeOK, WorkerState
  <1>2. worker'[w] = s /\ \A v \in Workers \ {w} : worker'[v] = worker[v]
    BY <1>1
  <1>3. TypeOK'
    BY <1>1 DEF TypeOK, WorkerState
  <1>4. \A p \in Lanes : Counting(p)' = Counting(p) /\ InHand(p)' = InHand(p)
    BY <1>2 DEF Counting, InHand
  <1>5. GaugeExact'
    BY <1>4 DEF GaugeExact
  <1>6. ClientHolds' /\ WorkersHold'
    BY <1>2 DEF ClientHolds, WorkersHold
  <1>7. LateOnce'
    BY <1>2 DEF LateOnce
  <1>8. StoppedIsIdle'
    BY <1>2 DEF StoppedIsIdle, AllExited
  <1> QED
    BY <1>3, <1>5, <1>6, <1>7, <1>8

LEMMA GotoMoves ==
    ASSUME TypeOK, NEW w \in Workers, NEW pc \in WorkerPc, Goto(w, pc)
    PROVE  \E s \in WorkerState : /\ worker' = [worker EXCEPT ![w] = s]
                                  /\ s.job = worker[w].job /\ s.pc = pc
  <1> DEFINE s == [worker[w] EXCEPT !.pc = pc]
  <1>1. s \in WorkerState /\ s.job = worker[w].job /\ s.pc = pc
    BY DEF TypeOK, WorkerState
  <1>2. worker' = [worker EXCEPT ![w] = s]
    BY DEF Goto, TypeOK
  <1> QED
    BY <1>1, <1>2

LEMMA ExitKeeps ==
    ASSUME PoolInv, NEW w \in Workers, CheckExit(w) \/ LeaveSelect(w)
    PROVE  PoolInv'
  <1>1. /\ worker[w].pc \in {"check", "any"} /\ Goto(w, "exit")
        /\ UNCHANGED <<queue, gauge, client, stopped, cancelled, stopper, late>>
    BY DEF CheckExit, LeaveSelect, Exit
  <1>2. PICK s \in WorkerState : /\ worker' = [worker EXCEPT ![w] = s]
                                 /\ s.job = worker[w].job /\ s.pc = "exit"
    BY <1>1, GotoMoves DEF PoolInv, WorkerPc
  <1> QED
    BY <1>1, <1>2, MoveKeeps DEF Holding, PastSelects

LEMMA BeginRoundKeeps ==
    ASSUME PoolInv, NEW w \in Workers, BeginRound(w)
    PROVE  PoolInv'
  <1> DEFINE n == NextRound(worker[w].round)
             s == [worker[w] EXCEPT !.round = n,
                                    !.pc = IF n = 0 THEN "any" ELSE "critical"]
  <1>1. n \in 0..FairEvery - 1
    BY RoundType DEF PoolInv, TypeOK
  <1>2. worker' = [worker EXCEPT ![w] = s]
    BY DEF BeginRound, PoolInv, TypeOK
  <1> HIDE DEF n
  <1>3. /\ s \in WorkerState /\ s.job = worker[w].job /\ s.pc \in {"any", "critical"}
    BY <1>1 DEF PoolInv, TypeOK, WorkerState, WorkerPc
  <1>4. late[w] = 0
    BY DEF BeginRound, PoolInv, LateOnce
  <1>5. /\ worker[w].pc = "check"
        /\ UNCHANGED <<queue, gauge, client, stopped, cancelled, stopper, late>>
    BY DEF BeginRound
  <1> HIDE DEF s
  <1> QED
    BY <1>2, <1>3, <1>4, <1>5, MoveKeeps DEF Holding

LEMMA FallThroughKeeps ==
    ASSUME PoolInv, NEW w \in Workers, FallThrough(w)
    PROVE  PoolInv'
  <1>1. PICK pc \in {"two", "any"} : Goto(w, pc)
    BY DEF FallThrough
  <1>2. PICK s \in WorkerState : /\ worker' = [worker EXCEPT ![w] = s]
                                 /\ s.job = worker[w].job /\ s.pc = pc
    BY <1>1, GotoMoves DEF PoolInv, WorkerPc
  <1>3. /\ worker[w].pc \in {"critical", "two"}
        /\ UNCHANGED <<queue, gauge, client, stopped, cancelled, stopper, late>>
    BY DEF FallThrough
  <1>4. late[w] = 0
    BY <1>3 DEF PoolInv, LateOnce, PastSelects, Holding
  <1> QED
    BY <1>2, <1>3, <1>4, MoveKeeps DEF Holding

LEMMA ExecuteKeeps ==
    ASSUME PoolInv, NEW w \in Workers, Execute(w)
    PROVE  PoolInv'
  <1>1. PICK s \in WorkerState : /\ worker' = [worker EXCEPT ![w] = s]
                                 /\ s.job = worker[w].job /\ s.pc = "deliver"
    BY GotoMoves DEF PoolInv, WorkerPc, Execute
  <1> QED
    BY <1>1, MoveKeeps DEF Execute, Holding, PastSelects

\* Receive: the job leaves the queue and its receiver has yet to uncount it.
LEMMA ReceiveKeeps ==
    ASSUME PoolInv, JobsOnce, NEW w \in Workers, NEW p \in Lanes, Receive(w, p)
    PROVE  PoolInv'
  <1> USE DEF PoolInv
  <1> DEFINE j == Head(queue[p])
  <1>1. /\ queue[p] \in Seq(Jobs) /\ queue[p] # <<>>
        /\ worker' = [worker EXCEPT ![w].pc = "count", ![w].job = j]
        /\ queue' = [queue EXCEPT ![p] = Tail(@)]
        /\ late' = [late EXCEPT ![w] = IF stopped THEN @ + 1 ELSE @]
        /\ UNCHANGED <<gauge, client, stopped, cancelled, stopper>>
    BY DEF Receive, TypeOK
  <1>2. worker[w].pc \in {"critical", "two", "any"}
    BY ListensFacts DEF Receive
  <1>3. /\ j \in Jobs /\ Prio[j] = p
        /\ Tail(queue[p]) \in Seq(Jobs) /\ Len(Tail(queue[p])) = Len(queue[p]) - 1
    <2>1. j = queue[p][1] /\ 1 \in 1..Len(queue[p])
      BY <1>1
    <2> QED
      BY <1>1, <2>1, HeadTailProperties DEF JobsOnce, QueueOwn
  <1> HIDE DEF j
  <1>4. /\ worker' \in [Workers -> WorkerState]
        /\ worker'[w].pc = "count" /\ worker'[w].job = j
        /\ \A v \in Workers \ {w} : worker'[v] = worker[v]
    BY <1>1, <1>3 DEF TypeOK, WorkerState, WorkerPc
  <1>5. late[w] = 0
    BY <1>2 DEF LateOnce, PastSelects, Holding
  <1>6. /\ late' \in [Workers -> Nat] /\ late'[w] \in {0, 1} /\ (late'[w] = 1 => stopped)
        /\ \A v \in Workers \ {w} : late'[v] = late[v]
    BY <1>1, <1>5 DEF TypeOK
  <1>7. TypeOK'
    <2>1. /\ queue' \in [Lanes -> Seq(Jobs)] /\ queue'[p] = Tail(queue[p])
          /\ \A q \in Lanes \ {p} : queue'[q] = queue[q]
      BY <1>1, <1>3 DEF TypeOK
    <2>2. Len(queue[p]) \in Nat /\ QueueSize[p] \in Nat
      BY <1>1, PoolAssumption
    <2>3. \A q \in Lanes : Len(queue'[q]) <= QueueSize[q]
      BY <1>3, <2>1, <2>2 DEF TypeOK
    <2> QED
      BY <1>1, <1>4, <1>6, <2>1, <2>3 DEF TypeOK, WorkerState
  <1>8. GaugeExact'
    <2> SUFFICES ASSUME NEW q \in Lanes
                 PROVE  gauge'[q] = Len(queue'[q]) + InHand(q)' + Cardinality(Counting(q)')
      BY DEF GaugeExact
    <2>1. InHand(q)' = InHand(q) /\ gauge'[q] = gauge[q] /\ InHand(q) \in Nat
      BY <1>1 DEF InHand
    <2>2. gauge[q] = Len(queue[q]) + InHand(q) + Cardinality(Counting(q))
      BY DEF GaugeExact
    <2>3. CASE q = p
      <3>1. Counting(q)' = Counting(q) \cup {w} /\ w \notin Counting(q)
        BY <1>2, <1>3, <1>4, <2>3 DEF Counting
      <3>2. Cardinality(Counting(q)') = Cardinality(Counting(q)) + 1
        BY <3>1, CountingFinite, FS_AddElement
      <3>3. queue'[q] = Tail(queue[q])
        BY <1>1, <2>3 DEF TypeOK
      <3>4. Len(queue[q]) \in Nat
        BY DEF TypeOK
      <3>5. Len(queue'[q]) = Len(queue[q]) - 1
        BY <1>3, <2>3, <3>3
      <3> QED
        BY <2>1, <2>2, <3>2, <3>4, <3>5, CountingFinite
    <2>4. CASE q # p
      <3>1. Counting(q)' = Counting(q)
        BY <1>2, <1>3, <1>4, <2>4 DEF Counting
      <3>2. queue'[q] = queue[q]
        BY <1>1, <2>4 DEF TypeOK
      <3> QED
        BY <2>1, <2>2, <3>1, <3>2
    <2> QED
      BY <2>3, <2>4
  <1>9. ClientHolds' /\ WorkersHold'
    <2>1. j # NoJob
      BY <1>3, PoolAssumption
    <2> QED
      BY <1>1, <1>4, <2>1 DEF ClientHolds, WorkersHold, Holding
  <1>10. LateOnce'
    BY <1>1, <1>4, <1>6 DEF LateOnce, PastSelects, Holding
  <1>11. StoppedIsIdle'
    BY <1>1, <1>2 DEF StoppedIsIdle, AllExited
  <1> QED
    BY <1>7, <1>8, <1>9, <1>10, <1>11

\* After the receive the worker takes the job out of the gauge.
LEMMA UncountKeeps ==
    ASSUME PoolInv, NEW w \in Workers, Uncount(w)
    PROVE  PoolInv'
  <1> USE DEF PoolInv
  <1>1. PICK s \in WorkerState : /\ worker' = [worker EXCEPT ![w] = s]
                                 /\ s.job = worker[w].job /\ s.pc = "execute"
    BY GotoMoves DEF WorkerPc, Uncount
  <1>2. /\ worker[w].pc = "count"
        /\ gauge' = [gauge EXCEPT ![Prio[worker[w].job]] = @ - 1]
        /\ UNCHANGED <<queue, client, stopped, cancelled, stopper, late>>
    BY DEF Uncount
  <1>3. worker[w].job \in Jobs
    BY <1>2 DEF WorkersHold, Holding, TypeOK
  <1>4. PICK p \in Lanes : p = Prio[worker[w].job]
    BY <1>3, PoolAssumption
  <1>5. /\ worker' \in [Workers -> WorkerState] /\ worker'[w] = s
        /\ \A v \in Workers \ {w} : worker'[v] = worker[v]
    BY <1>1 DEF TypeOK, WorkerState
  <1>6. /\ gauge' \in [Lanes -> Int] /\ gauge'[p] = gauge[p] - 1
        /\ \A q \in Lanes \ {p} : gauge'[q] = gauge[q]
    BY <1>2, <1>4 DEF TypeOK
  <1>7. TypeOK'
    BY <1>2, <1>5, <1>6 DEF TypeOK, WorkerState
  <1>8. GaugeExact'
    <2> SUFFICES ASSUME NEW q \in Lanes
                 PROVE  gauge'[q] = Len(queue'[q]) + InHand(q)' + Cardinality(Counting(q)')
      BY DEF GaugeExact
    <2>1. InHand(q)' = InHand(q) /\ queue'[q] = queue[q] /\ InHand(q) \in Nat
      BY <1>2 DEF InHand
    <2>2. gauge[q] = Len(queue[q]) + InHand(q) + Cardinality(Counting(q))
      BY DEF GaugeExact
    <2>3. CASE q = p
      <3>1. Counting(q)' = Counting(q) \ {w} /\ w \in Counting(q)
        BY <1>1, <1>2, <1>4, <1>5, <2>3 DEF Counting
      <3>2. Cardinality(Counting(q)') = Cardinality(Counting(q)) - 1
        BY <3>1, CountingFinite, FS_RemoveElement
      <3>3. Len(queue[q]) \in Nat
        BY DEF TypeOK
      <3> QED
        BY <1>6, <2>1, <2>2, <2>3, <3>2, <3>3, CountingFinite
    <2>4. CASE q # p
      <3>1. Counting(q)' = Counting(q)
        BY <1>1, <1>2, <1>4, <1>5, <2>4 DEF Counting
      <3> QED
        BY <1>6, <2>1, <2>2, <2>4, <3>1
    <2> QED
      BY <2>3, <2>4
  <1>9. ClientHolds' /\ WorkersHold'
    BY <1>1, <1>2, <1>5 DEF ClientHolds, WorkersHold, Holding
  <1>10. LateOnce'
    BY <1>1, <1>2, <1>5 DEF LateOnce, PastSelects, Holding
  <1>11. StoppedIsIdle'
    BY <1>2 DEF StoppedIsIdle, AllExited
  <1> QED
    BY <1>7, <1>8, <1>9, <1>10, <1>11

LEMMA DeliverKeeps ==
    ASSUME PoolInv, NEW w \in Workers, Deliver(w)
    PROVE  PoolInv'
  <1> USE DEF PoolInv
  <1>1. /\ worker[w].pc = "deliver"
        /\ worker' = [worker EXCEPT ![w].pc = "check", ![w].job = NoJob]
        /\ UNCHANGED <<queue, gauge, client, stopped, cancelled, stopper, late>>
    BY DEF Deliver
  <1>2. /\ worker' \in [Workers -> WorkerState]
        /\ worker'[w].pc = "check" /\ worker'[w].job = NoJob
        /\ \A v \in Workers \ {w} : worker'[v] = worker[v]
    BY <1>1 DEF TypeOK, WorkerState, WorkerPc
  <1>3. TypeOK'
    BY <1>1, <1>2 DEF TypeOK, WorkerState
  <1>4. \A p \in Lanes : Counting(p)' = Counting(p) /\ InHand(p)' = InHand(p)
    BY <1>1, <1>2 DEF Counting, InHand
  <1>5. GaugeExact'
    BY <1>1, <1>4 DEF GaugeExact
  <1>6. ClientHolds' /\ WorkersHold' /\ LateOnce'
    BY <1>1, <1>2 DEF ClientHolds, WorkersHold, LateOnce, Holding, PastSelects
  <1>7. StoppedIsIdle'
    BY <1>1 DEF StoppedIsIdle, AllExited
  <1> QED
    BY <1>3, <1>5, <1>6, <1>7

-----------------------------------------------------------------------------
(***************************************************************************)
(* The client's three steps change one lane.                               *)
(***************************************************************************)
LEMMA EnqueueKeeps ==
    ASSUME PoolInv, NEW p \in Lanes,
           UNCHANGED <<worker, stopped, cancelled, stopper, late>>,
           queue' \in [Lanes -> Seq(Jobs)], gauge' \in [Lanes -> Int],
           client' \in [pc : {"idle", "send", "full"}, job : Jobs \cup {NoJob}],
           client'.pc # "idle" <=> client'.job # NoJob,
           Len(queue'[p]) <= QueueSize[p],
           gauge'[p] - Len(queue'[p]) - InHand(p)' = gauge[p] - Len(queue[p]) - InHand(p),
           \A q \in Lanes \ {p} : /\ queue'[q] = queue[q] /\ gauge'[q] = gauge[q]
                                  /\ InHand(q)' = InHand(q)
    PROVE  PoolInv'
  <1> USE DEF PoolInv
  <1>1. TypeOK'
    BY DEF TypeOK
  <1>2. \A q \in Lanes : Counting(q)' = Counting(q)
    BY DEF Counting
  <1>3. GaugeExact'
    <2> SUFFICES ASSUME NEW q \in Lanes
                 PROVE  gauge'[q] = Len(queue'[q]) + InHand(q)' + Cardinality(Counting(q)')
      BY DEF GaugeExact
    <2>1. gauge[q] = Len(queue[q]) + InHand(q) + Cardinality(Counting(q))
      BY DEF GaugeExact
    <2>2. Len(queue[q]) \in Nat /\ Len(queue'[q]) \in Nat /\ gauge[q] \in Int /\ gauge'[q] \in Int
      BY DEF TypeOK
    <2>3. InHand(q) \in Nat /\ InHand(q)' \in Nat
      BY DEF InHand
    <2>4. Cardinality(Counting(q)) \in Nat /\ Counting(q)' = Counting(q)
      BY <1>2, CountingFinite
    <2>5. CASE q = p
      <3>1. gauge'[q] - Len(queue'[q]) - InHand(q)' = gauge[q] - Len(queue[q]) - InHand(q)
        BY <2>5 DEF InHand
      <3> DEFINE g == gauge[q] g2 == gauge'[q] l == Len(queue[q]) l2 == Len(queue'[q])
                 h == InHand(q) h2 == InHand(q)' c == Cardinality(Counting(q))
      <3>3. g \in Int /\ g2 \in Int /\ l \in Nat /\ l2 \in Nat /\ h \in Nat /\ h2 \in Nat /\ c \in Nat
        BY <2>2, <2>3, <2>4
      <3>4. g = l + h + c
        BY <2>1
      <3>5. g2 - l2 - h2 = g - l - h
        BY <3>1
      <3> HIDE DEF g, g2, l, l2, h, h2, c
      <3>6. g2 = l2 + h2 + c
        BY ONLY <3>3, <3>4, <3>5, SMT
      <3>2. gauge'[q] = Len(queue'[q]) + InHand(q)' + Cardinality(Counting(q))
        BY <3>6 DEF g, g2, l, l2, h, h2, c
      <3> QED
        BY <2>4, <3>2, Zenon
    <2>6. CASE q # p
      BY <2>1, <2>4, <2>6
    <2> QED
      BY <2>5, <2>6
  <1>4. ClientHolds' /\ WorkersHold' /\ LateOnce' /\ StoppedIsIdle'
    BY DEF ClientHolds, WorkersHold, LateOnce, StoppedIsIdle, AllExited
  <1> QED
    BY <1>1, <1>3, <1>4

LEMMA EnqueueCountKeeps ==
    ASSUME PoolInv, NEW j \in Jobs, EnqueueCount(j)
    PROVE  PoolInv'
  <1>1. PICK p \in Lanes : p = Prio[j]
    BY PoolAssumption
  <1>2. /\ gauge' = [gauge EXCEPT ![p] = @ + 1] /\ client' = [pc |-> "send", job |-> j]
        /\ UNCHANGED <<queue, worker, stopped, cancelled, stopper, late>>
    BY <1>1 DEF EnqueueCount
  <1>3. j # NoJob /\ client.job = NoJob
    BY PoolAssumption DEF EnqueueCount, PoolInv, ClientHolds
  <1>4. /\ InHand(p) = 0 /\ InHand(p)' = 1
        /\ \A q \in Lanes \ {p} : InHand(q) = 0 /\ InHand(q)' = 0
    BY <1>1, <1>2, <1>3 DEF InHand
  <1>5. /\ gauge \in [Lanes -> Int] /\ queue \in [Lanes -> Seq(Jobs)]
        /\ Len(queue[p]) <= QueueSize[p] /\ Len(queue[p]) \in Nat
    BY DEF PoolInv, TypeOK
  <1>6. gauge' \in [Lanes -> Int] /\ gauge'[p] = gauge[p] + 1
    BY <1>2, <1>5
  <1>7. gauge'[p] - Len(queue'[p]) - InHand(p)' = gauge[p] - Len(queue[p]) - InHand(p)
    BY <1>2, <1>4, <1>5, <1>6
  <1> QED
    BY <1>2, <1>3, <1>4, <1>5, <1>6, <1>7, EnqueueKeeps

LEMMA EnqueueSendKeeps ==
    ASSUME PoolInv, EnqueueSend
    PROVE  PoolInv'
  <1>1. client.pc = "send" /\ client.job \in Jobs
    BY DEF EnqueueSend, PoolInv, TypeOK, ClientHolds
  <1>2. PICK p \in Lanes : p = Prio[client.job]
    BY <1>1, PoolAssumption
  <1>3. /\ queue \in [Lanes -> Seq(Jobs)] /\ Len(queue[p]) \in Nat /\ QueueSize[p] \in Nat
        /\ Len(queue[p]) <= QueueSize[p] /\ gauge \in [Lanes -> Int]
    BY PoolAssumption DEF PoolInv, TypeOK
  <1>4. UNCHANGED <<gauge, worker, stopped, cancelled, stopper, late>>
    BY DEF EnqueueSend
  <1>5. CASE Len(queue[p]) < QueueSize[p]
    <2>1. /\ queue' = [queue EXCEPT ![p] = Append(@, client.job)]
          /\ client' = [pc |-> "idle", job |-> NoJob]
      BY <1>2, <1>5 DEF EnqueueSend
    <2>2. /\ Append(queue[p], client.job) \in Seq(Jobs)
          /\ Len(Append(queue[p], client.job)) = Len(queue[p]) + 1
      BY <1>1, <1>3, AppendProperties
    <2>3. /\ queue' \in [Lanes -> Seq(Jobs)] /\ Len(queue'[p]) = Len(queue[p]) + 1
          /\ \A q \in Lanes \ {p} : queue'[q] = queue[q]
      BY <1>3, <2>1, <2>2
    <2>4. /\ InHand(p) = 1 /\ InHand(p)' = 0
          /\ \A q \in Lanes \ {p} : InHand(q) = 0 /\ InHand(q)' = 0
      BY <1>1, <1>2, <2>1, PoolAssumption DEF InHand
    <2>5. gauge'[p] - Len(queue'[p]) - InHand(p)' = gauge[p] - Len(queue[p]) - InHand(p)
      BY <1>3, <1>4, <2>3, <2>4
    <2>6. Len(queue'[p]) <= QueueSize[p]
      BY <1>3, <1>5, <2>3
    <2> QED
      BY <1>3, <1>4, <2>1, <2>3, <2>4, <2>5, <2>6, EnqueueKeeps
  <1>6. CASE ~ (Len(queue[p]) < QueueSize[p])
    <2>1. client' = [client EXCEPT !.pc = "full"] /\ UNCHANGED queue
      BY <1>2, <1>6 DEF EnqueueSend
    <2>2. /\ client' \in [pc : {"idle", "send", "full"}, job : Jobs \cup {NoJob}]
          /\ client'.pc = "full" /\ client'.job = client.job
      BY <2>1 DEF PoolInv, TypeOK
    <2>3. \A q \in Lanes : InHand(q)' = InHand(q)
      BY <2>2 DEF InHand
    <2>4. client'.job # NoJob
      BY <1>1, <2>2, PoolAssumption
    <2> QED
      BY <1>3, <1>4, <2>1, <2>2, <2>3, <2>4, EnqueueKeeps
  <1> QED
    BY <1>5, <1>6

LEMMA EnqueueDropKeeps ==
    ASSUME PoolInv, EnqueueDrop
    PROVE  PoolInv'
  <1>1. client.pc = "full" /\ client.job \in Jobs /\ client.job # NoJob
    BY DEF EnqueueDrop, PoolInv, TypeOK, ClientHolds
  <1>2. PICK p \in Lanes : p = Prio[client.job]
    BY <1>1, PoolAssumption
  <1>3. /\ gauge' = [gauge EXCEPT ![p] = @ - 1] /\ client' = [pc |-> "idle", job |-> NoJob]
        /\ UNCHANGED <<queue, worker, stopped, cancelled, stopper, late>>
    BY <1>2 DEF EnqueueDrop
  <1>4. /\ gauge \in [Lanes -> Int] /\ queue \in [Lanes -> Seq(Jobs)]
        /\ Len(queue[p]) <= QueueSize[p] /\ Len(queue[p]) \in Nat
    BY DEF PoolInv, TypeOK
  <1>5. /\ InHand(p) = 1 /\ InHand(p)' = 0
        /\ \A q \in Lanes \ {p} : InHand(q) = 0 /\ InHand(q)' = 0
    BY <1>1, <1>2, <1>3 DEF InHand
  <1>6. gauge' \in [Lanes -> Int] /\ gauge'[p] = gauge[p] - 1
    BY <1>3, <1>4
  <1>7. gauge'[p] - Len(queue'[p]) - InHand(p)' = gauge[p] - Len(queue[p]) - InHand(p)
    BY <1>3, <1>4, <1>5, <1>6
  <1> QED
    BY <1>3, <1>4, <1>5, <1>6, <1>7, EnqueueKeeps

-----------------------------------------------------------------------------
LEMMA StopKeeps ==
    ASSUME PoolInv, Stop
    PROVE  PoolInv'
  <1> USE DEF PoolInv
  <1>1. /\ UNCHANGED <<queue, gauge, client, worker, late>>
        /\ stopped' \in BOOLEAN /\ cancelled' \in BOOLEAN /\ (stopped => stopped')
        /\ stopper' \in {"draining", "cancelling", "stopped"}
        /\ stopper' = "stopped" => AllExited
    BY DEF Stop, CloseStop, DrainTimeout, StopReturns, TypeOK
  <1>2. TypeOK'
    BY <1>1 DEF TypeOK
  <1>3. GaugeExact'
    BY <1>1 DEF GaugeExact, InHand, Counting
  <1>4. ClientHolds' /\ WorkersHold' /\ LateOnce'
    BY <1>1 DEF ClientHolds, WorkersHold, LateOnce
  <1>5. StoppedIsIdle'
    BY <1>1 DEF StoppedIsIdle, AllExited
  <1> QED
    BY <1>2, <1>3, <1>4, <1>5

-----------------------------------------------------------------------------
(***************************************************************************)
(* JobsOnce is inductive.                                                  *)
(***************************************************************************)
LEMMA WaitingFacts ==
    ASSUME TypeOK
    PROVE  /\ \A j : j \in Waiting <=> \E p \in Lanes : \E i \in 1..Len(queue[p]) : queue[p][i] = j
           /\ \A p \in Lanes : \A i \in 1..Len(queue[p]) : queue[p][i] \in Jobs /\ queue[p][i] # NoJob
           /\ \A j : j \in HeldJobs <=> j # NoJob /\ \E w \in Workers : worker[w].job = j
  <1>1. \A p \in Lanes : \A i \in 1..Len(queue[p]) : queue[p][i] \in Jobs
    BY DEF TypeOK
  <1> QED
    BY <1>1, PoolAssumption DEF Waiting, HeldJobs

LEMMA OnceInit == Init => JobsOnce
  <1> SUFFICES ASSUME Init PROVE JobsOnce
    OBVIOUS
  <1>1. \A p \in Lanes : Len(queue[p]) = 0
    BY DEF Init
  <1>2. \A w \in Workers : worker[w].job = NoJob
    BY DEF Init
  <1>3. QueueOwn /\ QueueOnce /\ QueueFree
    BY <1>1 DEF QueueOwn, QueueOnce, QueueFree
  <1>4. HeldOnce /\ ClientFree
    BY <1>2 DEF HeldOnce, ClientFree, Init
  <1> QED
    BY <1>3, <1>4 DEF JobsOnce

\* Steps that leave every job where it is.
SameJobs == /\ queue' = queue /\ client'.job = client.job
            /\ \A w \in Workers : worker'[w].job = worker[w].job

LEMMA SameJobsKeeps ==
    ASSUME JobsOnce, SameJobs
    PROVE  JobsOnce'
  <1> USE DEF SameJobs, JobsOnce
  <1>1. QueueOwn' /\ QueueOnce' /\ QueueFree'
    BY DEF QueueOwn, QueueOnce, QueueFree
  <1>2. HeldOnce' /\ ClientFree'
    BY DEF HeldOnce, ClientFree
  <1> QED
    BY <1>1, <1>2

LEMMA GotoSame ==
    ASSUME TypeOK, NEW w \in Workers, NEW pc, Goto(w, pc)
    PROVE  \A v \in Workers : worker'[v].job = worker[v].job
  BY DEF Goto, TypeOK

LEMMA WorkSame ==
    ASSUME TypeOK, NEW w \in Workers,
           \/ CheckExit(w) \/ BeginRound(w) \/ FallThrough(w) \/ LeaveSelect(w)
           \/ Uncount(w) \/ Execute(w)
    PROVE  SameJobs
  <1>1. CASE \E pc : Goto(w, pc) /\ UNCHANGED <<queue, client>>
    BY <1>1, GotoSame DEF SameJobs
  <1>2. CASE BeginRound(w)
    BY <1>2 DEF BeginRound, SameJobs, TypeOK
  <1> QED
    BY <1>1, <1>2 DEF CheckExit, FallThrough, LeaveSelect, Uncount, Execute, Exit

LEMMA StopSame ==
    ASSUME Stop \/ UNCHANGED vars
    PROVE  SameJobs
  BY DEF Stop, CloseStop, DrainTimeout, StopReturns, SameJobs, vars

LEMMA CountOnce ==
    ASSUME PoolInv, JobsOnce, NEW j \in Jobs, EnqueueCount(j)
    PROVE  JobsOnce'
  <1> USE DEF JobsOnce
  <1>1. /\ client'.job = j /\ UNCHANGED <<queue, worker>>
        /\ j \notin Waiting /\ j \notin HeldJobs /\ j # NoJob
    BY PoolAssumption DEF EnqueueCount
  <1>2. QueueOwn' /\ QueueOnce' /\ HeldOnce'
    BY <1>1 DEF QueueOwn, QueueOnce, HeldOnce
  <1>3. QueueFree'
    BY <1>1, WaitingFacts DEF QueueFree, PoolInv
  <1>4. ClientFree'
    BY <1>1, WaitingFacts DEF ClientFree, PoolInv
  <1> QED
    BY <1>2, <1>3, <1>4

LEMMA SendFacts ==
    ASSUME PoolInv, EnqueueSend
    PROVE  \/ SameJobs
           \/ /\ client.job \in Jobs /\ client'.job = NoJob /\ worker' = worker
              /\ \E p \in Lanes :
                    /\ p = Prio[client.job] /\ Len(queue[p]) \in Nat
                    /\ Len(queue[p]) < QueueSize[p] /\ Len(queue'[p]) = Len(queue[p]) + 1
                    /\ \A i \in 1..Len(queue[p]) : queue'[p][i] = queue[p][i]
                    /\ queue'[p][Len(queue[p]) + 1] = client.job
                    /\ \A q \in Lanes \ {p} : queue'[q] = queue[q]
  <1>1. client.pc = "send" /\ client.job \in Jobs /\ worker' = worker
    BY DEF EnqueueSend, PoolInv, TypeOK, ClientHolds
  <1>2. PICK p \in Lanes : p = Prio[client.job]
    BY <1>1, PoolAssumption
  <1>3. queue \in [Lanes -> Seq(Jobs)] /\ Len(queue[p]) \in Nat
    BY DEF PoolInv, TypeOK
  <1>4. CASE Len(queue[p]) < QueueSize[p]
    <2>1. /\ queue' = [queue EXCEPT ![p] = Append(@, client.job)]
          /\ client' = [pc |-> "idle", job |-> NoJob]
      BY <1>2, <1>4 DEF EnqueueSend
    <2>2. /\ queue'[p] = Append(queue[p], client.job)
          /\ \A q \in Lanes \ {p} : queue'[q] = queue[q]
      BY <1>3, <2>1
    <2>3. /\ Len(queue'[p]) = Len(queue[p]) + 1
          /\ \A i \in 1..Len(queue[p]) : queue'[p][i] = queue[p][i]
          /\ queue'[p][Len(queue[p]) + 1] = client.job
      BY <1>1, <1>3, <2>2, AppendProperties
    <2> QED
      BY <1>1, <1>2, <1>3, <1>4, <2>1, <2>2, <2>3
  <1>5. CASE ~ (Len(queue[p]) < QueueSize[p])
    <2>1. client' = [client EXCEPT !.pc = "full"] /\ UNCHANGED queue
      BY <1>2, <1>5 DEF EnqueueSend
    <2>2. client'.job = client.job
      BY <2>1 DEF PoolInv, TypeOK
    <2> QED
      BY <1>1, <2>1, <2>2 DEF SameJobs
  <1> QED
    BY <1>4, <1>5

LEMMA SendOnce ==
    ASSUME PoolInv, JobsOnce, EnqueueSend
    PROVE  JobsOnce'
  <1> USE DEF JobsOnce
  <1>1. CASE SameJobs
    BY <1>1, SameJobsKeeps
  <1>2. ASSUME client.job \in Jobs, client'.job = NoJob, worker' = worker, NEW p \in Lanes,
               p = Prio[client.job], Len(queue[p]) \in Nat, Len(queue'[p]) = Len(queue[p]) + 1,
               \A i \in 1..Len(queue[p]) : queue'[p][i] = queue[p][i],
               queue'[p][Len(queue[p]) + 1] = client.job,
               \A q \in Lanes \ {p} : queue'[q] = queue[q]
        PROVE  JobsOnce'
    <2>1. \A q \in Lanes : \A i \in 1..Len(queue'[q]) :
             \/ i \in 1..Len(queue[q]) /\ queue'[q][i] = queue[q][i]
             \/ q = p /\ i = Len(queue[p]) + 1 /\ queue'[q][i] = client.job
      BY <1>2
    <2>2. client.job # NoJob
      BY <1>2, PoolAssumption
    <2>3. QueueOwn'
      BY <1>2, <2>1 DEF QueueOwn
    <2>4. QueueOnce'
      BY <1>2, <2>1 DEF QueueOnce, QueueFree
    <2>5. QueueFree'
      BY <1>2, <2>1, <2>2, WaitingFacts DEF QueueFree, ClientFree, PoolInv
    <2>6. HeldOnce' /\ ClientFree'
      BY <1>2 DEF HeldOnce, ClientFree
    <2> QED
      BY <2>3, <2>4, <2>5, <2>6
  <1> QED
    BY <1>1, <1>2, SendFacts

LEMMA DropOnce ==
    ASSUME PoolInv, JobsOnce, EnqueueDrop
    PROVE  JobsOnce'
  <1> USE DEF JobsOnce
  <1>1. client'.job = NoJob /\ UNCHANGED <<queue, worker>>
    BY DEF EnqueueDrop
  <1>2. QueueOwn' /\ QueueOnce' /\ HeldOnce' /\ ClientFree'
    BY <1>1 DEF QueueOwn, QueueOnce, HeldOnce, ClientFree
  <1>3. QueueFree'
    BY <1>1, WaitingFacts DEF QueueFree, PoolInv
  <1> QED
    BY <1>2, <1>3

LEMMA ReceiveFacts ==
    ASSUME PoolInv, NEW w \in Workers, NEW p \in Lanes, Receive(w, p)
    PROVE  /\ worker[w].job = NoJob /\ client' = client
           /\ Len(queue[p]) \in Nat /\ Len(queue[p]) >= 1 /\ Len(queue'[p]) = Len(queue[p]) - 1
           /\ \A i \in 1..Len(queue'[p]) : queue'[p][i] = queue[p][i + 1]
           /\ \A q \in Lanes \ {p} : queue'[q] = queue[q]
           /\ worker'[w].job = queue[p][1]
           /\ \A v \in Workers \ {w} : worker'[v].job = worker[v].job
  <1>1. /\ queue[p] \in Seq(Jobs) /\ queue[p] # <<>> /\ client' = client
        /\ worker' = [worker EXCEPT ![w].pc = "count", ![w].job = Head(queue[p])]
        /\ queue' = [queue EXCEPT ![p] = Tail(@)]
    BY DEF Receive, PoolInv, TypeOK
  <1>2. worker[w].pc \in {"critical", "two", "any"}
    BY ListensFacts DEF Receive
  <1>3. worker[w].job = NoJob
    BY <1>2 DEF PoolInv, WorkersHold, Holding
  <1>4. queue'[p] = Tail(queue[p]) /\ \A q \in Lanes \ {p} : queue'[q] = queue[q]
    BY <1>1 DEF PoolInv, TypeOK
  <1>5. /\ Len(Tail(queue[p])) = Len(queue[p]) - 1
        /\ \A i \in 1..Len(Tail(queue[p])) : Tail(queue[p])[i] = queue[p][i + 1]
    BY <1>1, HeadTailProperties
  <1>6. Len(queue[p]) \in Nat /\ Len(queue[p]) >= 1 /\ Head(queue[p]) = queue[p][1]
    BY <1>1
  <1>7. /\ worker'[w].job = Head(queue[p])
        /\ \A v \in Workers \ {w} : worker'[v].job = worker[v].job
    BY <1>1 DEF PoolInv, TypeOK
  <1> QED
    BY <1>1, <1>3, <1>4, <1>5, <1>6, <1>7

LEMMA ReceiveOnce ==
    ASSUME PoolInv, JobsOnce, NEW w \in Workers, NEW p \in Lanes, Receive(w, p)
    PROVE  JobsOnce'
  <1> USE DEF JobsOnce
  <1>1. /\ worker[w].job = NoJob /\ client' = client
        /\ Len(queue[p]) \in Nat /\ Len(queue[p]) >= 1 /\ Len(queue'[p]) = Len(queue[p]) - 1
        /\ \A i \in 1..Len(queue'[p]) : queue'[p][i] = queue[p][i + 1]
        /\ \A q \in Lanes \ {p} : queue'[q] = queue[q]
        /\ worker'[w].job = queue[p][1]
        /\ \A v \in Workers \ {w} : worker'[v].job = worker[v].job
    BY ReceiveFacts
  <1>2. 1 \in 1..Len(queue[p]) /\ \A i \in 1..Len(queue'[p]) : i + 1 \in 1..Len(queue[p]) /\ i + 1 # 1
    BY <1>1
  <1>3. QueueOwn'
    <2> SUFFICES ASSUME NEW q \in Lanes, NEW i \in 1..Len(queue'[q])
                 PROVE  Prio[queue'[q][i]] = q
      BY DEF QueueOwn
    <2>1. CASE q = p
      <3>1. queue'[q][i] = queue[p][i + 1] /\ i + 1 \in 1..Len(queue[p])
        BY <1>1, <1>2, <2>1
      <3> QED
        BY <2>1, <3>1 DEF QueueOwn
    <2>2. CASE q # p
      BY <1>1, <2>2 DEF QueueOwn
    <2> QED
      BY <2>1, <2>2
  <1>4. QueueOnce'
    <2> SUFFICES ASSUME NEW q \in Lanes, NEW i \in 1..Len(queue'[q]), NEW k \in 1..Len(queue'[q]),
                        queue'[q][i] = queue'[q][k]
                 PROVE  i = k
      BY DEF QueueOnce
    <2>1. CASE q = p
      <3>1. queue[p][i + 1] = queue[p][k + 1]
        BY <1>1, <2>1
      <3>2. i + 1 = k + 1
        BY <1>2, <2>1, <3>1 DEF QueueOnce
      <3> QED
        BY <3>2
    <2>2. CASE q # p
      BY <1>1, <2>2 DEF QueueOnce
    <2> QED
      BY <2>1, <2>2
  <1>5. QueueFree'
    <2> SUFFICES ASSUME NEW q \in Lanes, NEW i \in 1..Len(queue'[q])
                 PROVE  queue'[q][i] # client'.job /\ \A v \in Workers : queue'[q][i] # worker'[v].job
      BY DEF QueueFree
    <2>1. PICK k \in 1..Len(queue[q]) : queue'[q][i] = queue[q][k] /\ (q = p => k # 1)
      BY <1>1, <1>2
    <2>2. queue[q][k] # queue[p][1]
      BY <1>2, <2>1 DEF QueueOnce, QueueOwn
    <2> QED
      BY <1>1, <2>1, <2>2 DEF QueueFree
  <1>6. HeldOnce'
    BY <1>1, <1>2 DEF HeldOnce, QueueFree
  <1>7. ClientFree'
    BY <1>1, <1>2 DEF ClientFree, QueueFree
  <1> QED
    BY <1>3, <1>4, <1>5, <1>6, <1>7

LEMMA DeliverFacts ==
    ASSUME PoolInv, NEW w \in Workers, Deliver(w)
    PROVE  /\ worker[w].job \in Jobs /\ worker'[w].job = NoJob /\ queue' = queue
           /\ client' = client /\ \A v \in Workers \ {w} : worker'[v].job = worker[v].job
  BY DEF Deliver, PoolInv, TypeOK, WorkersHold, Holding

LEMMA DeliverOnce ==
    ASSUME PoolInv, JobsOnce, NEW w \in Workers, Deliver(w)
    PROVE  JobsOnce'
  <1> USE DEF JobsOnce
  <1>1. /\ worker'[w].job = NoJob /\ queue' = queue /\ client' = client
        /\ \A v \in Workers \ {w} : worker'[v].job = worker[v].job
    BY DeliverFacts
  <1>2. QueueOwn' /\ QueueOnce'
    BY <1>1 DEF QueueOwn, QueueOnce
  <1>3. QueueFree'
    BY <1>1, WaitingFacts DEF QueueFree, PoolInv
  <1>4. HeldOnce' /\ ClientFree'
    BY <1>1 DEF HeldOnce, ClientFree
  <1> QED
    BY <1>2, <1>3, <1>4

LEMMA PoolNext == PoolInv /\ JobsOnce /\ [Next]_vars => PoolInv' /\ JobsOnce'
  <1> SUFFICES ASSUME PoolInv, JobsOnce, [Next]_vars PROVE PoolInv' /\ JobsOnce'
    OBVIOUS
  <1>1. CASE UNCHANGED vars
    <2>1. PoolInv'
      BY <1>1 DEF PoolInv, vars, TypeOK, GaugeExact, InHand, Counting, ClientHolds,
         WorkersHold, LateOnce, StoppedIsIdle, AllExited
    <2> QED
      BY <1>1, <2>1, StopSame, SameJobsKeeps
  <1>2. ASSUME NEW j \in Jobs, EnqueueCount(j) PROVE PoolInv' /\ JobsOnce'
    BY <1>2, EnqueueCountKeeps, CountOnce
  <1>3. CASE EnqueueSend
    BY <1>3, EnqueueSendKeeps, SendOnce
  <1>4. CASE EnqueueDrop
    BY <1>4, EnqueueDropKeeps, DropOnce
  <1>5. ASSUME NEW w \in Workers, Work(w) PROVE PoolInv' /\ JobsOnce'
    <2>1. CASE \/ CheckExit(w) \/ BeginRound(w) \/ FallThrough(w) \/ LeaveSelect(w)
               \/ Uncount(w) \/ Execute(w)
      <3>1. JobsOnce'
        BY <2>1, WorkSame, SameJobsKeeps DEF PoolInv
      <3> QED
        BY <2>1, <3>1, ExitKeeps, BeginRoundKeeps, FallThroughKeeps, UncountKeeps, ExecuteKeeps
    <2>2. ASSUME NEW p \in Lanes, Receive(w, p) PROVE PoolInv' /\ JobsOnce'
      BY <2>2, ReceiveKeeps, ReceiveOnce
    <2>3. CASE Deliver(w)
      BY <2>3, DeliverKeeps, DeliverOnce
    <2> QED
      BY <1>5, <2>1, <2>2, <2>3 DEF Work
  <1>6. CASE Stop
    BY <1>6, StopKeeps, StopSame, SameJobsKeeps
  <1>7. CASE Done
    BY <1>1, <1>7 DEF Done
  <1> QED
    BY <1>1, <1>2, <1>3, <1>4, <1>5, <1>6, <1>7 DEF Next, Enqueue

-----------------------------------------------------------------------------
\* For every set of jobs and workers and every capacity: no queue overflows,
\* the gauges never understate a queue, Stop leaves no job with a worker, and
\* a worker takes at most one job after stop is closed (worker_pool.go).
THEOREM PoolSafeAlways == Spec => []PoolSafe
  <1>1. PoolInv => PoolSafe
    <2> SUFFICES ASSUME PoolInv PROVE PoolSafe
      OBVIOUS
    <2> USE DEF PoolInv
    <2>1. GaugeCoversQueue
      <3> SUFFICES ASSUME NEW p \in Lanes PROVE gauge[p] >= Len(queue[p])
        BY DEF GaugeCoversQueue
      <3>1. InHand(p) \in Nat /\ Len(queue[p]) \in Nat
        BY DEF InHand, TypeOK
      <3> QED
        BY <3>1, CountingFinite DEF GaugeExact
    <2>2. StopLeavesNoJob
      BY DEF StopLeavesNoJob, StoppedIsIdle, AllExited, WorkersHold, Holding
    <2>3. OneLateJob
      BY DEF OneLateJob, LateOnce
    <2> QED
      BY <2>1, <2>2, <2>3 DEF PoolSafe
  <1> QED
    BY <1>1, PoolInit, OnceInit, PoolNext, PTL DEF Spec

-----------------------------------------------------------------------------
(***************************************************************************)
(* The refinement of JobPool.                                              *)
(***************************************************************************)
LEMMA LaneCardinality ==
    ASSUME PoolInv, JobsOnce, NEW p \in Lanes
    PROVE  /\ Cardinality({j \in Waiting : Prio[j] = p}) \in Nat
           /\ Cardinality({j \in Waiting : Prio[j] = p}) <= Len(queue[p])
  <1> DEFINE S == 1..Len(queue[p])
             T == {j \in Waiting : Prio[j] = p}
  <1>1. queue[p] \in Seq(Jobs) /\ Len(queue[p]) \in Nat
    BY DEF PoolInv, TypeOK
  <1>2. \A i \in S : queue[p][i] \in T
    BY WaitingFacts DEF JobsOnce, QueueOwn, PoolInv
  <1>3. \A j \in T : \E i \in S : queue[p][i] = j
    BY WaitingFacts DEF JobsOnce, QueueOwn, PoolInv
  <1>4. queue[p] \in [S -> T]
    BY <1>1, <1>2, LenProperties
  <1> HIDE DEF T
  <1>5. queue[p] \in Surjection(S, T)
    BY <1>3, <1>4 DEF Surjection
  <1>6. IsFiniteSet(S) /\ Cardinality(S) = Len(queue[p])
    BY <1>1, FS_Interval
  <1> HIDE DEF S
  <1>7. Cardinality(T) \in Nat /\ Cardinality(T) <= Len(queue[p])
    BY <1>5, <1>6, FS_Surjection, FS_CardinalityType
  <1> QED
    BY <1>7 DEF T

LEMMA HeldCardinality ==
    ASSUME PoolInv, NEW w \in Workers, worker[w].job = NoJob
    PROVE  Cardinality(HeldJobs) < Cardinality(Workers)
  <1> DEFINE S == {v \in Workers : worker[v].job # NoJob}
             f == [v \in S |-> worker[v].job]
  <1>1. f \in Surjection(S, HeldJobs)
    BY DEF Surjection, HeldJobs
  <1>2. IsFiniteSet(Workers \ {w}) /\ Cardinality(Workers \ {w}) = Cardinality(Workers) - 1
    BY PoolAssumption, FS_RemoveElement
  <1>3. S \in SUBSET (Workers \ {w})
    OBVIOUS
  <1> HIDE DEF S, f
  <1>4. IsFiniteSet(S) /\ Cardinality(S) <= Cardinality(Workers) - 1
    BY <1>2, <1>3, FS_Subset
  <1>5. IsFiniteSet(HeldJobs) /\ Cardinality(HeldJobs) <= Cardinality(S)
    BY <1>1, <1>4, FS_Surjection
  <1>6. Cardinality(HeldJobs) \in Nat /\ Cardinality(S) \in Nat /\ Cardinality(Workers) \in Nat
    BY <1>4, <1>5, PoolAssumption, FS_CardinalityType
  <1> QED
    BY <1>4, <1>5, <1>6

LEMMA SameCardinality ==
    \A S : Abstract!Cardinality(S) = Cardinality(S)
  BY DEF Abstract!Cardinality, Cardinality

LEMMA SameJobsStutters ==
    ASSUME TypeOK, TypeOK', SameJobs
    PROVE  UNCHANGED <<Waiting, HeldJobs>>
  BY DEF SameJobs, Waiting, HeldJobs

\* Every step of the pool is a step of JobPool or changes nothing it can see.
LEMMA PoolStep ==
    PoolInv /\ JobsOnce /\ PoolInv' /\ [Next]_vars => [Abstract!Next]_(Abstract!poolVars)
  <1> SUFFICES ASSUME PoolInv, JobsOnce, PoolInv', [Next]_vars
               PROVE  Abstract!Next \/ UNCHANGED <<Waiting, HeldJobs>>
    BY DEF Abstract!poolVars
  <1> USE DEF PoolInv
  <1>1. CASE SameJobs
    BY <1>1, SameJobsStutters
  <1>2. CASE EnqueueDrop \/ \E j \in Jobs : EnqueueCount(j)
    BY <1>2 DEF EnqueueDrop, EnqueueCount, Waiting, HeldJobs
  <1>3. CASE EnqueueSend /\ ~ SameJobs
    <2>1. client.job \in Jobs /\ client'.job = NoJob /\ worker' = worker
      BY <1>3, SendFacts
    <2>2. PICK p \in Lanes :
             /\ p = Prio[client.job] /\ Len(queue[p]) \in Nat
             /\ Len(queue[p]) < QueueSize[p] /\ Len(queue'[p]) = Len(queue[p]) + 1
             /\ \A i \in 1..Len(queue[p]) : queue'[p][i] = queue[p][i]
             /\ queue'[p][Len(queue[p]) + 1] = client.job
             /\ \A q \in Lanes \ {p} : queue'[q] = queue[q]
      BY <1>3, SendFacts
    <2>3. PICK j \in Jobs : j = client.job
      BY <2>1
    <2>4. \A k : k \in Waiting' <=> k \in Waiting \/ k = j
      <3>1. ASSUME NEW q \in Lanes, NEW i \in 1..Len(queue'[q])
            PROVE  queue'[q][i] = j \/ \E k \in 1..Len(queue[q]) : queue'[q][i] = queue[q][k]
        <4>1. CASE q # p
          BY <2>2, <3>1, <4>1
        <4>2. CASE q = p
          <5>1. i \in 1..Len(queue[p]) \/ i = Len(queue[p]) + 1
            BY <2>2, <3>1, <4>2
          <5> QED
            BY <2>2, <2>3, <4>2, <5>1
        <4> QED
          BY <4>1, <4>2
      <3>4. ASSUME NEW q \in Lanes, NEW k \in 1..Len(queue[q])
            PROVE  \E i \in 1..Len(queue'[q]) : queue'[q][i] = queue[q][k]
        <4>1. CASE q # p
          BY <2>2, <3>4, <4>1
        <4>2. CASE q = p
          <5>1. k \in 1..Len(queue'[p])
            BY <2>2, <3>4, <4>2
          <5> QED
            BY <2>2, <4>2, <5>1
        <4> QED
          BY <4>1, <4>2
      <3>5. \E i \in 1..Len(queue'[p]) : queue'[p][i] = j
        <4>1. Len(queue[p]) + 1 \in 1..Len(queue'[p])
          BY <2>2
        <4> QED
          BY <2>2, <2>3, <4>1
      <3>2. \A k : k \in Waiting' <=> \E q \in Lanes : \E i \in 1..Len(queue'[q]) : queue'[q][i] = k
        BY DEF Waiting
      <3>3. \A k : k \in Waiting <=> \E q \in Lanes : \E i \in 1..Len(queue[q]) : queue[q][i] = k
        BY DEF Waiting
      <3>6. \A k : k \in Waiting' => k \in Waiting \/ k = j
        BY <3>1, <3>2, <3>3
      <3>7. \A k : k \in Waiting \/ k = j => k \in Waiting'
        BY <3>2, <3>3, <3>4, <3>5
      <3> QED
        BY <3>6, <3>7
    <2>5. Waiting' = Waiting \cup {j} /\ HeldJobs' = HeldJobs
      BY <2>1, <2>4 DEF HeldJobs
    <2>6. j \notin Waiting /\ j \notin HeldJobs
      <3>1. j # NoJob
        BY PoolAssumption
      <3>2. j \notin Waiting
        BY <2>3 DEF JobsOnce, QueueFree, Waiting
      <3>3. j \notin HeldJobs
        BY <2>3, <3>1 DEF JobsOnce, ClientFree, HeldJobs
      <3> QED
        BY <3>2, <3>3
    <2>7. Cardinality({k \in Waiting : Prio[k] = Prio[j]}) < QueueSize[Prio[j]]
      <3>1. QueueSize[p] \in Nat
        BY PoolAssumption
      <3>2. /\ Cardinality({k \in Waiting : Prio[k] = p}) \in Nat
            /\ Cardinality({k \in Waiting : Prio[k] = p}) <= Len(queue[p])
        BY LaneCardinality
      <3>3. Cardinality({k \in Waiting : Prio[k] = p}) < QueueSize[p]
        BY <2>2, <3>1, <3>2
      <3> QED
        BY <2>2, <2>3, <3>3
    <2>8. Abstract!Accept(j)
      BY <2>5, <2>6, <2>7, SameCardinality DEF Abstract!Accept, Abstract!Lane
    <2> QED
      BY <2>3, <2>8 DEF Abstract!Next
  <1>4. ASSUME NEW w \in Workers, NEW p \in Lanes, Receive(w, p) PROVE Abstract!Next
    <2>1. /\ worker[w].job = NoJob
          /\ Len(queue[p]) \in Nat /\ Len(queue[p]) >= 1 /\ Len(queue'[p]) = Len(queue[p]) - 1
          /\ \A i \in 1..Len(queue'[p]) : queue'[p][i] = queue[p][i + 1]
          /\ \A q \in Lanes \ {p} : queue'[q] = queue[q]
          /\ worker'[w].job = queue[p][1]
          /\ \A v \in Workers \ {w} : worker'[v].job = worker[v].job
      BY <1>4, ReceiveFacts
    <2>2. 1 \in 1..Len(queue[p])
      BY <2>1
    <2>3. PICK j \in Jobs : j = queue[p][1] /\ j # NoJob
      BY <2>2, WaitingFacts
    <2>4. HeldJobs' = HeldJobs \cup {j}
      BY <2>1, <2>3 DEF HeldJobs
    <2>5. Waiting' = Waiting \ {j}
      <3>1. ASSUME NEW q \in Lanes, NEW i \in 1..Len(queue'[q])
            PROVE  queue'[q][i] # j /\ \E k \in 1..Len(queue[q]) : queue'[q][i] = queue[q][k]
        <4>1. PICK k \in 1..Len(queue[q]) : queue'[q][i] = queue[q][k] /\ (q = p => k # 1)
          <5>1. CASE q = p
            <6>1. i + 1 \in 1..Len(queue[p]) /\ i + 1 # 1
              BY <2>1, <3>1, <5>1
            <6> QED
              BY <2>1, <3>1, <5>1, <6>1
          <5>2. CASE q # p
            BY <2>1, <3>1, <5>2
          <5> QED
            BY <5>1, <5>2
        <4>2. queue[q][k] # queue[p][1]
          BY <2>2, <4>1 DEF JobsOnce, QueueOnce, QueueOwn
        <4> QED
          BY <2>3, <4>1, <4>2
      <3>2. ASSUME NEW q \in Lanes, NEW k \in 1..Len(queue[q]), queue[q][k] # j
            PROVE  \E i \in 1..Len(queue'[q]) : queue'[q][i] = queue[q][k]
        <4>1. CASE q = p
          <5>1. k # 1
            BY <2>3, <3>2, <4>1
          <5>2. k - 1 \in 1..Len(queue'[p]) /\ (k - 1) + 1 = k
            BY <2>1, <3>2, <4>1, <5>1
          <5> QED
            BY <2>1, <4>1, <5>2
        <4>2. CASE q # p
          BY <2>1, <4>2
        <4> QED
          BY <4>1, <4>2
      <3>3. \A k : k \in Waiting' <=> \E q \in Lanes : \E i \in 1..Len(queue'[q]) : queue'[q][i] = k
        BY DEF Waiting
      <3>4. \A k : k \in Waiting <=> \E q \in Lanes : \E i \in 1..Len(queue[q]) : queue[q][i] = k
        BY DEF Waiting
      <3>5. \A k : k \in Waiting' => k \in Waiting /\ k # j
        BY <3>1, <3>3, <3>4
      <3>6. \A k : k \in Waiting /\ k # j => k \in Waiting'
        BY <3>2, <3>3, <3>4
      <3> QED
        BY <3>5, <3>6
    <2>6. j \in Waiting
      BY <2>2, <2>3 DEF Waiting
    <2>7. Cardinality(HeldJobs) < Cardinality(Workers)
      BY <2>1, HeldCardinality
    <2>8. Abstract!Take(j)
      BY <2>4, <2>5, <2>6, <2>7, SameCardinality DEF Abstract!Take
    <2> QED
      BY <2>8 DEF Abstract!Next
  <1>5. ASSUME NEW w \in Workers, Deliver(w) PROVE Abstract!Next
    <2>1. /\ worker[w].job \in Jobs /\ worker'[w].job = NoJob /\ queue' = queue
          /\ \A v \in Workers \ {w} : worker'[v].job = worker[v].job
      BY <1>5, DeliverFacts
    <2>2. PICK j \in Jobs : j = worker[w].job /\ j # NoJob
      BY <2>1, PoolAssumption
    <2>3. HeldJobs' = HeldJobs \ {j} /\ j \in HeldJobs
      BY <2>1, <2>2 DEF HeldJobs, JobsOnce, HeldOnce
    <2>4. Waiting' = Waiting
      BY <2>1 DEF Waiting
    <2>5. Abstract!Deliver(j)
      BY <2>3, <2>4 DEF Abstract!Deliver
    <2> QED
      BY <2>5 DEF Abstract!Next
  <1>6. ASSUME NEW w \in Workers, Work(w) PROVE Abstract!Next \/ SameJobs
    BY <1>4, <1>5, <1>6, WorkSame DEF Work
  <1>7. CASE Stop \/ Done \/ UNCHANGED vars
    BY <1>1, <1>7, StopSame DEF Done
  <1> QED
    BY <1>1, <1>2, <1>3, <1>6, <1>7 DEF Next, Enqueue

\* The priority queues, fast paths, gauges and two-stage Stop implement the
\* pool the dispatcher relies on: no job is lost or duplicated, no lane and no
\* worker holds more than it can (Enqueue, worker, executeJob).
THEOREM PoolImplementsJobPool == Spec => ImplementsJobPool
  <1>1. Init => Abstract!Init
    <2> SUFFICES ASSUME Init PROVE Waiting = {} /\ HeldJobs = {}
      BY DEF Abstract!Init
    <2>1. \A p \in Lanes : Len(queue[p]) = 0
      BY DEF Init
    <2>2. \A w \in Workers : worker[w].job = NoJob
      BY DEF Init
    <2> QED
      BY <2>1, <2>2 DEF Waiting, HeldJobs
  <1> QED
    BY <1>1, PoolInit, OnceInit, PoolNext, PoolStep, PTL DEF Spec, ImplementsJobPool, Abstract!Spec
=============================================================================
