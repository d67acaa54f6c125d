------------------------------ MODULE JobPool ------------------------------
(***************************************************************************)
(* What the worker pool promises its client: a job is accepted only while  *)
(* its lane has room, waits, is taken by at most one worker and leaves the *)
(* pool when its result has been delivered.  Nothing is said about order.  *)
(* This is the pool as module PollScheduler uses it.                       *)
(***************************************************************************)
EXTENDS Naturals, FiniteSets

CONSTANTS
    Jobs,         \* jobs the client may submit
    Prio,         \* job -> lane 0..2
    QueueSize,    \* lane -> capacity
    WorkerCount   \* jobs that can be held at once

VARIABLES
    waiting,      \* accepted jobs no worker has taken
    held          \* jobs in the hands of a worker

poolVars == <<waiting, held>>

Init == waiting = {} /\ held = {}

Lane(p) == {j \in waiting : Prio[j] = p}

Accept(j) ==
    /\ j \notin waiting \cup held
    /\ Cardinality(Lane(Prio[j])) < QueueSize[Prio[j]]
    /\ waiting' = waiting \cup {j}
    /\ held' = held

Take(j) ==
    /\ j \in waiting
    /\ Cardinality(held) < WorkerCount
    /\ waiting' = waiting \ {j}
    /\ held' = held \cup {j}

Deliver(j) ==
    /\ j \in held
    /\ held' = held \ {j}
    /\ waiting' = waiting

Next == \E j \in Jobs : Accept(j) \/ Take(j) \/ Deliver(j)

\* The pool accepts only into a lane with room, hands each job to one worker
\* and gives it back once (WorkerPool.Enqueue, worker, executeJob).
Spec == Init /\ [][Next]_poolVars
=============================================================================
