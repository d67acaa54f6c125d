------------------------------ MODULE Delivery ------------------------------
(***************************************************************************)
(* Delivery of notifications (engine/alert.go, from sendNotifications on,  *)
(* and engine/notifier.go).  Evaluations offer alerts to a bounded queue   *)
(* without waiting; workers take an alert, load the channels, and try each *)
(* channel of the rule in turn, with retries, under one deadline for the   *)
(* whole alert.  Stop lets the workers drain the queue for a while; who    *)
(* offers an alert does not look whether it has begun.  How a channel is   *)
(* reached (webhook, SMTP, Slack, Telegram) is abstracted to what Send     *)
(* says: it succeeds, or it fails, be it that the message has arrived all  *)
(* the same.                                                               *)
(***************************************************************************)
EXTENDS Naturals, Sequences, FiniteSets

CONSTANTS Alerts, NotifWorkers, NoAlert,
          ChannelIDs,      \* the channels of the rule, in its order: a sequence
          NotifQueueSize,
          MaxRetries,
          MaxDeliveryErrors  \* bound: database calls that fail

ASSUME DeliveryBounds ==
    /\ NotifQueueSize \in Nat \ {0} /\ {MaxRetries, MaxDeliveryErrors} \subseteq Nat
    /\ ChannelIDs \in Seq(STRING)
    \* A rule is linked to a channel once: the primary key of alert_rule_channels.
    /\ \A i, j \in 1..Len(ChannelIDs) : ChannelIDs[i] = ChannelIDs[j] => i = j

Chans == {ChannelIDs[i] : i \in 1..Len(ChannelIDs)}

VARIABLES notifQueue,
          offered,     \* alerts that were queued, were dropped, were queued after Stop began,
                       \* and those whose channels or record the database failed
          notifWorker, \* [pc, alert, next, attempt, expired, draining, late]
          enabled,     \* channels switched on
          history,     \* alert history: what is recorded for an alert and a channel
          received,    \* how often a channel got an alert (0, 1, 2 for more)
          unanswered,  \* some message arrived although Send failed
          notifStopped,     \* Stop has been called
          deliveryErrors

deliveryVars == <<notifQueue, offered, notifWorker, enabled, history, received, unanswered, notifStopped, deliveryErrors>>

IdleWorker == [pc |-> "take", alert |-> NoAlert, next |-> 1, attempt |-> 0, expired |-> FALSE,
               draining |-> FALSE, late |-> FALSE]

\* Type correctness of the delivery state.
DeliveryTypeOK ==
    /\ notifQueue \in Seq(Alerts) /\ Len(notifQueue) <= NotifQueueSize
    /\ offered \in [queued: SUBSET Alerts, dropped: SUBSET Alerts, late: SUBSET Alerts, failed: SUBSET Alerts]
    /\ \A w \in NotifWorkers :
         /\ notifWorker[w].pc \in {"take", "load", "send", "backoff", "record", "failed", "done"}
         /\ notifWorker[w].next \in 1..(Len(ChannelIDs) + 1)
         /\ notifWorker[w].attempt \in 0..MaxRetries
    /\ enabled \subseteq Chans
    /\ history \in [Alerts -> [Chans -> {"none", "notified", "notification_failed"}]]
    /\ received \in [Alerts -> [Chans -> 0..2]]
    /\ unanswered \in BOOLEAN /\ notifStopped \in BOOLEAN /\ deliveryErrors \in 0..MaxDeliveryErrors

DeliveryInit ==
    /\ notifQueue = <<>>
    /\ offered = [queued |-> {}, dropped |-> {}, late |-> {}, failed |-> {}]
    /\ notifWorker = [w \in NotifWorkers |-> IdleWorker]
    /\ enabled \in SUBSET Chans
    /\ history = [a \in Alerts |-> [c \in Chans |-> "none"]]
    /\ received = [a \in Alerts |-> [c \in Chans |-> 0]]
    /\ unanswered = FALSE /\ notifStopped = FALSE /\ deliveryErrors = 0

-----------------------------------------------------------------------------
\* sendNotifications: queue or drop, never wait.  An absence check or a late
\* request may do so when Stop has begun, and when the workers have returned.
SendNotifications(a) ==
    /\ a \notin offered.queued \cup offered.dropped
    /\ \/ /\ Len(notifQueue) < NotifQueueSize
          /\ notifQueue' = Append(notifQueue, a)
          /\ offered' = [offered EXCEPT !.queued = @ \cup {a},
                                        !.late = IF notifStopped THEN @ \cup {a} ELSE @]
       \/ /\ Len(notifQueue) = NotifQueueSize
          /\ offered' = [offered EXCEPT !.dropped = @ \cup {a}]
          /\ UNCHANGED notifQueue
    /\ UNCHANGED <<notifWorker, enabled, history, received, unanswered, notifStopped, deliveryErrors>>

\* notifWorker: a job from the queue, while running or while draining.
TakeJob(w) ==
    /\ notifWorker[w].pc = "take" /\ notifQueue # <<>>
    /\ notifWorker' = [notifWorker EXCEPT ![w].pc = "load", ![w].alert = Head(notifQueue)]
    /\ notifQueue' = Tail(notifQueue)
    /\ UNCHANGED <<offered, enabled, history, received, unanswered, notifStopped, deliveryErrors>>

\* Seeded fault: a worker that is idle does not see that the engine stops.
StartDrainWithWork(w) ==
    /\ notifWorker[w].pc = "take" /\ notifStopped /\ ~notifWorker[w].draining /\ notifQueue # <<>>
    /\ notifWorker' = [notifWorker EXCEPT ![w].draining = TRUE]
    /\ UNCHANGED <<notifQueue, offered, enabled, history, received, unanswered, notifStopped, deliveryErrors>>

\* notifDone or the context: from now on the worker drains.
StartDrain(w) ==
    /\ notifWorker[w].pc = "take" /\ notifStopped /\ ~notifWorker[w].draining
    /\ notifWorker' = [notifWorker EXCEPT ![w].draining = TRUE]
    /\ UNCHANGED <<notifQueue, offered, enabled, history, received, unanswered, notifStopped, deliveryErrors>>

\* drainNotifications: the queue is empty, or the drain time is over, as it
\* may be after a delivery this worker made while draining.
DrainEnds(w) ==
    /\ notifWorker[w].pc = "take" /\ notifWorker[w].draining
    /\ notifQueue = <<>> \/ notifWorker[w].late
    /\ notifWorker' = [notifWorker EXCEPT ![w].pc = "done"]
    /\ UNCHANGED <<notifQueue, offered, enabled, history, received, unanswered, notifStopped, deliveryErrors>>

\* The next channel of the rule that exists and is enabled, at or after i.
NextChannel(i) ==
    LET later == {j \in i..Len(ChannelIDs) : ChannelIDs[j] \in enabled} IN
    IF later = {} THEN Len(ChannelIDs) + 1 ELSE CHOOSE j \in later : \A k \in later : j <= k

\* deliverNotifications of this alert is over.
Over(w) == [IdleWorker EXCEPT !.draining = notifWorker[w].draining, !.late = notifWorker[w].draining]

Continue(w, i) ==
    notifWorker' = [notifWorker EXCEPT ![w] =
        IF NextChannel(i) > Len(ChannelIDs) THEN Over(w)
        ELSE [@ EXCEPT !.pc = "send", !.next = NextChannel(i), !.attempt = 0]]

LoadChannels(w) ==
    /\ notifWorker[w].pc = "load"
    /\ Continue(w, 1)
    /\ UNCHANGED <<notifQueue, offered, enabled, history, received, unanswered, notifStopped, deliveryErrors>>

\* The channels cannot be read: the alert is announced to nobody.
LoadFails(w) ==
    /\ notifWorker[w].pc = "load" /\ deliveryErrors < MaxDeliveryErrors
    /\ deliveryErrors' = deliveryErrors + 1
    /\ offered' = [offered EXCEPT !.failed = @ \cup {notifWorker[w].alert}]
    /\ notifWorker' = [notifWorker EXCEPT ![w] = Over(w)]
    /\ UNCHANGED <<notifQueue, enabled, history, received, unanswered, notifStopped>>

Arrives(w) ==
    received' = [received EXCEPT ![notifWorker[w].alert][ChannelIDs[notifWorker[w].next]] =
                    IF @ = 2 THEN 2 ELSE @ + 1]

\* Notifier.Send succeeds.
SendSucceeds(w) ==
    /\ notifWorker[w].pc = "send" /\ ~notifWorker[w].expired
    /\ Arrives(w)
    /\ notifWorker' = [notifWorker EXCEPT ![w].pc = "record"]
    /\ UNCHANGED <<notifQueue, offered, enabled, history, unanswered, notifStopped, deliveryErrors>>

\* Notifier.Send fails: refused; or the message has arrived, but its answer is lost
\* or too late, or the QUIT after an accepted mail fails (sendEmail).
SendFails(w) ==
    /\ notifWorker[w].pc = "send"
    /\ \/ UNCHANGED <<received, unanswered>>
       \/ ~notifWorker[w].expired /\ Arrives(w) /\ unanswered' = TRUE
    /\ notifWorker' = [notifWorker EXCEPT ![w].pc = IF notifWorker[w].attempt < MaxRetries
                                                    THEN "backoff" ELSE "failed"]
    /\ UNCHANGED <<notifQueue, offered, enabled, history, notifStopped, deliveryErrors>>

\* The backoff is over, or the alert's deadline comes first.
Backoff(w) ==
    /\ notifWorker[w].pc = "backoff"
    /\ \/ /\ ~notifWorker[w].expired
          /\ notifWorker' = [notifWorker EXCEPT ![w].pc = "send", ![w].attempt = @ + 1]
       \/ notifWorker' = [notifWorker EXCEPT ![w].pc = "failed", ![w].expired = TRUE]
    /\ UNCHANGED <<notifQueue, offered, enabled, history, received, unanswered, notifStopped, deliveryErrors>>

\* recordHistory, under a context the deadline does not end.
RecordHistory(w) ==
    LET c == ChannelIDs[notifWorker[w].next]  a == notifWorker[w].alert IN
    /\ notifWorker[w].pc \in {"record", "failed"}
    /\ history' = [history EXCEPT ![a][c] = IF notifWorker[w].pc = "record" THEN "notified"
                                                                           ELSE "notification_failed"]
    /\ Continue(w, notifWorker[w].next + 1)
    /\ UNCHANGED <<notifQueue, offered, enabled, received, unanswered, notifStopped, deliveryErrors>>

\* The record cannot be written: that is only logged.
RecordFails(w) ==
    /\ notifWorker[w].pc \in {"record", "failed"} /\ deliveryErrors < MaxDeliveryErrors
    /\ deliveryErrors' = deliveryErrors + 1
    /\ offered' = [offered EXCEPT !.failed = @ \cup {notifWorker[w].alert}]
    /\ Continue(w, notifWorker[w].next + 1)
    /\ UNCHANGED <<notifQueue, enabled, history, received, unanswered, notifStopped>>

StopDelivery ==
    /\ ~notifStopped
    /\ notifStopped' = TRUE
    /\ UNCHANGED <<notifQueue, offered, notifWorker, enabled, history, received, unanswered, deliveryErrors>>

NotifWorker(w) ==
    \/ TakeJob(w) \/ StartDrain(w) \/ DrainEnds(w) \/ LoadChannels(w) \/ LoadFails(w)
    \/ SendSucceeds(w) \/ SendFails(w) \/ Backoff(w) \/ RecordHistory(w) \/ RecordFails(w)

DeliveryNext ==
    \/ \E a \in Alerts : SendNotifications(a)
    \/ \E w \in NotifWorkers : NotifWorker(w)
    \/ StopDelivery

\* Every worker goes on: sends and backoffs end by their time limits.
DeliveryFairness == \A w \in NotifWorkers : WF_deliveryVars(NotifWorker(w))

DeliverySpec == DeliveryInit /\ [][DeliveryNext]_deliveryVars /\ DeliveryFairness

-----------------------------------------------------------------------------
\* The alert history does not lie: a channel recorded as notified has got the alert
\* (deliverNotifications).  And a channel gets an alert twice only where Send failed
\* although the message had arrived, as when the answer is lost or the QUIT after an
\* accepted mail fails: retries, several workers, a lost record and the drain never
\* repeat a delivery that Send has reported.
RepeatedOnlyUnanswered ==
    \A a \in Alerts, c \in Chans :
        /\ history[a][c] = "notified" => received[a][c] > 0
        /\ received[a][c] > 1 => unanswered

\* Every alert that entered the queue gets, on every enabled channel, a record
\* of its delivery or of its failure, also when the deadline cuts it short
\* or the engine stops meanwhile.  Without one stay only an alert whose channels or
\* record the database failed, those a drain runs out of time for, and one queued
\* after Stop had begun that is still in the queue when the workers have returned
\* (notifWorker, drainNotifications, alert.go:46-47).
EveryAlertRecorded ==
    \A a \in Alerts :
        (a \in offered.queued) ~>
            \/ \A c \in enabled : history[a][c] # "none"
            \/ a \in offered.failed
            \/ \E w \in NotifWorkers : notifWorker[w].late
            \/ a \in offered.late /\ \A w \in NotifWorkers : notifWorker[w].pc = "done"

\* After Stop every worker returns (AlertEngine.Stop waits for them).
StopReturns == notifStopped ~> (\A w \in NotifWorkers : notifWorker[w].pc = "done")

\* Notifications are recorded as they went, repeated only where Send failed, and
\* the workers stop (alert.go, notifWorker).
DeliveryCorrect ==
    /\ [](DeliveryTypeOK /\ RepeatedOnlyUnanswered)
    /\ EveryAlertRecorded
    /\ StopReturns
=============================================================================
