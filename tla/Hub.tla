-------------------------------- MODULE Hub --------------------------------
(***************************************************************************)
(* The WebSocket hub and the Redis Pub/Sub bridge: websocket/hub.go,       *)
(* cache/pubsub.go and their wiring in cmd/server/main.go.                 *)
(*                                                                         *)
(* The state of one device is a version number.  The producers raise it    *)
(* and broadcast it; a connected client shows the last version it read,    *)
(* from an event or from the snapshot that a new connection is sent.       *)
(***************************************************************************)
EXTENDS Integers, Sequences, FiniteSets

CONSTANTS
    Conns,        \* WebSocket connections
    BroadcastCap, \* capacity of Hub.broadcast (256)
    SendCap,      \* capacity of client.send (64)
    MaxVersion,   \* bound: state changes of the device
    MaxBreaks     \* bound: failures of Redis or of the subscription

ASSUME HubAssumption ==
    /\ {BroadcastCap, SendCap} \subseteq Nat \ {0}
    /\ {MaxVersion, MaxBreaks} \subseteq Nat

VARIABLES
    viaRedis,   \* a publisher is set (Redis is configured)
    version,    \* the state in the database
    channel,    \* messages on their way through Redis
    subscriber, \* "on", "backoff": PubSubBridge.Subscribe
    broadcast,  \* Hub.broadcast
    hubDone,    \* Hub.done is closed
    client,     \* per connection, the client and its three goroutines
    lost,       \* the newest version lost before it reached the clients (history)
    breaks      \* failures so far (history)

hubVars == <<viaRedis, version, channel, subscriber, broadcast, hubDone, client, lost, breaks>>

\* missed: the newest version whose event this client was not sent, or whose
\* event its snapshot came behind (history).
NoClient == [registered |-> FALSE, dead |-> FALSE, open |-> FALSE, reader |-> "none", writer |-> "none",
             boot |-> "none", snapshot |-> 0, send |-> <<>>, shown |-> [type |-> "bootstrap", v |-> 0], missed |-> 0, afterStop |-> FALSE]

\* An event or the bootstrap message, with the version it carries.
Frames == [type : {"event", "bootstrap"}, v : 0..MaxVersion]

HubTypeOK ==
    /\ viaRedis \in BOOLEAN /\ version \in 0..MaxVersion /\ breaks \in 0..MaxBreaks
    /\ subscriber \in {"on", "backoff"} /\ hubDone \in BOOLEAN
    /\ Len(broadcast) <= BroadcastCap /\ channel \in Seq(1..MaxVersion)
    /\ \A c \in Conns :
         /\ client[c].reader \in {"none", "upgraded", "reading", "removed", "ended"}
         /\ client[c].writer \in {"none", "running", "ended"}
         /\ client[c].boot \in {"none", "query", "ready", "done"}
         /\ Len(client[c].send) <= SendCap
         /\ \A i \in DOMAIN client[c].send : client[c].send[i] \in Frames

HubInit ==
    /\ viaRedis \in BOOLEAN /\ version = 0 /\ channel = <<>> /\ subscriber = "on"
    /\ broadcast = <<>> /\ hubDone = FALSE /\ client = [c \in Conns |-> NoClient]
    /\ lost = 0 /\ breaks = 0

-----------------------------------------------------------------------------
Lose(v) == lost' = IF lost < v THEN v ELSE lost

\* enqueue: nothing after Stop, and a full channel drops the message.
Enqueue(v) ==
    IF hubDone \/ Len(broadcast) = BroadcastCap
    THEN Lose(v) /\ UNCHANGED broadcast
    ELSE broadcast' = Append(broadcast, v) /\ UNCHANGED lost

\* Hub.Broadcast: to Redis when a publisher is set, whose error is ignored, else
\* to the local clients.
Broadcast ==
    /\ version < MaxVersion
    /\ version' = version + 1
    /\ \/ /\ viaRedis
          /\ \/ /\ subscriber = "on"
                /\ channel' = Append(channel, version + 1)
                /\ UNCHANGED <<lost, breaks>>
             \/ /\ subscriber = "backoff"
                /\ Lose(version + 1) /\ UNCHANGED <<channel, breaks>>
             \/ /\ breaks < MaxBreaks /\ breaks' = breaks + 1
                /\ Lose(version + 1) /\ UNCHANGED channel
          /\ UNCHANGED broadcast
       \/ ~viaRedis /\ Enqueue(version + 1) /\ UNCHANGED <<channel, breaks>>
    /\ UNCHANGED <<viaRedis, subscriber, hubDone, client>>

\* subscribeOnce hands a message to BroadcastLocal.
Receive ==
    /\ subscriber = "on" /\ channel # <<>>
    /\ channel' = Tail(channel) /\ Enqueue(Head(channel))
    /\ UNCHANGED <<viaRedis, version, subscriber, hubDone, client, breaks>>

\* The subscription ends, or its goroutine panics and recovers: what is on its
\* way is lost.
SubscriptionBreaks ==
    /\ viaRedis /\ subscriber = "on" /\ breaks < MaxBreaks
    /\ subscriber' = "backoff" /\ breaks' = breaks + 1 /\ channel' = <<>>
    /\ IF channel = <<>> THEN UNCHANGED lost ELSE Lose(channel[Len(channel)])
    /\ UNCHANGED <<viaRedis, version, broadcast, hubDone, client>>

\* Subscribe waits out its backoff and subscribes again.
Resubscribe ==
    /\ subscriber = "backoff"
    /\ subscriber' = "on"
    /\ UNCHANGED <<viaRedis, version, channel, broadcast, hubDone, client, lost, breaks>>

-----------------------------------------------------------------------------
\* A non-blocking send to one client: a full queue drops the frame.
Offer(k, frame) ==
    IF Len(k.send) < SendCap
    THEN [k EXCEPT !.send = Append(@, frame)]
    ELSE [k EXCEPT !.missed = IF @ < frame.v THEN frame.v ELSE @]

\* Run takes a message and, holding the read lock, offers it to every client.
Run ==
    /\ ~hubDone /\ broadcast # <<>>
    /\ broadcast' = Tail(broadcast)
    /\ client' = [c \in Conns |-> IF client[c].registered /\ ~client[c].dead
                     THEN Offer(client[c], [type |-> "event", v |-> Head(broadcast)]) ELSE client[c]]
    /\ UNCHANGED <<viaRedis, version, channel, subscriber, hubDone, lost, breaks>>

\* Stop: done is closed, the registered clients are dead and disconnected.
StopHub ==
    /\ ~hubDone
    /\ hubDone' = TRUE
    /\ client' = [c \in Conns |-> IF client[c].registered
                     THEN [client[c] EXCEPT !.dead = TRUE, !.open = FALSE] ELSE client[c]]
    /\ UNCHANGED <<viaRedis, version, channel, subscriber, broadcast, lost, breaks>>

-----------------------------------------------------------------------------
Own(c, k) ==
    /\ client' = [client EXCEPT ![c] = k]
    /\ UNCHANGED <<viaRedis, version, channel, subscriber, broadcast, hubDone, lost, breaks>>

\* candidateTokens, ValidateAccessToken and Upgrade succeeded; the scopes are read.
Upgrade(c) ==
    /\ client[c].reader = "none"
    /\ Own(c, [client[c] EXCEPT !.reader = "upgraded", !.open = TRUE])

\* The client is registered and its goroutines start.  What was broadcast
\* before and is not queued any more reaches it only through the snapshot.
Register(c) ==
    /\ client[c].reader = "upgraded"
    /\ Own(c, [client[c] EXCEPT !.registered = TRUE, !.reader = "reading", !.writer = "running",
                                !.boot = "query", !.afterStop = hubDone])

\* The bootstrap goroutine: it reads the state; a failure sends nothing.
Snapshot(c) ==
    /\ client[c].boot = "query"
    /\ \/ Own(c, [client[c] EXCEPT !.boot = "ready", !.snapshot = version])
       \/ Own(c, [client[c] EXCEPT !.boot = "done", !.missed = version])

\* Then it offers the snapshot, behind the events queued meanwhile.
SendSnapshot(c) ==
    /\ client[c].boot = "ready"
    /\ LET newer == {f \in {client[c].shown} \cup {client[c].send[i] : i \in DOMAIN client[c].send} :
                       f.type = "event" /\ f.v > client[c].snapshot}
           k == [client[c] EXCEPT !.boot = "done", !.missed = IF newer # {} THEN version ELSE @]
       IN Own(c, IF client[c].dead THEN k ELSE Offer(k, [type |-> "bootstrap", v |-> client[c].snapshot]))

\* The writer ends: it closes the connection.
EndWriter(k) == [k EXCEPT !.writer = "ended", !.open = FALSE]

\* The writer: it leaves when the client is dead, and at a failed write.
Write(c) ==
    LET k == client[c]
    IN /\ k.writer = "running"
       /\ \/ k.dead /\ k.send # <<>> /\ Own(c, EndWriter(k))
          \/ ~k.dead /\ k.send # <<>> /\ k.open /\ Own(c, [k EXCEPT !.send = Tail(@), !.shown = Head(k.send)])
          \/ ~k.dead /\ k.send # <<>> /\ ~k.open /\ Own(c, EndWriter(k))

\* Seeded fault: a failed or a late ping is ignored.
PingForEver(c) == client[c].writer = "running" /\ FALSE /\ UNCHANGED hubVars

\* The ping timer wakes a writer that has nothing to send: the ping fails, or
\* the next look at dead ends it.
Ping(c) ==
    LET k == client[c]
    IN /\ k.writer = "running" /\ (k.dead \/ ~k.open)
       /\ Own(c, EndWriter(k))

\* The peer closes, or its pong is late while the connection still takes writes.
PeerLeaves(c) ==
    /\ client[c].reader = "reading"
    /\ \E open \in {FALSE, client[c].open} :
         Own(c, [client[c] EXCEPT !.reader = "removed", !.registered = FALSE, !.open = open])

\* ReadMessage fails on a connection that Stop or the writer closed.
ReadFails(c) ==
    /\ client[c].reader = "reading" /\ ~client[c].open
    /\ Own(c, [client[c] EXCEPT !.reader = "removed", !.registered = FALSE])

\* The handler marks the client dead and returns.
MarkDead(c) ==
    /\ client[c].reader = "removed"
    /\ Own(c, [client[c] EXCEPT !.reader = "ended", !.dead = TRUE])

HubNext ==
    \/ Broadcast \/ Receive \/ SubscriptionBreaks \/ Resubscribe \/ Run \/ StopHub
    \/ \E c \in Conns : \/ Upgrade(c) \/ Register(c) \/ Snapshot(c) \/ SendSnapshot(c)
                        \/ Write(c) \/ Ping(c) \/ PeerLeaves(c) \/ ReadFails(c) \/ MarkDead(c)

HubFairness ==
    /\ WF_hubVars(Receive) /\ WF_hubVars(Resubscribe) /\ WF_hubVars(Run)
    /\ \A c \in Conns : /\ WF_hubVars(Write(c)) /\ WF_hubVars(Ping(c))
                        /\ WF_hubVars(ReadFails(c)) /\ WF_hubVars(MarkDead(c))
                        /\ WF_hubVars(Snapshot(c)) /\ WF_hubVars(SendSnapshot(c))

HubSpec == HubInit /\ [][HubNext]_hubVars /\ HubFairness

-----------------------------------------------------------------------------
\* hub.go:177-206, 398-410: at rest a connected client shows the newest state,
\* unless a message of that state was dropped or lost, or its snapshot was
\* taken before an event that overtook it.  Nothing else leaves a client behind.
BehindOnlyByLoss ==
    \A c \in Conns :
      LET k == client[c]
      IN (/\ k.registered /\ k.writer = "running" /\ ~k.dead /\ k.boot = "done" /\ ~hubDone
          /\ k.send = <<>> /\ broadcast = <<>> /\ channel = <<>>
          /\ version \notin {lost, k.missed})
         => k.shown.v = version

\* hub.go:161-206: events reach a client in the order of the broadcasts: only
\* the snapshot may take what it shows back.
EventsInOrder ==
    [][\A c \in Conns :
         (client[c].shown.type = "event" /\ client'[c].shown.type = "event")
         => client'[c].shown.v >= client[c].shown.v]_hubVars

\* hub.go:407-482: when one of the two goroutines of a connection ends, or Stop
\* closes it, both end and the client is unregistered: no connection is leaked.
ConnectionTornDown ==
    \A c \in Conns :
      (client[c].reader \in {"removed", "ended"} \/ client[c].writer = "ended"
       \/ (hubDone /\ client[c].registered /\ ~client[c].afterStop))
      ~> (client[c].reader = "ended" /\ client[c].writer = "ended" /\ ~client[c].registered)

\* pubsub.go:39-64: a broken subscription is taken up again.
SubscriptionResumes == (subscriber = "backoff") ~> (subscriber = "on")

\* A screen is behind only by what was lost, sees events in order, its
\* connection is torn down whole and the subscription comes back (hub.go).
HubCorrect ==
    /\ [](HubTypeOK /\ BehindOnlyByLoss)
    /\ EventsInOrder
    /\ ConnectionTornDown
    /\ SubscriptionResumes
=============================================================================
