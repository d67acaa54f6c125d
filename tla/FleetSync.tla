----------------------------- MODULE FleetSync -----------------------------
(***************************************************************************)
(* A fleet manager and one instance it looks after.  The manager collects  *)
(* from the instance (remote/collector.go) and learns its fingerprint; the *)
(* instance asks the manager for its service mode (monitoring/cfgsync.go,  *)
(* answered by handlers/sync_handler.go), stores it and obeys it           *)
(* (server/middleware.go: maintenance refuses everything but /health and   *)
(* the login).  An instance out of touch for longer than the grace period  *)
(* puts itself into maintenance.  The mode set at the manager never gets   *)
(* to the instance: the manager wraps its answer in {success, data} and    *)
(* the instance looks for service_mode beside them.                        *)
(***************************************************************************)
EXTENDS Naturals

CONSTANTS GraceDays,
          MaxSyncDays,     \* bound: days
          MaxFleetChanges, \* bound: modes set, rows removed and registered
          MaxSyncFaults    \* bound: restarts, outages, garbled answers, failing statements

ASSUME FleetBounds == {GraceDays, MaxSyncDays, MaxFleetChanges, MaxSyncFaults} \subseteq Nat

Modes == {"active", "maintenance", "readonly"}
Never == 0                  \* last_sync_ok not set; otherwise the day plus one
NoPrint == 0

VARIABLES remoteRow,   \* the manager's row: [exists, mode, print]
          instance,    \* [mode, storedMode, lastOk, print]
          sync,        \* the instance's Sync: [pc, answer]
          collect,     \* the manager's collect
          link, today,
          lastAnswer,  \* history: the day of the last good answer, plus one
          torn,        \* history: what the last good answer asks for was not all stored
          fleetChanges, syncFaults

fleetVars == <<remoteRow, instance, sync, collect, link, today, lastAnswer, torn, fleetChanges, syncFaults>>

\* Type correctness of the fleet.
FleetSyncTypeOK ==
    /\ remoteRow \in [exists: BOOLEAN, mode: Modes, print: 0..1]
    /\ instance \in [mode: Modes, storedMode: Modes, lastOk: 0..(MaxSyncDays + 1), print: 0..1]
    /\ sync \in [pc: {"idle", "asked", "stamp", "store", "apply", "grace"}, answer: Modes]
    /\ collect \in {"idle", "identity", "save"}
    /\ link \in BOOLEAN /\ today \in 0..MaxSyncDays /\ lastAnswer \in 0..(MaxSyncDays + 1) /\ torn \in BOOLEAN
    /\ fleetChanges \in 0..MaxFleetChanges /\ syncFaults \in 0..MaxSyncFaults

FleetSyncInit ==
    /\ remoteRow = [exists |-> FALSE, mode |-> "active", print |-> NoPrint]
    /\ instance = [mode |-> "active", storedMode |-> "active", lastOk |-> Never, print |-> NoPrint]
    /\ sync = [pc |-> "idle", answer |-> "active"]
    /\ collect = "idle"
    /\ link = TRUE /\ today = 0 /\ lastAnswer = Never /\ torn = FALSE
    /\ fleetChanges = 0 /\ syncFaults = 0

-----------------------------------------------------------------------------
(* The instance.                                                           *)

SyncStep(from, to) == sync.pc = from /\ sync' = [sync EXCEPT !.pc = to]

\* Sync: the fingerprint is made once and kept (if that fails nothing happens);
\* then the manager is asked.
StartSync ==
    /\ SyncStep("idle", "asked")
    /\ instance' = [instance EXCEPT !.print = 1]
    /\ UNCHANGED <<remoteRow, collect, link, today, lastAnswer, torn, fleetChanges, syncFaults>>

\* httputil.SendOK.
SendOK(data) == [success |-> TRUE, data |-> data]

\* SyncHandler.Config: the mode of the row with this fingerprint, "active" for
\* one it does not know.
Config == SendOK([service_mode |->
    IF remoteRow.exists /\ remoteRow.print = instance.print THEN remoteRow.mode ELSE "active"])

\* The field of the answer itself, if it is a mode, and "active" otherwise.
ServiceModeOf(answer) ==
    IF "service_mode" \in DOMAIN answer /\ answer.service_mode \in Modes
    THEN answer.service_mode ELSE "active"

SyncAnswered ==
    /\ sync.pc = "asked" /\ link
    /\ sync' = [pc |-> "stamp", answer |-> ServiceModeOf(Config)]
    /\ lastAnswer' = today + 1 /\ torn' = FALSE
    /\ UNCHANGED <<remoteRow, instance, collect, link, today, fleetChanges, syncFaults>>

\* An answer that cannot be decoded ends this Sync.
SyncGarbled ==
    /\ syncFaults < MaxSyncFaults /\ link
    /\ SyncStep("asked", "idle")
    /\ syncFaults' = syncFaults + 1
    /\ UNCHANGED <<remoteRow, instance, collect, link, today, lastAnswer, torn, fleetChanges>>

SyncRefused ==
    /\ ~link /\ SyncStep("asked", "grace")
    /\ UNCHANGED <<remoteRow, instance, collect, link, today, lastAnswer, torn, fleetChanges, syncFaults>>

\* A statement of the instance: the second form fails, and the Sync goes on.
Succeeds == UNCHANGED <<torn, syncFaults>>
Fails == torn' = TRUE /\ syncFaults < MaxSyncFaults /\ syncFaults' = syncFaults + 1

Stamp ==
    /\ SyncStep("stamp", "store")
    /\ \/ instance' = [instance EXCEPT !.lastOk = today + 1] /\ Succeeds
       \/ instance' = instance /\ Fails
    /\ UNCHANGED <<remoteRow, collect, link, today, lastAnswer, fleetChanges>>

\* setMode: the stored mode first, then the mode the middleware reads.
StoreMode ==
    /\ SyncStep("store", "apply")
    /\ \/ instance' = [instance EXCEPT !.storedMode = sync.answer] /\ Succeeds
       \/ instance' = instance /\ Fails
    /\ UNCHANGED <<remoteRow, collect, link, today, lastAnswer, fleetChanges>>

OnModeChange ==
    /\ SyncStep("apply", "idle")
    /\ instance' = [instance EXCEPT !.mode = sync.answer]
    /\ UNCHANGED <<remoteRow, collect, link, today, lastAnswer, torn, fleetChanges, syncFaults>>

\* The last good answer, if there was one, is too old.
GraceOver == instance.lastOk # Never /\ today + 1 - instance.lastOk > GraceDays

\* checkGrace: maintenance when it is; nothing when it cannot be read.
CheckGrace ==
    /\ sync.pc = "grace"
    /\ \/ /\ sync' = IF GraceOver THEN [pc |-> "store", answer |-> "maintenance"] ELSE [sync EXCEPT !.pc = "idle"]
          /\ UNCHANGED syncFaults
       \/ /\ syncFaults < MaxSyncFaults /\ syncFaults' = syncFaults + 1
          /\ sync' = [sync EXCEPT !.pc = "idle"]
    /\ UNCHANGED <<remoteRow, instance, collect, link, today, lastAnswer, torn, fleetChanges>>

\* A restart takes the stored mode up again (main.go).
RestartInstance ==
    /\ syncFaults < MaxSyncFaults
    /\ syncFaults' = syncFaults + 1
    /\ instance' = [instance EXCEPT !.mode = instance.storedMode]
    /\ sync' = [sync EXCEPT !.pc = "idle"]
    /\ torn' = (torn \/ sync.pc \in {"stamp", "store", "apply"})
    /\ UNCHANGED <<remoteRow, collect, link, today, lastAnswer, fleetChanges>>

-----------------------------------------------------------------------------
(* The manager.                                                            *)

\* collect: /health answers in every mode.
CollectHealth ==
    /\ collect = "idle" /\ remoteRow.exists /\ link
    /\ collect' = "identity"
    /\ UNCHANGED <<remoteRow, instance, sync, link, today, lastAnswer, torn, fleetChanges, syncFaults>>

\* ServiceModeMiddleware: what is not /health is refused in maintenance.
Serves == instance.mode # "maintenance"

\* Seeded fault: the first fingerprint an instance shows is never recorded.
FetchNoIdentity ==
    /\ collect = "identity"
    /\ collect' = "save"
    /\ UNCHANGED <<remoteRow, instance, sync, link, today, lastAnswer, torn, fleetChanges, syncFaults>>

FetchIdentity ==
    /\ collect = "identity"
    /\ collect' = "save"
    /\ remoteRow' = IF link /\ Serves /\ instance.print # NoPrint /\ remoteRow.exists
                    THEN [remoteRow EXCEPT !.print = instance.print] ELSE remoteRow
    /\ UNCHANGED <<instance, sync, link, today, lastAnswer, torn, fleetChanges, syncFaults>>

SaveSnapshot ==
    /\ collect = "save"
    /\ collect' = "idle"
    /\ UNCHANGED <<remoteRow, instance, sync, link, today, lastAnswer, torn, fleetChanges, syncFaults>>

SetServiceMode(m) ==
    /\ remoteRow.exists /\ fleetChanges < MaxFleetChanges
    /\ remoteRow' = [remoteRow EXCEPT !.mode = m]
    /\ fleetChanges' = fleetChanges + 1
    /\ UNCHANGED <<instance, sync, collect, link, today, lastAnswer, torn, syncFaults>>

\* Create and Delete of the row; a new one knows no fingerprint.
Register ==
    /\ ~remoteRow.exists /\ fleetChanges < MaxFleetChanges
    /\ remoteRow' = [exists |-> TRUE, mode |-> "active", print |-> NoPrint]
    /\ fleetChanges' = fleetChanges + 1
    /\ UNCHANGED <<instance, sync, collect, link, today, lastAnswer, torn, syncFaults>>

Unregister ==
    /\ remoteRow.exists /\ fleetChanges < MaxFleetChanges
    /\ remoteRow' = [remoteRow EXCEPT !.exists = FALSE]
    /\ fleetChanges' = fleetChanges + 1
    /\ UNCHANGED <<instance, sync, collect, link, today, lastAnswer, torn, syncFaults>>

NextDay ==
    /\ today < MaxSyncDays
    /\ today' = today + 1
    /\ UNCHANGED <<remoteRow, instance, sync, collect, link, lastAnswer, torn, fleetChanges, syncFaults>>

LinkChange ==
    /\ \/ link /\ syncFaults < MaxSyncFaults /\ syncFaults' = syncFaults + 1
       \/ ~link /\ UNCHANGED syncFaults
    /\ link' = ~link
    /\ UNCHANGED <<remoteRow, instance, sync, collect, today, lastAnswer, torn, fleetChanges>>

SyncLoop == StartSync \/ SyncAnswered \/ SyncRefused \/ Stamp \/ StoreMode \/ OnModeChange \/ CheckGrace
CollectLoop == CollectHealth \/ FetchIdentity \/ SaveSnapshot

FleetSyncNext ==
    \/ SyncLoop \/ SyncGarbled \/ RestartInstance
    \/ CollectLoop \/ Register \/ Unregister \/ \E m \in Modes : SetServiceMode(m)
    \/ NextDay \/ LinkChange

\* Both loops run on tickers and every request has a time limit.
FleetSyncFairness == WF_fleetVars(SyncLoop) /\ WF_fleetVars(CollectLoop)

FleetSyncSpec == FleetSyncInit /\ [][FleetSyncNext]_fleetVars /\ FleetSyncFairness

-----------------------------------------------------------------------------
\* An instance is in maintenance only while the grace period has passed since
\* the last good answer it got, days and restarts later included, and never when
\* it had none.  The exception is the last answer whose stamp or mode could not
\* be stored, or that a restart came across: the old stamp or mode then stays
\* until the next answer (Sync, setMode, checkGrace).
GraceHonoured ==
    (instance.mode = "maintenance" /\ ~torn /\ sync.pc \notin {"stamp", "store", "apply"})
        => lastAnswer # Never /\ today + 1 - lastAnswer > GraceDays

\* When the link is up for good, the instance leaves the maintenance it put itself
\* into, stored or not, and the manager learns the fingerprint of an instance
\* that stays registered, though one in maintenance does not tell it (Sync,
\* collect, ServiceModeMiddleware).
FleetSettles ==
    <>[]link => /\ <>[](instance.mode = "active")
                /\ <>[]remoteRow.exists => <>[](remoteRow.print = instance.print)

\* An instance is in maintenance by itself only beyond the grace period, and a
\* lasting link ends that (cfgsync.go, collector.go).
FleetSyncCorrect ==
    /\ [](FleetSyncTypeOK /\ GraceHonoured)
    /\ FleetSettles
=============================================================================
