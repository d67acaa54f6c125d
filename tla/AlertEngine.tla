---------------------------- MODULE AlertEngine ----------------------------
(***************************************************************************)
(* internal/engine/alert.go for one rule and one device: the durable rule  *)
(* state, the alerts the rule creates, the absence loop, the operators who *)
(* acknowledge, resolve, reopen or delete alerts, and several server       *)
(* instances on one database.                                              *)
(*                                                                         *)
(* Rules and devices do not interact: evaluation is serialised per (rule,  *)
(* device) by ruleLocks inside an instance, and every query names both.    *)
(* Each action is one database call; what the code computes between two    *)
(* calls belongs to the earlier one.  Times are ages (seconds since),      *)
(* capped where no comparison tells larger ones apart.                     *)
(***************************************************************************)
EXTENDS Integers, FiniteSets, TLC

CONSTANTS
    Engines,      \* server instances
    Ids,          \* alert ids
    NoAlert,      \* no alert id
    Duration,     \* the longest DurationSeconds of the rule's conditions
    Cooldown,     \* rule.CooldownSec
    AutoResolves, \* values of rule.AutoResolve
    HasAbsence,   \* the rule has an absence condition
    PortScans,    \* port scans evaluate the rule on a metric of their own
    Suppression,  \* outages of parents or maintenance windows come and go
    Acts,         \* what operators do: "acknowledge", "resolve", "reopen", "delete"
    MaxFaults,    \* bound: database calls that fail
    MaxCrashes,   \* bound: instances that crash
    MaxFailures   \* bound: failed calls and crashes together

ASSUME AlertAssumption ==
    /\ NoAlert \notin Ids
    /\ Duration \in Nat /\ Cooldown \in Nat
    /\ AutoResolves \subseteq BOOLEAN /\ HasAbsence \in BOOLEAN /\ PortScans \in BOOLEAN
    /\ Suppression \in BOOLEAN
    /\ Acts \subseteq {"acknowledge", "resolve", "reopen", "delete"}
    /\ {MaxFaults, MaxCrashes, MaxFailures} \subseteq Nat

VARIABLES
    autoResolve, \* rule.AutoResolve, fixed
    cond,        \* the rule's conditions hold for the device
    suppressed,  \* topology or maintenance suppresses alerts of the device
    row,         \* alert_rule_state
    alerts,      \* the alerts table
    eval,        \* the evaluation under way in each instance
    absence,     \* the absence check under way in each instance
    metAge,      \* how long evaluations have found the rule met (history)
    firedAge,    \* time since an evaluation last created an alert (history)
    unsaved,     \* the stored row misses what an evaluation decided (history)
    faults,      \* failed database calls (history)
    crashes      \* crashed instances (history)

envVars == <<autoResolve, cond, suppressed>>
historyVars == <<metAge, firedAge, unsaved>>
vars == <<envVars, row, alerts, eval, absence, historyVars, faults, crashes>>

-----------------------------------------------------------------------------
(***************************************************************************)
(* Ages: -1 stands for a NULL timestamp.                                   *)
(***************************************************************************)
\* sustainedDuration starts from CooldownSec.
Sustained == IF Cooldown > Duration THEN Cooldown ELSE Duration

\* Ages stop growing where no comparison tells them apart.
Ages == -1..Sustained
Older(a) == IF a = -1 \/ a = Sustained THEN a ELSE a + 1

States == {"idle", "pending", "firing", "notified", "resolved"}
Row == [State : States, FirstMetAt : Ages, LastResolvedAt : Ages,
        ActiveAlertID : Ids \cup {NoAlert}]
IdleRow == [State |-> "idle", FirstMetAt |-> -1, LastResolvedAt |-> -1,
            ActiveAlertID |-> NoAlert]

\* An alert remembers, for the properties, how often it was announced,
\* whether the rule had been found met for Duration seconds when it fired,
\* and whether it fired from the resolved state.
Alert == [status : {"none", "active", "acknowledged", "resolved"},
          notified : 0..2, sustained : BOOLEAN, refire : BOOLEAN]
Unused == [status |-> "none", notified |-> 0, sustained |-> FALSE, refire |-> FALSE]
NewAlert(sustained, refire) == [status |-> "active", notified |-> 0,
                                sustained |-> sustained, refire |-> refire]

EvalPc == {"idle", "find", "create", "repoint", "notify", "resolve", "upsert"}
NoEval == [pc |-> "idle", row |-> IdleRow, sustained |-> FALSE]
NoCheck == [pc |-> "idle", alert |-> NoAlert]

Active == {a \in Ids : alerts[a].status = "active"}

\* Serial ids are not reused while anything refers to them.
FreeIds == {a \in Ids : /\ alerts[a].status = "none"
                        /\ a # row.ActiveAlertID
                        /\ \A e \in Engines : /\ a # eval[e].row.ActiveAlertID
                                              /\ a # absence[e].alert}
Creators == {e \in Engines : eval[e].pc \in {"find", "create"}}
Checkers == {e \in Engines : absence[e].pc \in {"find", "create"}}
Room == Cardinality(FreeIds) > Cardinality(Creators) + Cardinality(Checkers)

CanFail == faults < MaxFaults /\ faults + crashes < MaxFailures
Fail == CanFail /\ faults' = faults + 1
Ok == UNCHANGED faults

\* An evaluation does not build on the stored state, or ends without storing its own.
LosesState == unsaved' = TRUE
KeepsState == UNCHANGED unsaved

-----------------------------------------------------------------------------
(***************************************************************************)
(* evaluateRule: read the state (an error counts as idle), then decide.    *)
(***************************************************************************)
SetEval(e, pc, r) == eval' = [eval EXCEPT ![e] = [@ EXCEPT !.pc = pc, !.row = r]]

\* Seeded fault: a resolved rule fires again without looking at the cooldown.
MetNoCooldown(e, s) ==
    \/ /\ s.State = "idle"
       /\ SetEval(e, "upsert", [IdleRow EXCEPT !.State = "pending", !.FirstMetAt = 0])
    \/ /\ s.State = "resolved" \/ (s.State = "pending" /\ s.FirstMetAt >= Sustained)
       /\ Room /\ SetEval(e, "find", s)
    \/ /\ \/ s.State \in {"firing", "notified"}
          \/ s.State = "pending" /\ s.FirstMetAt < Sustained
       /\ SetEval(e, "upsert", s)

\* handleConditionMet
Met(e, s) ==
    \/ /\ s.State = "idle"
       /\ SetEval(e, "upsert", [IdleRow EXCEPT !.State = "pending", !.FirstMetAt = 0])
    \/ /\ s.State = "pending" /\ s.FirstMetAt >= Sustained
       /\ Room /\ SetEval(e, "find", s)
    \/ /\ s.State = "pending" /\ s.FirstMetAt < Sustained
       /\ SetEval(e, "upsert", s)
    \/ /\ s.State = "resolved" /\ s.LastResolvedAt # -1 /\ s.LastResolvedAt < Cooldown
       /\ UNCHANGED eval
    \/ /\ s.State = "resolved" /\ ~ (s.LastResolvedAt # -1 /\ s.LastResolvedAt < Cooldown)
       /\ Room /\ SetEval(e, "find", s)
    \/ /\ s.State \in {"firing", "notified"}
       /\ SetEval(e, "upsert", s)

\* handleConditionCleared.  The resolved row is built after the alert is
\* resolved; it keeps nothing of the old one.
ResolvedRow == [IdleRow EXCEPT !.State = "resolved", !.LastResolvedAt = 0]

Cleared(e, s) ==
    \/ /\ s.State = "pending"
       /\ SetEval(e, "upsert", IdleRow)
    \/ /\ s.State \in {"firing", "notified"} /\ ~ autoResolve
       /\ SetEval(e, "upsert", s)
    \/ /\ s.State \in {"firing", "notified"} /\ autoResolve
       /\ IF s.ActiveAlertID # NoAlert THEN SetEval(e, "resolve", s)
          ELSE SetEval(e, "upsert", ResolvedRow)
    \/ /\ s.State \in {"idle", "resolved"}
       /\ UNCHANGED eval

\* A port scan's metric has status "ok" and no readings: nothing is met.
Findings == IF PortScans THEN {cond, FALSE} ELSE {cond}

Evaluate(e, met) ==
    /\ eval[e].pc = "idle" /\ met \in Findings
    /\ \/ (IF met THEN Met(e, row) ELSE Cleared(e, row)) /\ Ok /\ KeepsState
       \/ (IF met THEN Met(e, IdleRow) ELSE Cleared(e, IdleRow)) /\ Fail /\ LosesState
    /\ metAge' = IF ~ met THEN -1 ELSE IF metAge = -1 THEN 0 ELSE metAge
    /\ UNCHANGED <<envVars, row, alerts, absence, firedAge, crashes>>

(***************************************************************************)
(* fireAlert.                                                              *)
(***************************************************************************)
Pointing(s, a) == [s EXCEPT !.State = "firing", !.ActiveAlertID = a]

\* Seeded fault: an alert that is found is announced again.
FindActiveNotifies(e) ==
    /\ eval[e].pc = "find"
    /\ \/ \E a \in Active : SetEval(e, "notify", Pointing(eval[e].row, a)) /\ Ok
       \/ /\ Active = {} /\ Ok
          /\ eval' = [eval EXCEPT ![e].pc = "create", ![e].sustained = TRUE]
    /\ UNCHANGED <<envVars, row, alerts, absence, historyVars, crashes>>

\* Look for an active alert (an error counts as none), then suppression.
\* What the properties ask of the alert is taken along: whether evaluations have
\* found the rule met long enough, as far as their state was read and stored.
FindActive(e) ==
    /\ eval[e].pc = "find"
    /\ \/ \E a \in Active : SetEval(e, "upsert", Pointing(eval[e].row, a)) /\ Ok
       \/ /\ (Active = {} /\ Ok) \/ (Active # {} /\ Fail)
          /\ IF suppressed
             THEN SetEval(e, "upsert", [eval[e].row EXCEPT !.State = "idle"])
             ELSE eval' = [eval EXCEPT ![e].pc = "create",
                                    ![e].sustained = (unsaved \/ metAge >= Duration)]
    /\ UNCHANGED <<envVars, row, alerts, absence, historyVars, crashes>>

\* Seeded fault: the insert has no ON CONFLICT guard.
InsertUnguarded(a, new) == alerts' = [alerts EXCEPT ![a] = new]

\* The partial unique index lets one active alert per rule and device in.
Insert(a, new) == Active = {} /\ alerts' = [alerts EXCEPT ![a] = new]

\* CreateAlert: inserted and read back; inserted but the read fails; the
\* insert fails; or the index reports a duplicate.
CreateAlert(e) ==
    /\ eval[e].pc = "create"
    /\ \E a \in FreeIds :
          \/ /\ Insert(a, NewAlert(eval[e].sustained, eval[e].row.State = "resolved"))
             /\ firedAge' = 0
             /\ \/ Ok /\ KeepsState /\ SetEval(e, "notify",
                           [eval[e].row EXCEPT !.State = "notified",
                              !.LastResolvedAt = -1, !.ActiveAlertID = a])
                \/ Fail /\ LosesState /\ eval' = [eval EXCEPT ![e] = NoEval]
          \/ /\ Fail /\ LosesState /\ eval' = [eval EXCEPT ![e] = NoEval]
             /\ UNCHANGED <<alerts, firedAge>>
          \/ /\ Active # {} /\ Ok /\ KeepsState
             /\ eval' = [eval EXCEPT ![e].pc = "repoint"]
             /\ UNCHANGED <<alerts, firedAge>>
    /\ UNCHANGED <<envVars, row, absence, metAge, crashes>>

\* ErrDuplicateActiveAlert: point the state at the other instance's alert.
Repoint(e) ==
    /\ eval[e].pc = "repoint"
    /\ \/ \E a \in Active : SetEval(e, "upsert", Pointing(eval[e].row, a)) /\ Ok /\ KeepsState
       \/ /\ (Active = {} /\ Ok) \/ (Active # {} /\ Fail)
          /\ LosesState /\ eval' = [eval EXCEPT ![e] = NoEval]
    /\ UNCHANGED <<envVars, row, alerts, absence, metAge, firedAge, crashes>>

\* sendNotifications never blocks; a full queue drops the delivery.
Announce(a) ==
    alerts' = [alerts EXCEPT ![a].notified =
                 IF alerts[a].status # "none" /\ @ < 2 THEN @ + 1 ELSE @]

Notify(e) ==
    /\ eval[e].pc = "notify"
    /\ Announce(eval[e].row.ActiveAlertID) \/ UNCHANGED alerts
    /\ eval' = [eval EXCEPT ![e].pc = "upsert"]
    /\ UNCHANGED <<envVars, row, absence, historyVars, faults, crashes>>

\* UpdateAlertStatus: no error if the alert was deleted meanwhile.
ResolveAlert(e) ==
    /\ eval[e].pc = "resolve"
    /\ \/ /\ Ok
          /\ alerts' = [alerts EXCEPT ![eval[e].row.ActiveAlertID].status =
                          IF @ = "none" THEN @ ELSE "resolved"]
       \/ Fail /\ UNCHANGED alerts
    /\ SetEval(e, "upsert", ResolvedRow)
    /\ UNCHANGED <<envVars, row, absence, historyVars, crashes>>

\* The row counts a pending period from before the rule was last found met.
CarriesOn(r) == r.State = "pending" /\ r.FirstMetAt > metAge

\* upsertState ends the evaluation; its error is only logged.
UpsertState(e) ==
    /\ eval[e].pc = "upsert"
    /\ \/ row' = eval[e].row /\ Ok /\ unsaved' = (unsaved /\ CarriesOn(eval[e].row))
       \/ UNCHANGED row /\ Fail /\ LosesState
    /\ eval' = [eval EXCEPT ![e] = NoEval]
    /\ UNCHANGED <<envVars, alerts, absence, metAge, firedAge, crashes>>

-----------------------------------------------------------------------------
(***************************************************************************)
(* The absence loop of an instance takes no rule lock and writes no rule   *)
(* state.                                                                  *)
(***************************************************************************)
CheckAbsence(e) ==
    /\ HasAbsence /\ absence[e].pc = "idle" /\ Room
    /\ (Active = {} /\ Ok) \/ (Active # {} /\ Fail)
    /\ ~ suppressed
    /\ absence' = [absence EXCEPT ![e].pc = "create"]
    /\ UNCHANGED <<envVars, row, alerts, eval, historyVars, crashes>>

CreateAbsenceAlert(e) ==
    /\ absence[e].pc = "create"
    /\ \E a \in FreeIds :
          \/ /\ Insert(a, NewAlert(TRUE, FALSE))
             /\ \/ Ok /\ absence' = [absence EXCEPT ![e] = [pc |-> "notify", alert |-> a]]
                \/ Fail /\ absence' = [absence EXCEPT ![e] = NoCheck]
          \/ /\ (Active # {} /\ Ok) \/ Fail
             /\ absence' = [absence EXCEPT ![e] = NoCheck]
             /\ UNCHANGED alerts
    /\ UNCHANGED <<envVars, row, eval, historyVars, crashes>>

NotifyAbsence(e) ==
    /\ absence[e].pc = "notify"
    /\ Announce(absence[e].alert) \/ UNCHANGED alerts
    /\ absence' = [absence EXCEPT ![e] = NoCheck]
    /\ UNCHANGED <<envVars, row, eval, historyVars, faults, crashes>>

-----------------------------------------------------------------------------
(***************************************************************************)
(* Operators (handlers/alerts.go) never touch the rule state.  Reopening   *)
(* is Update with status "active", which the unique index may refuse.      *)
(* Retention deletes resolved alerts.                                      *)
(***************************************************************************)
SetStatus(a, st) ==
    /\ alerts[a].status # "none" /\ alerts[a].status # st
    /\ alerts' = [alerts EXCEPT ![a].status = st]

Operate(a) ==
    /\ \/ "acknowledge" \in Acts /\ SetStatus(a, "acknowledged")
       \/ "resolve" \in Acts /\ SetStatus(a, "resolved")
       \/ "reopen" \in Acts /\ Active = {} /\ SetStatus(a, "active")
       \/ /\ "delete" \in Acts /\ alerts[a] # Unused
          /\ alerts' = [alerts EXCEPT ![a] = Unused]
    /\ UNCHANGED <<envVars, row, eval, absence, historyVars, faults, crashes>>

Prune(a) ==
    /\ alerts[a].status = "resolved"
    /\ alerts' = [alerts EXCEPT ![a] = Unused]
    /\ UNCHANGED <<envVars, row, eval, absence, historyVars, faults, crashes>>

ChangeCondition ==
    /\ cond' = ~ cond
    /\ UNCHANGED <<autoResolve, suppressed, row, alerts, eval, absence, historyVars,
                   faults, crashes>>

ChangeSuppression ==
    /\ Suppression
    /\ suppressed' = ~ suppressed
    /\ UNCHANGED <<autoResolve, cond, row, alerts, eval, absence, historyVars,
                   faults, crashes>>

AgeRow(r) == [r EXCEPT !.FirstMetAt = Older(@), !.LastResolvedAt = Older(@)]

Tick ==
    /\ row' = AgeRow(row)
    /\ eval' = [e \in Engines |-> [eval[e] EXCEPT !.row = AgeRow(@)]]
    /\ metAge' = Older(metAge)
    /\ firedAge' = Older(firedAge)
    /\ UNCHANGED <<unsaved, envVars, alerts, absence, faults, crashes>>

\* A crash loses what the instance was doing; the database keeps the rest.
Crash(e) ==
    /\ crashes < MaxCrashes /\ faults + crashes < MaxFailures
    /\ eval[e] # NoEval \/ absence[e] # NoCheck
    /\ crashes' = crashes + 1
    /\ eval' = [eval EXCEPT ![e] = NoEval]
    /\ absence' = [absence EXCEPT ![e] = NoCheck]
    /\ unsaved' = (unsaved \/ eval[e] # NoEval)
    /\ UNCHANGED <<envVars, row, alerts, metAge, firedAge, faults>>

-----------------------------------------------------------------------------
Init ==
    /\ autoResolve \in AutoResolves
    /\ cond = FALSE /\ suppressed = FALSE
    /\ row = IdleRow
    /\ alerts = [a \in Ids |-> Unused]
    /\ eval = [e \in Engines |-> NoEval]
    /\ absence = [e \in Engines |-> NoCheck]
    /\ metAge = -1 /\ firedAge = -1 /\ unsaved = FALSE
    /\ faults = 0 /\ crashes = 0

ProcessMetric(e) == \E met \in BOOLEAN : Evaluate(e, met)

Step(e) == \/ FindActive(e) \/ CreateAlert(e) \/ Repoint(e) \/ Notify(e)
           \/ ResolveAlert(e) \/ UpsertState(e)

AbsenceLoop(e) == CheckAbsence(e) \/ CreateAbsenceAlert(e) \/ NotifyAbsence(e)

Environment == \/ ChangeCondition \/ ChangeSuppression \/ Tick
               \/ \E a \in Ids : Operate(a) \/ Prune(a)

Next == \/ \E e \in Engines : ProcessMetric(e) \/ Step(e) \/ AbsenceLoop(e) \/ Crash(e)
        \/ Environment

Spec == Init /\ [][Next]_vars

(***************************************************************************)
(* Fairness: the device keeps being polled and evaluated, a started        *)
(* evaluation goes on, time passes and retention runs.                     *)
(***************************************************************************)
Fairness ==
    /\ \A e \in Engines : WF_vars(ProcessMetric(e)) /\ WF_vars(Step(e))
    /\ WF_vars(Tick)
    /\ \A a \in Ids : WF_vars(Prune(a))

FairSpec == Spec /\ Fairness

-----------------------------------------------------------------------------
(***************************************************************************)
(* Properties.                                                             *)
(***************************************************************************)
\* Every variable keeps its type.
TypeOK ==
    /\ autoResolve \in BOOLEAN
    /\ cond \in BOOLEAN /\ suppressed \in BOOLEAN
    /\ row \in Row
    /\ alerts \in [Ids -> Alert]
    /\ eval \in [Engines -> [pc : EvalPc, row : Row, sustained : BOOLEAN]]
    /\ absence \in [Engines -> [pc : {"idle", "create", "notify"},
                                alert : Ids \cup {NoAlert}]]
    /\ metAge \in Ages /\ firedAge \in Ages /\ unsaved \in BOOLEAN
    /\ faults \in 0..MaxFaults /\ crashes \in 0..MaxCrashes

\* Whatever instances, absence loops and operators do at the same time, a
\* rule has at most one active alert on a device (H2, migration V44).
OneActiveAlert == Cardinality(Active) <= 1

\* No alert is announced twice: not by two instances that find it together,
\* nor by an instance that meets the alert again after a crash.
NotifiedOnce == \A a \in Ids : alerts[a].notified <= 1

\* With one instance: a rule that fires out of the pending state has been found
\* met by every evaluation of the last Duration seconds, port scans included.  An
\* evaluation that could not read or store the state may leave an old pending row
\* behind, from which the rule fires too early: until a row has been stored that does
\* not carry on that period the promise is void (evaluateRule, upsertState).
PendingFiresSustained ==
    \A a \in Ids : alerts[a].status # "none" /\ ~ alerts[a].refire
                       => alerts[a].sustained

\* With one instance: two alerts that evaluations raise are at least Cooldown
\* seconds apart, unless the row misses what an evaluation before decided.  (The
\* absence loop does not look at the cooldown: alert.go:210-278.)
CooldownRespected ==
    [][firedAge' = 0 /\ firedAge # 0 /\ ~ unsaved => firedAge = -1 \/ firedAge >= Cooldown]_vars

\* With one instance, a rule with auto-resolve and no absence condition whose last
\* evaluation found it not met leaves no active alert behind once that evaluation
\* is over.  After a failed call or a crash there may be one that no state points
\* to; one that the stored state points to is still resolved.
ClearedLeavesNoActive ==
    autoResolve /\ metAge = -1 /\ (\A e \in Engines : eval[e].pc = "idle")
        => IF faults + crashes = 0 THEN Active = {} ELSE unsaved \/ row.ActiveAlertID \notin Active

\* A rule that every evaluation finds met on a device that is not suppressed ends
\* in a fired rule, out of whatever state failed calls, crashes, operators and
\* evaluations before have left.
EventuallyFires ==
    <>[](metAge # -1 /\ ~ suppressed) => <>[](row.State \in {"firing", "notified"})

\* However evaluations, operators, failures and restarts interleave, a rule has
\* one active alert on a device and announces each alert once (alert.go).
AlertedOnce ==
    /\ TypeOK
    /\ OneActiveAlert
    /\ NotifiedOnce

\* A rule's duration, cooldown and clearing are honoured in one instance, through
\* failed calls and crashes as far as the stored row misses nothing, and a condition
\* that lasts fires in the end whatever it misses (alert.go).
RuleHonoured ==
    /\ [](PendingFiresSustained /\ ClearedLeavesNoActive)
    /\ CooldownRespected
    /\ EventuallyFires

\* No action tells one instance from another, or one alert id from another.
Interchangeable == Permutations(Engines) \cup Permutations(Ids)
=============================================================================
