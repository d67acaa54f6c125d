------------------------- MODULE AlertEngineProofs --------------------------
(***************************************************************************)
(* Proof that AlertedOnce is an invariant of AlertEngine: for any number   *)
(* of instances, alert ids, failing calls and crashes, a rule has at most  *)
(* one active alert on a device and every alert is announced at most once. *)
(*                                                                         *)
(* NotifiedOnce is not inductive.  It rests on who is about to announce:   *)
(* an alert that somebody will announce has not been announced yet, and    *)
(* no two evaluations or absence checks will announce the same one.  Both  *)
(* hold because only the insert that the unique index let through leads to *)
(* an announcement, and because an id is fresh when it is given out.       *)
(***************************************************************************)
EXTENDS AlertEngine, FiniteSetTheorems, TLAPS

Evals == [pc : EvalPc, row : Row, sustained : BOOLEAN]
Checks == [pc : {"idle", "create", "notify"}, alert : Ids \cup {NoAlert}]

EvalAnnounces(e, a) == eval[e].pc = "notify" /\ eval[e].row.ActiveAlertID = a
AbsenceAnnounces(e, a) == absence[e].pc = "notify" /\ absence[e].alert = a

\* At most one id is active, said without cardinality.
ActiveUnique == \A a, b \in Ids : alerts[a].status = "active" /\ alerts[b].status = "active" => a = b

AnnouncedLater ==
    \A e \in Engines, a \in Ids :
        EvalAnnounces(e, a) \/ AbsenceAnnounces(e, a) => alerts[a].notified = 0

OneAnnouncer ==
    \A e, f \in Engines, a \in Ids :
        /\ EvalAnnounces(e, a) /\ EvalAnnounces(f, a) => e = f
        /\ AbsenceAnnounces(e, a) /\ AbsenceAnnounces(f, a) => e = f
        /\ ~ (EvalAnnounces(e, a) /\ AbsenceAnnounces(f, a))

AlertInv == TypeOK /\ ActiveUnique /\ NotifiedOnce /\ AnnouncedLater /\ OneAnnouncer

\* A step after which nobody announces what nobody was about to announce.
QuietEval == \A e \in Engines, a \in Ids : EvalAnnounces(e, a)' => EvalAnnounces(e, a)
QuietAbsence == \A e \in Engines, a \in Ids : AbsenceAnnounces(e, a)' => AbsenceAnnounces(e, a)

-----------------------------------------------------------------------------
LEMMA SustainedNat == Sustained \in Nat
  BY AlertAssumption DEF Sustained

LEMMA AgesFacts == -1 \in Ages /\ 0 \in Ages /\ \A x \in Ages : Older(x) \in Ages
  BY SustainedNat DEF Ages, Older

LEMMA RowFacts ==
    /\ IdleRow \in Row /\ ResolvedRow \in Row
    /\ [IdleRow EXCEPT !.State = "pending", !.FirstMetAt = 0] \in Row
    /\ NoEval \in Evals /\ NoCheck \in Checks /\ Unused \in Alert
    /\ \A r \in Row : AgeRow(r) \in Row /\ AgeRow(r).ActiveAlertID = r.ActiveAlertID
    /\ \A r \in Row, a \in Ids : Pointing(r, a) \in Row
  <1>1. IdleRow \in Row
    BY AgesFacts DEF IdleRow, Row, States
  <1>2. ResolvedRow \in Row
    BY AgesFacts DEF IdleRow, ResolvedRow, Row, States
  <1>3. [IdleRow EXCEPT !.State = "pending", !.FirstMetAt = 0] \in Row
    BY AgesFacts DEF IdleRow, Row, States
  <1>4. NoEval \in Evals
    BY <1>1 DEF NoEval, Evals, EvalPc
  <1>5. NoCheck \in Checks
    BY DEF NoCheck, Checks
  <1>6. Unused \in Alert
    BY DEF Unused, Alert
  <1>7. \A r \in Row : AgeRow(r) \in Row /\ AgeRow(r).ActiveAlertID = r.ActiveAlertID
    BY AgesFacts DEF AgeRow, Row
  <1>8. \A r \in Row, a \in Ids : Pointing(r, a) \in Row
    BY DEF Pointing, Row, States
  <1> QED
    BY <1>1, <1>2, <1>3, <1>4, <1>5, <1>6, <1>7, <1>8

LEMMA NewAlertType ==
    ASSUME NEW sustained \in BOOLEAN, NEW refire \in BOOLEAN
    PROVE  NewAlert(sustained, refire) \in Alert
  BY DEF NewAlert, Alert

LEMMA CreatingType ==
    ASSUME NEW v \in Evals, NEW b \in BOOLEAN
    PROVE  /\ [v EXCEPT !.pc = "create", !.sustained = b] \in Evals
           /\ [v EXCEPT !.pc = "create", !.sustained = b].pc = "create"
  BY DEF Evals, EvalPc

LEMMA SetEvalSets ==
    ASSUME TypeOK, NEW e \in Engines, NEW pc \in EvalPc, NEW r \in Row, SetEval(e, pc, r)
    PROVE  /\ eval' \in [Engines -> Evals] /\ eval'[e].pc = pc /\ eval'[e].row = r
           /\ \A f \in Engines : f # e => eval'[f] = eval[f]
  <1>1. PICK v : v = [eval[e] EXCEPT !.pc = pc, !.row = r]
    OBVIOUS
  <1>2. eval \in [Engines -> Evals]
    BY DEF TypeOK, Evals
  <1>3. v \in Evals /\ v.pc = pc /\ v.row = r
    BY <1>1, <1>2 DEF Evals
  <1>4. eval' = [eval EXCEPT ![e] = v]
    BY <1>1, <1>2 DEF SetEval, Evals
  <1> QED
    BY <1>2, <1>3, <1>4

\* What operators do to a status.
LEMMA StatusSet ==
    ASSUME TypeOK, NEW a \in Ids, NEW st \in {"active", "acknowledged", "resolved"},
           alerts' = [alerts EXCEPT ![a].status = st]
    PROVE  alerts' \in [Ids -> Alert] /\ \A b \in Ids : alerts'[b].notified = alerts[b].notified
  <1>1. PICK v : v = [alerts[a] EXCEPT !.status = st]
    OBVIOUS
  <1>2. alerts \in [Ids -> Alert]
    BY DEF TypeOK
  <1>3. v \in Alert /\ v.notified = alerts[a].notified
    BY <1>1, <1>2 DEF Alert
  <1>4. alerts' = [alerts EXCEPT ![a] = v]
    BY <1>1, <1>2
  <1> QED
    BY <1>2, <1>3, <1>4

\* What changes an evaluation without leading to an announcement.
LEMMA SetEvalQuiet ==
    ASSUME TypeOK, NEW e \in Engines, NEW pc \in EvalPc, pc # "notify", NEW r \in Row,
           SetEval(e, pc, r)
    PROVE  eval' \in [Engines -> Evals] /\ QuietEval
  BY SetEvalSets DEF QuietEval, EvalAnnounces

LEMMA ResetEvalQuiet ==
    ASSUME TypeOK, NEW e \in Engines, eval' = [eval EXCEPT ![e] = NoEval]
    PROVE  eval' \in [Engines -> Evals] /\ QuietEval
  BY RowFacts DEF TypeOK, Evals, QuietEval, EvalAnnounces, NoEval

LEMMA ResetCheckQuiet ==
    ASSUME TypeOK, NEW e \in Engines, absence' = [absence EXCEPT ![e] = NoCheck]
    PROVE  absence' \in [Engines -> Checks] /\ QuietAbsence
  BY RowFacts DEF TypeOK, Checks, QuietAbsence, AbsenceAnnounces, NoCheck

\* The invariant survives a quiet step that neither announces nor activates.
LEMMA QuietStep ==
    ASSUME AlertInv, TypeOK', QuietEval, QuietAbsence,
           \A a \in Ids : /\ alerts'[a].status = "active" => alerts[a].status = "active"
                          /\ alerts'[a].notified <= alerts[a].notified
    PROVE  AlertInv'
  <1> USE DEF AlertInv
  <1>1. ActiveUnique'
    BY DEF ActiveUnique
  <1>2. \A a \in Ids : alerts[a].notified \in 0..2 /\ alerts'[a].notified \in 0..2
    BY DEF TypeOK, Alert
  <1>3. NotifiedOnce'
    BY <1>2 DEF NotifiedOnce
  <1>4. AnnouncedLater'
    BY <1>2 DEF AnnouncedLater, QuietEval, QuietAbsence
  <1>5. OneAnnouncer'
    BY DEF OneAnnouncer, QuietEval, QuietAbsence
  <1> QED
    BY <1>1, <1>3, <1>4, <1>5

-----------------------------------------------------------------------------
(***************************************************************************)
(* The actions of an evaluation.                                           *)
(***************************************************************************)
LEMMA FaultsType ==
    ASSUME TypeOK, Ok \/ Fail
    PROVE  faults' \in 0..MaxFaults
  BY AlertAssumption DEF TypeOK, Ok, Fail, CanFail

LEMMA DecideQuiet ==
    ASSUME TypeOK, NEW e \in Engines, NEW s \in Row, Met(e, s) \/ Cleared(e, s)
    PROVE  eval' \in [Engines -> Evals] /\ QuietEval
  <1>1. CASE UNCHANGED eval
    BY <1>1 DEF TypeOK, Evals, QuietEval, EvalAnnounces
  <1>2. CASE \E pc \in EvalPc \ {"notify"}, r \in Row : SetEval(e, pc, r)
    BY <1>2, SetEvalQuiet
  <1>3. {"find", "upsert", "resolve"} \subseteq EvalPc \ {"notify"}
    BY DEF EvalPc
  <1> QED
    BY <1>1, <1>2, <1>3, RowFacts DEF Met, Cleared

LEMMA EvaluateKeeps ==
    ASSUME AlertInv, NEW e \in Engines, NEW met \in BOOLEAN, Evaluate(e, met)
    PROVE  AlertInv'
  <1> USE DEF AlertInv
  <1>1. row \in Row /\ IdleRow \in Row
    BY RowFacts DEF TypeOK
  <1>2. eval' \in [Engines -> Evals] /\ QuietEval
    BY <1>1, DecideQuiet DEF Evaluate
  <1>3. faults' \in 0..MaxFaults
    BY FaultsType DEF Evaluate
  <1>4. metAge' \in Ages
    BY AgesFacts DEF Evaluate, TypeOK
  <1>5. UNCHANGED <<envVars, row, alerts, absence, firedAge, crashes>>
    BY DEF Evaluate
  <1>9. unsaved' \in BOOLEAN
    BY DEF Evaluate, LosesState, KeepsState, TypeOK
  <1>6. TypeOK'
    BY <1>2, <1>3, <1>4, <1>5, <1>9 DEF TypeOK, envVars, Evals
  <1>7. QuietAbsence
    BY <1>5 DEF QuietAbsence, AbsenceAnnounces
  <1>8. \A a \in Ids : alerts[a].notified <= alerts[a].notified
    BY DEF TypeOK, Alert
  <1> QED
    BY <1>2, <1>5, <1>6, <1>7, <1>8, QuietStep

\* The common shape of the steps of an evaluation that leave the alerts alone.
LEMMA EvalStepKeeps ==
    ASSUME AlertInv, eval' \in [Engines -> Evals], QuietEval, row' \in Row,
           faults' \in 0..MaxFaults, unsaved' \in BOOLEAN,
           UNCHANGED <<envVars, alerts, absence, metAge, firedAge, crashes>>
    PROVE  AlertInv'
  <1> USE DEF AlertInv
  <1>1. TypeOK'
    BY DEF TypeOK, envVars, Evals
  <1>2. QuietAbsence
    BY DEF QuietAbsence, AbsenceAnnounces
  <1>3. \A a \in Ids : alerts[a].notified <= alerts[a].notified
    BY DEF TypeOK, Alert
  <1> QED
    BY <1>1, <1>2, <1>3, QuietStep

LEMMA FindActiveKeeps ==
    ASSUME AlertInv, NEW e \in Engines, FindActive(e)
    PROVE  AlertInv'
  <1> USE DEF AlertInv
  <1>1. eval[e].row \in Row /\ row \in Row
    BY DEF TypeOK
  <1>2. eval' \in [Engines -> Evals] /\ QuietEval
    <2>1. CASE \E a \in Active : SetEval(e, "upsert", Pointing(eval[e].row, a))
      BY <2>1, <1>1, RowFacts, SetEvalQuiet DEF Active, EvalPc
    <2>2. CASE SetEval(e, "upsert", [eval[e].row EXCEPT !.State = "idle"])
      <3>1. [eval[e].row EXCEPT !.State = "idle"] \in Row
        BY <1>1 DEF Row, States
      <3> QED
        BY <2>2, <3>1, SetEvalQuiet DEF EvalPc
    <2>3. CASE eval' = [eval EXCEPT ![e].pc = "create",
                                    ![e].sustained = (unsaved \/ metAge >= Duration)]
      <3> DEFINE sustained == unsaved \/ metAge >= Duration
      <3>1. eval \in [Engines -> Evals] /\ sustained \in BOOLEAN
        BY DEF TypeOK, Evals
      <3>2. /\ eval'[e] = [eval[e] EXCEPT !.pc = "create", !.sustained = sustained]
            /\ \A f \in Engines \ {e} : eval'[f] = eval[f]
        BY <2>3, <3>1
      <3> HIDE DEF sustained
      <3>3. eval'[e] \in Evals /\ eval'[e].pc = "create"
        <4>1. eval[e] \in Evals /\ sustained \in BOOLEAN
          BY <3>1
        <4>2. /\ [eval[e] EXCEPT !.pc = "create", !.sustained = sustained] \in Evals
              /\ [eval[e] EXCEPT !.pc = "create", !.sustained = sustained].pc = "create"
          BY <4>1, CreatingType, Zenon
        <4> QED
          BY <3>2, <4>2, Zenon
      <3> QED
        BY <2>3, <3>1, <3>2, <3>3 DEF QuietEval, EvalAnnounces
    <2> QED
      BY <2>1, <2>2, <2>3 DEF FindActive
  <1>3. faults' \in 0..MaxFaults
    BY FaultsType DEF FindActive
  <1>4. /\ unsaved' \in BOOLEAN
        /\ UNCHANGED <<envVars, row, alerts, absence, metAge, firedAge, crashes>>
    BY DEF FindActive, historyVars, TypeOK
  <1> QED
    BY <1>1, <1>2, <1>3, <1>4, EvalStepKeeps

\* The insert: the one step after which somebody new is about to announce.
LEMMA CreateAlertKeeps ==
    ASSUME AlertInv, NEW e \in Engines, CreateAlert(e)
    PROVE  AlertInv'
  <1> USE DEF AlertInv
  <1>1. UNCHANGED <<envVars, row, absence, metAge, crashes>>
    BY DEF CreateAlert
  <1>2. faults' \in 0..MaxFaults
    BY FaultsType DEF CreateAlert
  <1>3. PICK a \in FreeIds :
          \/ /\ Insert(a, NewAlert(eval[e].sustained, eval[e].row.State = "resolved"))
             /\ firedAge' = 0
             /\ \/ Ok /\ KeepsState /\ SetEval(e, "notify",
                           [eval[e].row EXCEPT !.State = "notified",
                              !.LastResolvedAt = -1, !.ActiveAlertID = a])
                \/ Fail /\ LosesState /\ eval' = [eval EXCEPT ![e] = NoEval]
          \/ /\ Fail /\ LosesState /\ eval' = [eval EXCEPT ![e] = NoEval]
             /\ UNCHANGED <<alerts, firedAge>>
          \/ /\ Active # {} /\ Ok /\ KeepsState
             /\ eval' = [eval EXCEPT ![e].pc = "repoint"]
             /\ UNCHANGED <<alerts, firedAge>>
    BY DEF CreateAlert
  <1>6. unsaved' \in BOOLEAN
    BY <1>3 DEF LosesState, KeepsState, TypeOK
  <1>4. CASE /\ Insert(a, NewAlert(eval[e].sustained, eval[e].row.State = "resolved"))
             /\ firedAge' = 0
    <2>1. a \in Ids /\ \A f \in Engines : ~EvalAnnounces(f, a) /\ ~AbsenceAnnounces(f, a)
      BY DEF FreeIds, EvalAnnounces, AbsenceAnnounces
    <2>2. eval[e].sustained \in BOOLEAN /\ (eval[e].row.State = "resolved") \in BOOLEAN
      BY DEF TypeOK
    <2> DEFINE new == NewAlert(eval[e].sustained, eval[e].row.State = "resolved")
    <2>3. new \in Alert /\ new.notified = 0 /\ new.status = "active"
      BY <2>2, NewAlertType DEF NewAlert
    <2>4. Active = {} /\ alerts' = [alerts EXCEPT ![a] = new]
      BY <1>4 DEF Insert
    <2> HIDE DEF new
    <2>5. alerts' \in [Ids -> Alert] /\ ActiveUnique' /\ NotifiedOnce'
      BY <2>1, <2>3, <2>4 DEF TypeOK, ActiveUnique, NotifiedOnce, Active
    <2>6. /\ eval' \in [Engines -> Evals]
          /\ \A f \in Engines, b \in Ids :
                EvalAnnounces(f, b)' => EvalAnnounces(f, b) \/ (f = e /\ b = a)
      <3>1. CASE eval' = [eval EXCEPT ![e] = NoEval]
        BY <3>1, ResetEvalQuiet DEF QuietEval
      <3> DEFINE r == [eval[e].row EXCEPT !.State = "notified",
                              !.LastResolvedAt = -1, !.ActiveAlertID = a]
      <3>2. CASE SetEval(e, "notify", r)
        <4>1. r \in Row /\ r.ActiveAlertID = a
          BY <2>1, AgesFacts DEF TypeOK, Row, States
        <4> HIDE DEF r
        <4>2. /\ eval' \in [Engines -> Evals] /\ eval'[e].row = r
              /\ \A f \in Engines : f # e => eval'[f] = eval[f]
          BY <3>2, <4>1, SetEvalSets DEF EvalPc
        <4> QED
          BY <4>1, <4>2 DEF EvalAnnounces
      <3>3. eval' = [eval EXCEPT ![e] = NoEval] \/ SetEval(e, "notify", r)
        BY <1>3, <1>4, <2>4, <2>3, <2>1 DEF Active, FreeIds, Alert, NewAlert, TypeOK
      <3> QED
        BY <3>1, <3>2, <3>3
    <2>7. TypeOK'
      BY <1>1, <1>2, <1>4, <1>6, <2>5, <2>6, AgesFacts DEF TypeOK, envVars, Evals
    <2>8. \A f \in Engines, b \in Ids : AbsenceAnnounces(f, b)' <=> AbsenceAnnounces(f, b)
      BY <1>1 DEF AbsenceAnnounces
    <2>9. AnnouncedLater'
      BY <2>1, <2>3, <2>4, <2>6, <2>8 DEF AnnouncedLater, TypeOK
    <2>10. OneAnnouncer'
      BY <2>1, <2>6, <2>8 DEF OneAnnouncer
    <2> QED
      BY <2>5, <2>7, <2>9, <2>10
  <1>5. CASE /\ eval' = [eval EXCEPT ![e] = NoEval] \/ eval' = [eval EXCEPT ![e].pc = "repoint"]
             /\ UNCHANGED <<alerts, firedAge>>
    <2>1. CASE eval' = [eval EXCEPT ![e].pc = "repoint"]
      <3>1. eval' \in [Engines -> Evals] /\ QuietEval
        BY <2>1 DEF TypeOK, Evals, EvalPc, QuietEval, EvalAnnounces
      <3> QED
        BY <3>1, <1>1, <1>2, <1>5, <1>6, EvalStepKeeps DEF TypeOK
    <2>2. CASE eval' = [eval EXCEPT ![e] = NoEval]
      <3>1. eval' \in [Engines -> Evals] /\ QuietEval
        BY <2>2, ResetEvalQuiet
      <3> QED
        BY <3>1, <1>1, <1>2, <1>5, <1>6, EvalStepKeeps DEF TypeOK
    <2> QED
      BY <1>5, <2>1, <2>2
  <1> QED
    BY <1>3, <1>4, <1>5

LEMMA RepointKeeps ==
    ASSUME AlertInv, NEW e \in Engines, Repoint(e)
    PROVE  AlertInv'
  <1> USE DEF AlertInv
  <1>1. eval[e].row \in Row /\ row \in Row
    BY DEF TypeOK
  <1>2. eval' \in [Engines -> Evals] /\ QuietEval
    <2>1. CASE \E a \in Active : SetEval(e, "upsert", Pointing(eval[e].row, a))
      BY <2>1, <1>1, RowFacts, SetEvalQuiet DEF Active, EvalPc
    <2>2. CASE eval' = [eval EXCEPT ![e] = NoEval]
      BY <2>2, ResetEvalQuiet
    <2> QED
      BY <2>1, <2>2 DEF Repoint
  <1>3. faults' \in 0..MaxFaults
    BY FaultsType DEF Repoint
  <1>4. /\ unsaved' \in BOOLEAN
        /\ UNCHANGED <<envVars, row, alerts, absence, metAge, firedAge, crashes>>
    BY DEF Repoint, LosesState, KeepsState, TypeOK
  <1> QED
    BY <1>1, <1>2, <1>3, <1>4, EvalStepKeeps

\* The step that announces an alert: the announcer is the only one, and the
\* alert was not announced before.
LEMMA AnnounceKeeps ==
    ASSUME AlertInv, NEW a \in Ids, TypeOK', QuietEval, QuietAbsence,
           \A f \in Engines : ~ EvalAnnounces(f, a)' /\ ~ AbsenceAnnounces(f, a)',
           alerts[a].notified = 0, Announce(a) \/ UNCHANGED alerts
    PROVE  AlertInv'
  <1> USE DEF AlertInv
  <1>1. CASE UNCHANGED alerts
    <2>1. \A b \in Ids : alerts[b].notified <= alerts[b].notified
      BY DEF TypeOK, Alert
    <2> QED
      BY <1>1, <2>1, QuietStep
  <1>2. CASE Announce(a)
    <2>1. /\ \A b \in Ids \ {a} : alerts'[b] = alerts[b]
          /\ alerts'[a].status = alerts[a].status /\ alerts'[a].notified \in {0, 1}
      BY <1>2 DEF Announce, TypeOK, Alert
    <2>2. ActiveUnique'
      BY <2>1 DEF ActiveUnique
    <2>5. NotifiedOnce'
      BY <2>1 DEF NotifiedOnce
    <2>3. AnnouncedLater'
      BY <2>1 DEF AnnouncedLater, QuietEval, QuietAbsence
    <2>4. OneAnnouncer'
      BY DEF OneAnnouncer, QuietEval, QuietAbsence
    <2> QED
      BY <2>2, <2>3, <2>4, <2>5
  <1> QED
    BY <1>1, <1>2

LEMMA AnnounceType ==
    ASSUME TypeOK, NEW a \in Ids \cup {NoAlert}, Announce(a) \/ UNCHANGED alerts
    PROVE  alerts' \in [Ids -> Alert]
  BY DEF TypeOK, Announce, Alert

LEMMA AnnounceNothing ==
    ASSUME TypeOK, Announce(NoAlert)
    PROVE  alerts' = alerts
  BY AlertAssumption DEF TypeOK, Announce

LEMMA NotifyKeeps ==
    ASSUME AlertInv, NEW e \in Engines, Notify(e)
    PROVE  AlertInv'
  <1> USE DEF AlertInv
  <1>0. PICK a \in Ids \cup {NoAlert} : a = eval[e].row.ActiveAlertID
    BY DEF TypeOK, Row
  <1>1. /\ eval[e].pc = "notify" /\ eval' = [eval EXCEPT ![e].pc = "upsert"]
        /\ Announce(a) \/ UNCHANGED alerts
        /\ UNCHANGED <<envVars, row, absence, historyVars, faults, crashes>>
    BY <1>0 DEF Notify
  <1>3. eval' \in [Engines -> Evals] /\ QuietEval /\ \A b \in Ids : ~ EvalAnnounces(e, b)'
    BY <1>1 DEF TypeOK, Evals, EvalPc, QuietEval, EvalAnnounces
  <1>4. alerts' \in [Ids -> Alert]
    BY <1>1, AnnounceType
  <1>5. TypeOK'
    BY <1>1, <1>3, <1>4 DEF TypeOK, envVars, historyVars, Evals
  <1>6. \A f \in Engines, b \in Ids : AbsenceAnnounces(f, b)' <=> AbsenceAnnounces(f, b)
    BY <1>1 DEF AbsenceAnnounces
  <1>7. QuietAbsence
    BY <1>6 DEF QuietAbsence
  <1>8. CASE a \in Ids
    <2>1. EvalAnnounces(e, a)
      BY <1>0, <1>1 DEF EvalAnnounces
    <2>2. alerts[a].notified = 0
      BY <2>1, <1>8 DEF AnnouncedLater
    <2>3. \A f \in Engines : ~ EvalAnnounces(f, a)' /\ ~ AbsenceAnnounces(f, a)'
      BY <2>1, <1>8, <1>3, <1>6 DEF OneAnnouncer, QuietEval
    <2> QED
      BY <2>2, <2>3, <1>1, <1>5, <1>3, <1>7, <1>8, AnnounceKeeps
  <1>9. CASE a = NoAlert
    <2>1. alerts' = alerts
      BY <1>9, <1>1, AnnounceNothing
    <2>2. \A b \in Ids : alerts[b].notified <= alerts[b].notified
      BY DEF TypeOK, Alert
    <2> QED
      BY <2>1, <2>2, <1>5, <1>3, <1>7, QuietStep
  <1> QED
    BY <1>8, <1>9

\* The common shape of the steps that change alerts and activate none.
LEMMA AlertsOnlyKeeps ==
    ASSUME AlertInv, TypeOK', QuietEval, UNCHANGED absence,
           \A a \in Ids : /\ alerts'[a].status = "active" => alerts[a].status = "active"
                          /\ alerts'[a].notified <= alerts[a].notified
    PROVE  AlertInv'
  <1>1. QuietAbsence
    BY DEF QuietAbsence, AbsenceAnnounces
  <1> QED
    BY <1>1, QuietStep

LEMMA ResolveAlertKeeps ==
    ASSUME AlertInv, NEW e \in Engines, ResolveAlert(e)
    PROVE  AlertInv'
  <1> USE DEF AlertInv
  <1>1. eval' \in [Engines -> Evals] /\ QuietEval
    BY RowFacts, SetEvalQuiet DEF ResolveAlert, EvalPc
  <1>2. faults' \in 0..MaxFaults
    BY FaultsType DEF ResolveAlert
  <1>3. /\ alerts' \in [Ids -> Alert]
        /\ \A a \in Ids : /\ alerts'[a].status = "active" => alerts[a].status = "active"
                          /\ alerts'[a].notified = alerts[a].notified
    <2>1. PICK b : b = eval[e].row.ActiveAlertID
      OBVIOUS
    <2>2. \/ alerts' = [alerts EXCEPT ![b].status = IF @ = "none" THEN @ ELSE "resolved"]
          \/ UNCHANGED alerts
      BY <2>1 DEF ResolveAlert
    <2>3. CASE b \in Ids /\ alerts[b].status # "none"
      <3>1. alerts' = [alerts EXCEPT ![b].status = "resolved"] \/ UNCHANGED alerts
        BY <2>2, <2>3
      <3>2. CASE alerts' = [alerts EXCEPT ![b].status = "resolved"]
        BY <2>3, <3>2 DEF TypeOK, Alert
      <3>3. CASE UNCHANGED alerts
        BY <3>3 DEF TypeOK
      <3> QED
        BY <3>1, <3>2, <3>3
    <2>4. CASE ~ (b \in Ids /\ alerts[b].status # "none")
      <3>1. alerts \in [Ids -> Alert]
        BY DEF TypeOK
      <3>2. alerts' = alerts
        BY <2>2, <2>4, <3>1 DEF Alert
      <3> QED
        BY <3>1, <3>2
    <2> QED
      BY <2>3, <2>4
  <1>4. UNCHANGED <<envVars, row, absence, historyVars, crashes>>
    BY DEF ResolveAlert
  <1>5. TypeOK'
    BY <1>1, <1>2, <1>3, <1>4 DEF TypeOK, envVars, historyVars, Evals
  <1>6. \A a \in Ids : alerts'[a].notified <= alerts[a].notified
    BY <1>3 DEF TypeOK, Alert
  <1> QED
    BY <1>1, <1>3, <1>4, <1>5, <1>6, AlertsOnlyKeeps

LEMMA UpsertStateKeeps ==
    ASSUME AlertInv, NEW e \in Engines, UpsertState(e)
    PROVE  AlertInv'
  <1> USE DEF AlertInv
  <1>1. eval' \in [Engines -> Evals] /\ QuietEval
    BY ResetEvalQuiet DEF UpsertState
  <1>2. faults' \in 0..MaxFaults
    BY FaultsType DEF UpsertState
  <1>3. row' \in Row
    BY DEF UpsertState, TypeOK
  <1>4. /\ unsaved' \in BOOLEAN
        /\ UNCHANGED <<envVars, alerts, absence, metAge, firedAge, crashes>>
    <2>1. unsaved' \in BOOLEAN
      <3>1. CASE unsaved' = (unsaved /\ CarriesOn(eval[e].row))
        BY <3>1
      <3>2. CASE LosesState
        BY <3>2 DEF LosesState
      <3> QED
        BY <3>1, <3>2 DEF UpsertState
    <2> QED
      BY <2>1 DEF UpsertState
  <1> QED
    BY <1>1, <1>2, <1>3, <1>4, EvalStepKeeps

-----------------------------------------------------------------------------
(***************************************************************************)
(* The absence loop.                                                       *)
(***************************************************************************)
\* The common shape of the steps of the absence loop that leave the alerts alone.
LEMMA CheckStepKeeps ==
    ASSUME AlertInv, absence' \in [Engines -> Checks], QuietAbsence,
           faults' \in 0..MaxFaults,
           UNCHANGED <<envVars, row, alerts, eval, historyVars, crashes>>
    PROVE  AlertInv'
  <1> USE DEF AlertInv
  <1>1. TypeOK'
    BY DEF TypeOK, envVars, historyVars, Checks
  <1>2. QuietEval
    BY DEF QuietEval, EvalAnnounces
  <1>3. \A a \in Ids : alerts[a].notified <= alerts[a].notified
    BY DEF TypeOK, Alert
  <1> QED
    BY <1>1, <1>2, <1>3, QuietStep

LEMMA CheckAbsenceKeeps ==
    ASSUME AlertInv, NEW e \in Engines, CheckAbsence(e)
    PROVE  AlertInv'
  <1> USE DEF AlertInv
  <1>1. absence' \in [Engines -> Checks] /\ QuietAbsence
    BY DEF CheckAbsence, TypeOK, Checks, QuietAbsence, AbsenceAnnounces
  <1>2. faults' \in 0..MaxFaults
    BY FaultsType DEF CheckAbsence
  <1> QED
    BY <1>1, <1>2, CheckStepKeeps DEF CheckAbsence

LEMMA CreateAbsenceAlertKeeps ==
    ASSUME AlertInv, NEW e \in Engines, CreateAbsenceAlert(e)
    PROVE  AlertInv'
  <1> USE DEF AlertInv
  <1>1. UNCHANGED <<envVars, row, eval, historyVars, crashes>>
    BY DEF CreateAbsenceAlert
  <1>2. faults' \in 0..MaxFaults
    BY FaultsType DEF CreateAbsenceAlert
  <1>3. PICK a \in FreeIds :
          \/ /\ Insert(a, NewAlert(TRUE, FALSE))
             /\ \/ absence' = [absence EXCEPT ![e] = [pc |-> "notify", alert |-> a]]
                \/ absence' = [absence EXCEPT ![e] = NoCheck]
          \/ /\ absence' = [absence EXCEPT ![e] = NoCheck]
             /\ UNCHANGED alerts
    BY DEF CreateAbsenceAlert
  <1>4. CASE /\ Insert(a, NewAlert(TRUE, FALSE))
             /\ \/ absence' = [absence EXCEPT ![e] = [pc |-> "notify", alert |-> a]]
                \/ absence' = [absence EXCEPT ![e] = NoCheck]
    <2>1. a \in Ids /\ \A f \in Engines : ~EvalAnnounces(f, a) /\ ~AbsenceAnnounces(f, a)
      BY DEF FreeIds, EvalAnnounces, AbsenceAnnounces
    <2> DEFINE new == NewAlert(TRUE, FALSE)
    <2>2. new \in Alert /\ new.notified = 0 /\ new.status = "active"
      BY NewAlertType DEF NewAlert
    <2>3. Active = {} /\ alerts' = [alerts EXCEPT ![a] = new]
      BY <1>4 DEF Insert
    <2> HIDE DEF new
    <2>4. alerts' \in [Ids -> Alert] /\ ActiveUnique' /\ NotifiedOnce'
      BY <2>1, <2>2, <2>3 DEF TypeOK, ActiveUnique, NotifiedOnce, Active
    <2>5. /\ absence' \in [Engines -> Checks]
          /\ \A f \in Engines, b \in Ids :
                AbsenceAnnounces(f, b)' => AbsenceAnnounces(f, b) \/ (f = e /\ b = a)
      <3>1. CASE absence' = [absence EXCEPT ![e] = NoCheck]
        BY <3>1, ResetCheckQuiet DEF QuietAbsence
      <3>2. CASE absence' = [absence EXCEPT ![e] = [pc |-> "notify", alert |-> a]]
        BY <3>2, <2>1 DEF TypeOK, Checks, AbsenceAnnounces
      <3> QED
        BY <3>1, <3>2, <1>4
    <2>6. TypeOK'
      BY <1>1, <1>2, <2>4, <2>5 DEF TypeOK, envVars, historyVars, Checks
    <2>7. \A f \in Engines, b \in Ids : EvalAnnounces(f, b)' <=> EvalAnnounces(f, b)
      BY <1>1 DEF EvalAnnounces
    <2>8. AnnouncedLater'
      BY <2>1, <2>2, <2>3, <2>5, <2>7 DEF AnnouncedLater, TypeOK
    <2>9. OneAnnouncer'
      BY <2>1, <2>5, <2>7 DEF OneAnnouncer
    <2> QED
      BY <2>4, <2>6, <2>8, <2>9
  <1>5. CASE absence' = [absence EXCEPT ![e] = NoCheck] /\ UNCHANGED alerts
    <2>1. absence' \in [Engines -> Checks] /\ QuietAbsence
      BY <1>5, ResetCheckQuiet
    <2> QED
      BY <2>1, <1>1, <1>2, <1>5, CheckStepKeeps
  <1> QED
    BY <1>3, <1>4, <1>5

LEMMA NotifyAbsenceKeeps ==
    ASSUME AlertInv, NEW e \in Engines, NotifyAbsence(e)
    PROVE  AlertInv'
  <1> USE DEF AlertInv
  <1>0. PICK a \in Ids \cup {NoAlert} : a = absence[e].alert
    BY DEF TypeOK
  <1>1. /\ absence[e].pc = "notify" /\ absence' = [absence EXCEPT ![e] = NoCheck]
        /\ Announce(a) \/ UNCHANGED alerts
        /\ UNCHANGED <<envVars, row, eval, historyVars, faults, crashes>>
    BY <1>0 DEF NotifyAbsence
  <1>3. absence' \in [Engines -> Checks] /\ QuietAbsence
    BY <1>1, ResetCheckQuiet
  <1>4. \A b \in Ids : ~ AbsenceAnnounces(e, b)'
    BY <1>1 DEF TypeOK, AbsenceAnnounces, NoCheck
  <1>5. alerts' \in [Ids -> Alert]
    BY <1>1, AnnounceType
  <1>6. TypeOK'
    BY <1>1, <1>3, <1>5 DEF TypeOK, envVars, historyVars, Checks
  <1>7. \A f \in Engines, b \in Ids : EvalAnnounces(f, b)' <=> EvalAnnounces(f, b)
    BY <1>1 DEF EvalAnnounces
  <1>8. QuietEval
    BY <1>7 DEF QuietEval
  <1>9. CASE a \in Ids
    <2>1. AbsenceAnnounces(e, a)
      BY <1>0, <1>1 DEF AbsenceAnnounces
    <2>2. alerts[a].notified = 0
      BY <2>1, <1>9 DEF AnnouncedLater
    <2>3. \A f \in Engines : ~ EvalAnnounces(f, a)' /\ ~ AbsenceAnnounces(f, a)'
      BY <2>1, <1>9, <1>3, <1>4, <1>7 DEF OneAnnouncer, QuietAbsence
    <2> QED
      BY <2>2, <2>3, <1>1, <1>6, <1>3, <1>8, <1>9, AnnounceKeeps
  <1>10. CASE a = NoAlert
    <2>1. alerts' = alerts
      BY <1>10, <1>1, AnnounceNothing
    <2>2. \A b \in Ids : alerts[b].notified <= alerts[b].notified
      BY DEF TypeOK, Alert
    <2> QED
      BY <2>1, <2>2, <1>6, <1>3, <1>8, QuietStep
  <1> QED
    BY <1>9, <1>10

-----------------------------------------------------------------------------
(***************************************************************************)
(* Operators, retention, the environment, crashes.                         *)
(***************************************************************************)
\* Deleting an alert forgets it; its id is free again only when nobody
\* refers to it, so a later alert under the same id is a new one.
LEMMA DeleteKeeps ==
    ASSUME AlertInv, NEW a \in Ids, alerts' = [alerts EXCEPT ![a] = Unused],
           UNCHANGED <<envVars, row, eval, absence, historyVars, faults, crashes>>
    PROVE  AlertInv'
  <1> USE DEF AlertInv
  <1>1. TypeOK'
    BY RowFacts DEF TypeOK, envVars, historyVars
  <1>2. QuietEval
    BY DEF QuietEval, EvalAnnounces
  <1>3. \A b \in Ids : /\ alerts'[b].status = "active" => alerts[b].status = "active"
                       /\ alerts'[b].notified <= alerts[b].notified
    BY DEF TypeOK, Alert, Unused
  <1> QED
    BY <1>1, <1>2, <1>3, AlertsOnlyKeeps

LEMMA OperateKeeps ==
    ASSUME AlertInv, NEW a \in Ids, Operate(a)
    PROVE  AlertInv'
  <1> USE DEF AlertInv
  <1>1. UNCHANGED <<envVars, row, eval, absence, historyVars, faults, crashes>>
    BY DEF Operate
  <1>2. CASE \E st \in {"acknowledged", "resolved"} : SetStatus(a, st)
    <2>1. PICK st \in {"acknowledged", "resolved"} : alerts' = [alerts EXCEPT ![a].status = st]
      BY <1>2 DEF SetStatus
    <2>2. TypeOK'
      BY <1>1, <2>1, StatusSet DEF TypeOK, envVars, historyVars
    <2>3. QuietEval
      BY <1>1 DEF QuietEval, EvalAnnounces
    <2>4. \A b \in Ids : /\ alerts'[b].status = "active" => alerts[b].status = "active"
                         /\ alerts'[b].notified <= alerts[b].notified
      BY <2>1 DEF TypeOK, Alert
    <2> QED
      BY <1>1, <2>2, <2>3, <2>4, AlertsOnlyKeeps
  <1>3. CASE Active = {} /\ SetStatus(a, "active")
    <2>1. alerts' = [alerts EXCEPT ![a].status = "active"]
      BY <1>3 DEF SetStatus
    <2>2. TypeOK'
      BY <1>1, <2>1, StatusSet DEF TypeOK, envVars, historyVars
    <2>3. \A b \in Ids : alerts'[b].notified = alerts[b].notified
      BY <2>1, StatusSet
    <2>4. ActiveUnique'
      BY <1>3, <2>1 DEF Active, ActiveUnique, TypeOK
    <2>5. \A f \in Engines, b \in Ids : /\ EvalAnnounces(f, b)' <=> EvalAnnounces(f, b)
                                        /\ AbsenceAnnounces(f, b)' <=> AbsenceAnnounces(f, b)
      BY <1>1 DEF EvalAnnounces, AbsenceAnnounces
    <2>6. NotifiedOnce' /\ AnnouncedLater' /\ OneAnnouncer'
      BY <2>3, <2>5 DEF NotifiedOnce, AnnouncedLater, OneAnnouncer
    <2> QED
      BY <2>2, <2>4, <2>6
  <1>4. CASE alerts' = [alerts EXCEPT ![a] = Unused]
    BY <1>1, <1>4, DeleteKeeps
  <1> QED
    BY <1>2, <1>3, <1>4 DEF Operate

LEMMA PruneKeeps ==
    ASSUME AlertInv, NEW a \in Ids, Prune(a)
    PROVE  AlertInv'
  BY DeleteKeeps DEF Prune

LEMMA EnvironmentKeeps ==
    ASSUME AlertInv, ChangeCondition \/ ChangeSuppression
    PROVE  AlertInv'
  <1> USE DEF AlertInv
  <1>1. cond' \in BOOLEAN /\ suppressed' \in BOOLEAN /\ autoResolve' \in BOOLEAN
    BY DEF ChangeCondition, ChangeSuppression, TypeOK
  <1>2. UNCHANGED <<row, alerts, eval, absence, historyVars, faults, crashes>>
    BY DEF ChangeCondition, ChangeSuppression
  <1>3. TypeOK'
    BY <1>1, <1>2 DEF TypeOK, historyVars
  <1>4. QuietEval
    BY <1>2 DEF QuietEval, EvalAnnounces
  <1>5. \A a \in Ids : alerts[a].notified <= alerts[a].notified
    BY DEF TypeOK, Alert
  <1> QED
    BY <1>2, <1>3, <1>4, <1>5, AlertsOnlyKeeps

LEMMA TickKeeps ==
    ASSUME AlertInv, Tick
    PROVE  AlertInv'
  <1> USE DEF AlertInv
  <1>1. row' \in Row /\ metAge' \in Ages /\ firedAge' \in Ages
    BY RowFacts, AgesFacts DEF Tick, TypeOK
  <1>2. \A e \in Engines : /\ eval[e] \in Evals
                           /\ eval'[e] = [eval[e] EXCEPT !.row = AgeRow(@)]
    BY DEF Tick, TypeOK, Evals
  <1>3. \A e \in Engines : /\ eval'[e] \in Evals /\ eval'[e].pc = eval[e].pc
                           /\ eval'[e].row.ActiveAlertID = eval[e].row.ActiveAlertID
    <2> TAKE e \in Engines
    <2>1. eval[e].row \in Row /\ eval'[e].row = AgeRow(eval[e].row)
      BY <1>2 DEF Evals
    <2>2. eval'[e].row \in Row /\ eval'[e].row.ActiveAlertID = eval[e].row.ActiveAlertID
      BY <2>1, RowFacts
    <2> QED
      BY <1>2, <2>1, <2>2 DEF Evals
  <1>4. eval' \in [Engines -> Evals]
    BY <1>3 DEF Tick
  <1>5. UNCHANGED <<unsaved, envVars, alerts, absence, faults, crashes>>
    BY DEF Tick
  <1>6. TypeOK'
    BY <1>1, <1>4, <1>5 DEF TypeOK, envVars, Evals
  <1>7. QuietEval
    BY <1>3 DEF QuietEval, EvalAnnounces
  <1>8. \A a \in Ids : alerts[a].notified <= alerts[a].notified
    BY DEF TypeOK, Alert
  <1> QED
    BY <1>5, <1>6, <1>7, <1>8, AlertsOnlyKeeps

LEMMA CrashKeeps ==
    ASSUME AlertInv, NEW e \in Engines, Crash(e)
    PROVE  AlertInv'
  <1> USE DEF AlertInv
  <1>1. eval' \in [Engines -> Evals] /\ QuietEval
    BY ResetEvalQuiet DEF Crash
  <1>2. absence' \in [Engines -> Checks] /\ QuietAbsence
    BY ResetCheckQuiet DEF Crash
  <1>3. crashes' \in 0..MaxCrashes
    BY AlertAssumption DEF Crash, TypeOK
  <1>4. UNCHANGED <<envVars, row, alerts, metAge, firedAge, faults>>
    BY DEF Crash
  <1>7. unsaved' \in BOOLEAN
    BY DEF Crash, TypeOK
  <1>5. TypeOK'
    BY <1>1, <1>2, <1>3, <1>4, <1>7 DEF TypeOK, envVars, Evals, Checks
  <1>6. \A a \in Ids : alerts[a].notified <= alerts[a].notified
    BY DEF TypeOK, Alert
  <1> QED
    BY <1>1, <1>2, <1>4, <1>5, <1>6, QuietStep

-----------------------------------------------------------------------------
\* Every initial state satisfies the invariant.
LEMMA InitKeeps == Init => AlertInv
  <1> SUFFICES ASSUME Init PROVE AlertInv
    OBVIOUS
  <1>1. TypeOK
    <2>1. autoResolve \in BOOLEAN /\ cond \in BOOLEAN /\ suppressed \in BOOLEAN
      BY AlertAssumption DEF Init
    <2>2. /\ row \in Row /\ alerts \in [Ids -> Alert]
          /\ metAge \in Ages /\ firedAge \in Ages /\ unsaved \in BOOLEAN
      BY AgesFacts, RowFacts DEF Init
    <2>3. eval \in [Engines -> Evals] /\ absence \in [Engines -> Checks]
      BY RowFacts DEF Init
    <2>4. faults \in 0..MaxFaults /\ crashes \in 0..MaxCrashes
      BY AlertAssumption DEF Init
    <2> QED
      BY <2>1, <2>2, <2>3, <2>4 DEF TypeOK, Evals, Checks
  <1>2. \A e \in Engines : eval[e].pc = "idle" /\ absence[e].pc = "idle"
    BY DEF Init, NoEval, NoCheck
  <1>3. \A a \in Ids : alerts[a].status = "none" /\ alerts[a].notified = 0
    BY DEF Init, Unused
  <1>4. ActiveUnique /\ NotifiedOnce /\ AnnouncedLater /\ OneAnnouncer
    BY <1>2, <1>3 DEF ActiveUnique, NotifiedOnce, AnnouncedLater, OneAnnouncer,
       EvalAnnounces, AbsenceAnnounces
  <1> QED
    BY <1>1, <1>4 DEF AlertInv

\* Every step of the engine, its operators and its environment keeps it.
LEMMA NextKeeps == AlertInv /\ [Next]_vars => AlertInv'
  <1> SUFFICES ASSUME AlertInv, [Next]_vars PROVE AlertInv'
    OBVIOUS
  <1>1. CASE UNCHANGED vars
    BY <1>1 DEF AlertInv, vars, envVars, historyVars, TypeOK, ActiveUnique, NotifiedOnce,
       AnnouncedLater, OneAnnouncer, EvalAnnounces, AbsenceAnnounces
  <1>2. ASSUME NEW e \in Engines, ProcessMetric(e) PROVE AlertInv'
    BY <1>2, EvaluateKeeps DEF ProcessMetric
  <1>3. ASSUME NEW e \in Engines, Step(e) PROVE AlertInv'
    BY <1>3, FindActiveKeeps, CreateAlertKeeps, RepointKeeps, NotifyKeeps,
       ResolveAlertKeeps, UpsertStateKeeps DEF Step
  <1>4. ASSUME NEW e \in Engines, AbsenceLoop(e) PROVE AlertInv'
    BY <1>4, CheckAbsenceKeeps, CreateAbsenceAlertKeeps, NotifyAbsenceKeeps DEF AbsenceLoop
  <1>5. ASSUME NEW e \in Engines, Crash(e) PROVE AlertInv'
    BY <1>5, CrashKeeps
  <1>6. ASSUME Environment PROVE AlertInv'
    BY <1>6, EnvironmentKeeps, TickKeeps, OperateKeeps, PruneKeeps DEF Environment
  <1> QED
    BY <1>1, <1>2, <1>3, <1>4, <1>5, <1>6 DEF Next

LEMMA UniqueIsOne == ActiveUnique => OneActiveAlert
  <1> SUFFICES ASSUME ActiveUnique PROVE Cardinality(Active) <= 1
    BY DEF OneActiveAlert
  <1>1. CASE Active = {}
    BY <1>1, FS_EmptySet
  <1>2. CASE Active # {}
    <2>1. PICK a \in Active : TRUE
      BY <1>2
    <2>2. Active = {a}
      BY <2>1 DEF Active, ActiveUnique
    <2> QED
      BY <2>2, FS_Singleton
  <1> QED
    BY <1>1, <1>2

\* For every set of instances and alert ids and every bound on failures: a
\* rule has at most one active alert on a device and no alert is announced
\* twice, whatever instances, absence loops, operators, retention and crashes
\* do (fireAlert, evaluateAbsence, the unique index of migration V44).
THEOREM AlertedOnceAlways == Spec => []AlertedOnce
  <1>1. AlertInv => AlertedOnce
    BY UniqueIsOne DEF AlertInv, AlertedOnce
  <1> QED
    BY <1>1, InitKeeps, NextKeeps, PTL DEF Spec
=============================================================================
