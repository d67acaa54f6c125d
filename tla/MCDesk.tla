------------------------------- MODULE MCDesk -------------------------------
(***************************************************************************)
(* What operators and the public see, in one run for TLC: each             *)
(* behaviour moves one component and leaves the others in their initial    *)
(* state, and the properties of all of them are checked.                   *)
(***************************************************************************)
EXTENDS AlertDesk, Incidents, Conditions, StatusPage, Locations, Contacts,
        HealthScore, TLC

CONSTANT Components   \* the components this run moves
VARIABLE component    \* the one that moves in this behaviour

CONSTANTS q1, q2

SLALimits == ("critical" :> 1) @@ ("low" :> 2)

\* How the two services of the status page are derived.
TwoServices == <<"majority", "any_down">>

Condition(type, op, value) == [type |-> type, op |-> op, value |-> value]

\* One rule for each way conditions combine: a threshold that does not parse,
\* an absence or port condition, none at all.
SampleRules ==
    {[logic |-> "all", conds |-> {Condition("anomaly", "gt", 1)}],
     [logic |-> "any", conds |-> {Condition("anomaly", "gt", Unparsed)}],
     [logic |-> "all", conds |-> {Condition("threshold", "gt", 1), Condition("status", "eq", 1)}],
     [logic |-> "any", conds |-> {Condition("threshold", "lte", 1),
                                  Condition("absence", "gt", Unparsed),
                                  Condition("ports", "gte", Unparsed)}],
     [logic |-> "all", conds |-> {}],
     [logic |-> "any", conds |-> {Condition("threshold", "gt", Unparsed),
                                  Condition("status", "neq", 0)}]}

\* The concurrent requests of every component are interchangeable.
Symmetric == Permutations({q1, q2})

allVars == <<component, deskVars, incidentVars, conditionVars,
             statusPageVars, locationVars, contactVars, healthVars>>

DeskInit ==
    /\ component \in Components
    /\ AlertDeskInit
    /\ IncidentsInit
    /\ component # "Incidents" => incident.severity = CHOOSE s \in Severities : TRUE
    /\ component # "Conditions" => rule = CHOOSE r \in AlertRules : TRUE
    /\ ConditionsInit
    /\ component # "StatusPage" => nextRow = 1
    /\ StatusPageInit
    /\ component # "Locations" => live = {}
    /\ LocationsInit
    /\ component # "Contacts" =>
           contact = (CHOOSE c \in Contact : TRUE) /\ query = [severity |-> "warning", minute |-> 0, bound |-> TRUE]
    /\ ContactsInit
    /\ component # "HealthScore" => polls = << >> /\ deviceStatus = "up"
    /\ HealthInit

Rest ==
    /\ UNCHANGED component
    /\ IF component = "AlertDesk" THEN TRUE ELSE UNCHANGED deskVars
    /\ IF component = "Incidents" THEN TRUE ELSE UNCHANGED incidentVars
    /\ IF component = "Conditions" THEN TRUE ELSE UNCHANGED conditionVars
    /\ IF component = "StatusPage" THEN TRUE ELSE UNCHANGED statusPageVars
    /\ IF component = "Locations" THEN TRUE ELSE UNCHANGED locationVars
    /\ IF component = "Contacts" THEN TRUE ELSE UNCHANGED contactVars
    /\ IF component = "HealthScore" THEN TRUE ELSE UNCHANGED healthVars

DeskNext ==
    \/ component = "AlertDesk" /\ AlertDeskNext /\ Rest
    \/ component = "Incidents" /\ IncidentsNext /\ Rest
    \/ component = "Conditions" /\ ConditionsNext /\ Rest
    \/ component = "StatusPage" /\ StatusPageNext /\ Rest
    \/ component = "Locations" /\ LocationsNext /\ Rest
    \/ component = "Contacts" /\ ContactsNext /\ Rest
    \/ component = "HealthScore" /\ HealthNext /\ Rest

DeskSpec == DeskInit /\ [][DeskNext]_allVars
=============================================================================
