---------------------------- MODULE MCStartStop -----------------------------
(***************************************************************************)
(* What starts, drains and stops, in one run for TLC: each                 *)
(* behaviour moves one component and leaves the others in their initial    *)
(* state, and the properties of all of them are checked.                   *)
(***************************************************************************)
EXTENDS FlowIngest, Delivery, Server, TLC

CONSTANT Components   \* the components this run moves
VARIABLE component    \* the one that moves in this behaviour

CONSTANTS s1, s2

TwoChannels == <<"c1", "c2">>

\* The two channels, or the second one alone.
EnabledChannels == {{"c1", "c2"}, {"c2"}}

\* Two servers configured with different retentions.
DaysOfServers == (s1 :> 1) @@ (s2 :> 3)

allVars == <<component, flowVars, deliveryVars, startupVars, lifecycleVars>>

StartStopInit ==
    /\ component \in Components
    /\ FlowIngestInit
    /\ enabled \in (IF component = "Delivery" THEN EnabledChannels ELSE {{}})
    /\ DeliveryInit
    /\ StartupInit
    /\ component # "Lifecycle" => withCache = TRUE
    /\ LifecycleInit

Rest ==
    /\ UNCHANGED component
    /\ IF component = "FlowIngest" THEN TRUE ELSE UNCHANGED flowVars
    /\ IF component = "Delivery" THEN TRUE ELSE UNCHANGED deliveryVars
    /\ IF component = "Startup" THEN TRUE ELSE UNCHANGED startupVars
    /\ IF component = "Lifecycle" THEN TRUE ELSE UNCHANGED lifecycleVars

StartStopNext ==
    \/ component = "FlowIngest" /\ FlowIngestNext /\ Rest
    \/ component = "Delivery" /\ DeliveryNext /\ Rest
    \/ component = "Startup" /\ StartupNext /\ Rest
    \/ component = "Lifecycle" /\ LifecycleNext /\ Rest

\* The fairness of each component, for its own behaviours.
StartStopFairness ==
    /\ \A r \in Readers : WF_flowVars(component = "FlowIngest" /\ (Enqueue(r) \/ ReaderEnds(r)))
    /\ WF_flowVars(component = "FlowIngest" /\ WriterLoop)
    /\ WF_flowVars(component = "FlowIngest" /\ ShutdownLoop)
    /\ \A w \in NotifWorkers : WF_deliveryVars(component = "Delivery" /\ NotifWorker(w))
    /\ \A s \in Servers :
         /\ WF_startupVars(component = "Startup" /\ StartupStep(s))
         /\ SF_startupVars(component = "Startup" /\ LockMigrations(s))
    /\ WF_lifecycleVars(component = "Lifecycle" /\ GoesOn)

StartStopSpec == StartStopInit /\ [][StartStopNext]_allVars /\ StartStopFairness
=============================================================================
