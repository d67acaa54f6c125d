----------------------------- MODULE MCCollect ------------------------------
(***************************************************************************)
(* What polls, stores and discovers, in one run for TLC: each              *)
(* behaviour moves one component and leaves the others in their initial    *)
(* state, and the properties of all of them are checked.                   *)
(***************************************************************************)
EXTENDS ResultPipeline, RedisState, FleetSync, Topology,
        Discovery, TLC

CONSTANT Components   \* the components this run moves
VARIABLE component    \* the one that moves in this behaviour

CONSTANTS p1, p2, d1

\* Two polls of one device.
OneDevice == [p \in {p1, p2} |-> d1]

allVars == <<component, vars, pollLockVars, metricBufferVars, fleetVars,
             topologyVars, discoveryVars>>

CollectInit ==
    /\ component \in Components
    /\ component # "ResultPipeline" => answers = {}
    /\ Init
    /\ PollLockInit
    /\ MetricBufferInit
    /\ FleetSyncInit
    /\ component # "Topology" =>
           parentOf = [n \in Nodes |-> NoNode] /\ nodeStatus = [n \in Nodes |-> "up"] /\ windows = << >>
    /\ TopologyInit
    /\ DiscoveryInit

Rest ==
    /\ UNCHANGED component
    /\ IF component = "ResultPipeline" THEN TRUE ELSE UNCHANGED vars
    /\ IF component = "PollLock" THEN TRUE ELSE UNCHANGED pollLockVars
    /\ IF component = "MetricBuffer" THEN TRUE ELSE UNCHANGED metricBufferVars
    /\ IF component = "FleetSync" THEN TRUE ELSE UNCHANGED fleetVars
    /\ IF component = "Topology" THEN TRUE ELSE UNCHANGED topologyVars
    /\ IF component = "Discovery" THEN TRUE ELSE UNCHANGED discoveryVars

CollectNext ==
    \/ component = "ResultPipeline" /\ Next /\ Rest
    \/ component = "PollLock" /\ PollLockNext /\ Rest
    \/ component = "MetricBuffer" /\ MetricBufferNext /\ Rest
    \/ component = "FleetSync" /\ FleetSyncNext /\ Rest
    \/ component = "Topology" /\ TopologyNext /\ Rest
    \/ component = "Discovery" /\ DiscoveryNext /\ Rest

\* The fairness of each component, for its own behaviours.
CollectFairness ==
    /\ WF_vars(component = "ResultPipeline" /\ Run) /\ SF_vars(component = "ResultPipeline" /\ Tick)
    /\ SF_vars(component = "ResultPipeline" /\ ContextDone)
    /\ WF_vars(component = "ResultPipeline" /\ (StopPipeline \/ StopFlush \/ StopReturns))
    /\ \A p \in Polls :
         /\ WF_vars(/\ component = "ResultPipeline"
                    /\ \/ SkipPoll(p) \/ FinishPoll(p)
                       \/ \E st \in {"up", "down", "none"} : CollectorReturns(p, st))
         /\ WF_vars(component = "ResultPipeline" /\ (Submit(p) \/ SubmitTimeout(p)))
    /\ WF_pollLockVars(component = "PollLock" /\ LockTick)
    /\ \A i \in Instances :
         /\ WF_pollLockVars(component = "PollLock" /\ Collected(i))
         /\ WF_pollLockVars(component = "PollLock" /\ Release(i))
    /\ WF_metricBufferVars(component = "MetricBuffer" /\ FlushStep)
    /\ WF_metricBufferVars(component = "MetricBuffer" /\ TickDrain)
    /\ WF_metricBufferVars(component = "MetricBuffer" /\ FinalDrain)
    /\ WF_metricBufferVars(component = "MetricBuffer" /\ BufferStopped)
    /\ WF_fleetVars(component = "FleetSync" /\ SyncLoop)
    /\ WF_fleetVars(component = "FleetSync" /\ CollectLoop)
    /\ WF_topologyVars(component = "Topology" /\ checkSuppressionForDevice)
    /\ \A j \in Jobs : WF_discoveryVars(component = "Discovery" /\ ScanStep(j))

CollectSpec == CollectInit /\ [][CollectNext]_allVars /\ CollectFairness
=============================================================================
