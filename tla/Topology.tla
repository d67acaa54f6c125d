------------------------------ MODULE Topology ------------------------------
(***************************************************************************)
(* Whether an alert is suppressed: engine/suppression.go over the device   *)
(* dependencies (campus/topology.go) and the maintenance windows           *)
(* (campus/maintenance.go).                                                *)
(*                                                                         *)
(* A device update writes parent_device_id without looking at the other    *)
(* devices, so the dependencies may form any graph, cycles included.  A    *)
(* check reads them one row at a time while they change, and goes on as if *)
(* nothing were there when a read fails.                                   *)
(***************************************************************************)
EXTENDS Integers, FiniteSets, Sequences

CONSTANTS
    Nodes,          \* devices
    NoNode,         \* parent_device_id is NULL
    Day,            \* units of time in a day
    MaxTopoChanges  \* bound: changes of a status or of a parent, and reads that fail

ASSUME TopologyAssumption == NoNode \notin Nodes /\ Day \in Nat \ {0, 1} /\ MaxTopoChanges \in Nat

VARIABLES
    parentOf,   \* devices.parent_device_id
    nodeStatus, \* devices.status
    windows,    \* enabled maintenance_windows, ordered by id
    clock,      \* the time, over two days
    check,      \* the suppression check under way
    topoChanges \* changes and failing reads (history)

topologyVars == <<parentOf, nodeStatus, windows, clock, check, topoChanges>>

Graph == INSTANCE Graphs

Clock == 0..(2 * Day - 1)

\* A window's scope reaches the devices in applies.  A recurring window lasts
\* from its start time of day for its length, between two dates.
Windows ==
    [applies : {{}, Nodes}, schedule : {"once"}, start : Clock, length : {Day},
     since : {0}, until : {2 * Day}, suppress : {TRUE}]
    \cup [applies : {Nodes}, schedule : {"recurring"}, start : 0..(Day - 1), length : 1..Day,
          since : {0, Day}, until : {Day, 2 * Day}, suppress : BOOLEAN]

\* disturbed: the topology changed during the check; failed: what could not be
\* read (both history).
NoCheck == [pc |-> "idle", dev |-> NoNode, at |-> NoNode, visited |-> {}, parent |-> NoNode,
            answer |-> "none", disturbed |-> FALSE, failed |-> {}]

TopologyTypeOK ==
    /\ parentOf \in [Nodes -> Nodes \cup {NoNode}] /\ nodeStatus \in [Nodes -> {"up", "down"}]
    /\ clock \in Clock /\ topoChanges \in 0..MaxTopoChanges
    /\ check.pc \in {"idle", "own", "parent", "window", "done"} /\ check.visited \subseteq Nodes
    /\ check.answer \in {"none", "parent_down", "maintenance_window", "fire"}
    /\ check.failed \subseteq {"devices", "windows"}

\* The topology or the windows are of interest, not both.
TopologyInit ==
    /\ \/ /\ parentOf \in [Nodes -> Nodes \cup {NoNode}] /\ nodeStatus \in [Nodes -> {"up", "down"}]
          /\ windows = <<>> /\ clock = 0
       \/ /\ parentOf = [n \in Nodes |-> NoNode] /\ nodeStatus = [n \in Nodes |-> "up"]
          /\ windows \in {<<w>> : w \in Windows} /\ clock \in Clock
    /\ check = NoCheck /\ topoChanges = 0

-----------------------------------------------------------------------------
\* The dependencies, with an edge from each parent to its child.
DependencyTree == [node |-> Nodes, edge |-> {<<parentOf[n], n>> : n \in {m \in Nodes : parentOf[m] # NoNode}}]

GetDeviceDependencies(n) ==
    [ancestors |-> Graph!Ancestors(DependencyTree, n), descendants |-> Graph!Descendants(DependencyTree, n)]

\* A down device whose parent is not down, with the devices below it.
GetRootCauseOutages ==
    {o \in [root : {n \in Nodes : nodeStatus[n] = "down"}, affected : SUBSET Nodes] :
        /\ parentOf[o.root] # NoNode => nodeStatus[parentOf[o.root]] # "down"
        /\ o.affected = GetDeviceDependencies(o.root).descendants
        /\ o.affected # {}}

Acyclic == \A n \in Nodes : n \notin GetDeviceDependencies(n).ancestors

-----------------------------------------------------------------------------
isActiveOnce(w, now) == w.start < now /\ now < w.start + w.length

\* The day's occurrence starts at the window's time of day, on the day of now.
isActiveRecurring(w, now) ==
    LET dailyStart == (now \div Day) * Day + w.start
    IN w.since <= now /\ now <= w.until /\ dailyStart < now /\ now < dailyStart + w.length

windowIsActive(w, now) == IF w.schedule = "once" THEN isActiveOnce(w, now) ELSE isActiveRecurring(w, now)

\* The first window that applies and is active decides.
IsUnderMaintenance(dev, now) ==
    LET active == {i \in DOMAIN windows : dev \in windows[i].applies /\ windowIsActive(windows[i], now)}
    IN active # {} /\ windows[CHOOSE i \in active : \A j \in active : i <= j].suppress

-----------------------------------------------------------------------------
StartCheck ==
    /\ check.pc = "idle"
    /\ \E n \in Nodes : check' = [NoCheck EXCEPT !.pc = "own", !.dev = n, !.at = n, !.visited = {n}]
    /\ UNCHANGED <<parentOf, nodeStatus, windows, clock, topoChanges>>

Disturbance == topoChanges < MaxTopoChanges /\ topoChanges' = topoChanges + 1

\* A query of the walk that fails ends it, as one that finds no device does.
WalkFails == Disturbance /\ check' = [check EXCEPT !.pc = "window", !.failed = @ \cup {"devices"}]

\* The walk's first query of a round; a device without a parent ends it.
ReadParent ==
    /\ check.pc = "own"
    /\ \/ /\ check' = IF parentOf[check.at] = NoNode THEN [check EXCEPT !.pc = "window"]
                      ELSE [check EXCEPT !.pc = "parent", !.parent = parentOf[check.at]]
          /\ UNCHANGED topoChanges
       \/ WalkFails
    /\ UNCHANGED <<parentOf, nodeStatus, windows, clock>>

\* Seeded fault: the walk does not stop at a device it has seen
ReadStatusNoVisited ==
    /\ check.pc = "parent"
    /\ check' = IF nodeStatus[check.parent] = "down" THEN [check EXCEPT !.pc = "done", !.answer = "parent_down"]
                ELSE [check EXCEPT !.pc = "own", !.at = check.parent, !.visited = @ \cup {check.parent}]
    /\ UNCHANGED <<parentOf, nodeStatus, windows, clock, topoChanges>>

\* The second: down suppresses, a device seen before ends the walk.
ReadStatus ==
    /\ check.pc = "parent"
    /\ \/ /\ check' = CASE nodeStatus[check.parent] = "down"
                               -> [check EXCEPT !.pc = "done", !.answer = "parent_down"]
                        [] nodeStatus[check.parent] # "down" /\ check.parent \in check.visited
                               -> [check EXCEPT !.pc = "window"]
                        [] OTHER -> [check EXCEPT !.pc = "own", !.at = check.parent,
                                                  !.visited = @ \cup {check.parent}]
          /\ UNCHANGED topoChanges
       \/ WalkFails
    /\ UNCHANGED <<parentOf, nodeStatus, windows, clock>>

CheckSuppression == ReadParent \/ ReadStatus

\* Windows that cannot be read suppress nothing.
CheckMaintenance ==
    /\ check.pc = "window"
    /\ \/ /\ check' = [check EXCEPT !.pc = "done",
                           !.answer = IF IsUnderMaintenance(check.dev, clock) THEN "maintenance_window" ELSE "fire"]
          /\ UNCHANGED topoChanges
       \/ Disturbance /\ check' = [check EXCEPT !.pc = "done", !.answer = "fire", !.failed = @ \cup {"windows"}]
    /\ UNCHANGED <<parentOf, nodeStatus, windows, clock>>

checkSuppressionForDevice == CheckSuppression \/ CheckMaintenance

\* UpdateDevice stores the parent it is given, and a poll the status it found.
SetParent ==
    /\ Disturbance
    /\ windows = <<>>
    /\ \E n \in Nodes, p \in Nodes \cup {NoNode} : parentOf' = [parentOf EXCEPT ![n] = p]
    /\ check' = [check EXCEPT !.disturbed = TRUE]
    /\ UNCHANGED <<nodeStatus, windows, clock>>

SetStatus ==
    /\ Disturbance
    /\ windows = <<>>
    /\ \E n \in Nodes, s \in {"up", "down"} : nodeStatus' = [nodeStatus EXCEPT ![n] = s]
    /\ check' = [check EXCEPT !.disturbed = TRUE]
    /\ UNCHANGED <<parentOf, windows, clock>>

TopologyNext == StartCheck \/ checkSuppressionForDevice \/ SetParent \/ SetStatus

\* The engine runs the check to its end.
TopologyFairness == WF_topologyVars(checkSuppressionForDevice)

TopologySpec == TopologyInit /\ [][TopologyNext]_topologyVars /\ TopologyFairness

-----------------------------------------------------------------------------
\* Settled: the check has its answer and nothing changed while it ran.
Settled == check.pc = "done" /\ ~check.disturbed

\* CheckSuppression ends on every topology, also one with a cycle or one that
\* changes under it ("Prevent infinite loops"): the engine is never stuck in it.
CheckEnds == check.pc # "idle" ~> check.pc = "done"

\* An alert suppressed by a device that is down is accounted for: some outage
\* GetRootCauseOutages lists has that device among the affected ones.  Failing
\* reads suppress nothing.
SuppressionExplained ==
    Settled /\ Acyclic /\ check.answer = "parent_down" => \E o \in GetRootCauseOutages : check.dev \in o.affected

\* An alert is let through only if no device above this one is down, at any
\* depth and with cycles among them, or a device on the way could not be read:
\* the check then takes the rest of the way for up ("DB errors mean device not
\* found", topology.go:207-208).
FiresOnlyWithoutDownAncestor ==
    Settled /\ check.answer = "fire" /\ "devices" \notin check.failed =>
        \A m \in GetDeviceDependencies(check.dev).ancestors : nodeStatus[m] = "up"

\* A recurring window that ends on the day it starts suppresses exactly in its
\* daily interval, on each day of its recurrence, whenever the windows can be
\* read.  A check that cannot read them fires (suppression.go:62-66).
RecursEachDay ==
    Settled /\ Len(windows) = 1 /\ windows[1].schedule = "recurring" /\ windows[1].start + windows[1].length <= Day =>
        LET w == windows[1]
            inside == \E d \in 0..1 : clock \in (d * Day + w.start + 1)..(d * Day + w.start + w.length - 1)
        IN (check.answer = "maintenance_window")
               <=> (/\ w.suppress /\ check.dev \in w.applies /\ clock \in w.since..w.until /\ inside
                    /\ "windows" \notin check.failed)

\* A suppression is explained by an outage or a window, an alert that fires has
\* nothing down above it that could be read, and the check always ends
\* (topology.go, maintenance.go, suppression.go).
TopologyCorrect ==
    /\ [](TopologyTypeOK /\ SuppressionExplained /\ FiresOnlyWithoutDownAncestor /\ RecursEachDay)
    /\ CheckEnds
=============================================================================
