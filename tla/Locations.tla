----------------------------- MODULE Locations ------------------------------
(***************************************************************************)
(* The location hierarchy: campus/location.go behind the handlers of       *)
(* handlers/campus.go.  A location is a row with a parent_id; Move walks   *)
(* from the new parent to a root, one query per row, before it writes, and *)
(* Delete is three statements.  No transaction spans them.                 *)
(***************************************************************************)
EXTENDS Integers, FiniteSets, FiniteSetsExt

CONSTANTS
    Locs,        \* locations that exist at some time
    NoLoc,       \* parent_id (or a device's location_id) is NULL
    LocRequests, \* requests that change the hierarchy
    Placed,      \* devices
    MaxLocWrites \* bound: requests served

ASSUME LocationsAssumption == NoLoc \notin Locs /\ MaxLocWrites \in Nat

VARIABLES
    live,       \* ids of the rows of locations
    used,       \* ids ever given (BIGSERIAL)
    parentLoc,  \* locations.parent_id
    placedAt,   \* devices.location_id
    request,    \* the requests under way
    locWrites,  \* requests started (bound)
    overlapped, \* a row was written while another request was under way (history)
    reparented, \* an update gave a location a parent (history)
    undone      \* ancestors the locations had when the last delete began (history)

locationVars == <<live, used, parentLoc, placedAt, request, locWrites, overlapped, reparented, undone>>

Graph == INSTANCE Graphs

NoRequest == [pc |-> "idle", loc |-> NoLoc, to |-> NoLoc, at |-> NoLoc]

LocationsTypeOK ==
    /\ live \subseteq used /\ used \subseteq Locs
    /\ parentLoc \in [Locs -> Locs \cup {NoLoc}] /\ placedAt \in [Placed -> Locs \cup {NoLoc}]
    /\ \A q \in LocRequests : /\ request[q].pc \in {"idle", "walk", "write", "adopt", "delete", "done"}
                              /\ {request[q].loc, request[q].to, request[q].at} \subseteq Locs \cup {NoLoc}
    /\ locWrites \in 0..MaxLocWrites /\ overlapped \in BOOLEAN /\ reparented \in BOOLEAN
    /\ undone \in [Locs -> SUBSET Locs]

Forest(parents, nodes) == [node |-> nodes, edge |-> {<<parents[l], l>> : l \in {m \in nodes : parents[m] # NoLoc}}]
Hierarchy == Forest(parentLoc, live)
AncestorsOf(l) == Graph!Ancestors(Hierarchy, l)
LocationsAcyclic == \A l \in live : l \notin AncestorsOf(l)

LocationsInit ==
    /\ live \in SUBSET Locs /\ used = live
    /\ parentLoc \in [Locs -> Locs \cup {NoLoc}]
    /\ \A l \in Locs : parentLoc[l] \in (IF l \in live THEN live \cup {NoLoc} ELSE {NoLoc})
    /\ LocationsAcyclic
    /\ placedAt \in [Placed -> live \cup {NoLoc}]
    /\ request = [q \in LocRequests |-> NoRequest]
    /\ locWrites = 0 /\ overlapped = FALSE /\ reparented = FALSE /\ undone = [l \in Locs |-> {}]

-----------------------------------------------------------------------------
Alone(q) == \A r \in LocRequests \ {q} : request[r].pc \in {"idle", "done"}
\* A handler parses the request and hands it to the service.
Start(q, next) ==
    /\ request[q].pc = "idle" /\ locWrites < MaxLocWrites /\ locWrites' = locWrites + 1
    /\ request' = [request EXCEPT ![q] = next]
Finish(q) == request' = [request EXCEPT ![q] = [NoRequest EXCEPT !.pc = "done"]]
Wrote(q) == overlapped' = (overlapped \/ ~Alone(q))

\* CreateLocation: one INSERT, whose foreign key needs the parent's row.
Create(q) ==
    /\ Start(q, [NoRequest EXCEPT !.pc = "done"]) /\ Wrote(q)
    /\ \E l \in Locs \ used, p \in live \cup {NoLoc} :
          /\ live' = live \cup {l} /\ used' = used \cup {l}
          /\ parentLoc' = [parentLoc EXCEPT ![l] = p]
    /\ UNCHANGED <<placedAt, reparented, undone>>

\* UpdateLocation: one UPDATE of every column, the parent included.
Update(q) ==
    /\ Start(q, [NoRequest EXCEPT !.pc = "done"]) /\ Wrote(q)
    /\ \E l \in live, p \in live \cup {NoLoc} :
          /\ parentLoc' = [parentLoc EXCEPT ![l] = p]
          /\ reparented' = (reparented \/ p # NoLoc)
    /\ UNCHANGED <<live, used, placedAt, undone>>

\* Move to the root is one UPDATE; otherwise the walk starts at the new
\* parent.  A location is refused as its own parent.
MoveToRoot(q) ==
    /\ Start(q, [NoRequest EXCEPT !.pc = "done"]) /\ Wrote(q)
    /\ \E l \in live : parentLoc' = [parentLoc EXCEPT ![l] = NoLoc]
    /\ UNCHANGED <<live, used, placedAt, reparented, undone>>

Move(q) ==
    /\ \E l, p \in live : l # p /\ Start(q, [pc |-> "walk", loc |-> l, to |-> p, at |-> p])
    /\ UNCHANGED <<live, used, parentLoc, placedAt, overlapped, reparented, undone>>

\* One round of the walk: a row that is gone and the location itself refuse
\* the move, a root admits it.
WalkUp(q) ==
    LET r == request[q]
    IN /\ r.pc = "walk"
       /\ CASE r.at \notin live \/ parentLoc[r.at] = r.loc -> Finish(q)
            [] r.at \in live /\ parentLoc[r.at] = NoLoc -> request' = [request EXCEPT ![q].pc = "write"]
            [] OTHER -> request' = [request EXCEPT ![q].at = parentLoc[r.at]]
       /\ UNCHANGED <<live, used, parentLoc, placedAt, locWrites, overlapped, reparented, undone>>

\* The UPDATE of Move: it fails if the new parent's row is gone, and changes
\* nothing if the location's is.
WriteMove(q) ==
    LET r == request[q]
    IN /\ r.pc = "write" /\ Finish(q)
       /\ IF {r.loc, r.to} \subseteq live
          THEN parentLoc' = [parentLoc EXCEPT ![r.loc] = r.to] /\ Wrote(q)
          ELSE UNCHANGED <<parentLoc, overlapped>>
       /\ UNCHANGED <<live, used, placedAt, locWrites, reparented, undone>>

\* Delete reads the row, gives its children its parent, and deletes it; the
\* foreign keys then put NULL where the row was still referred to.
Delete(q) ==
    /\ \E l \in live : Start(q, [pc |-> "adopt", loc |-> l, to |-> parentLoc[l], at |-> NoLoc])
    /\ undone' = [l \in Locs |-> IF l \in live THEN AncestorsOf(l) ELSE {}]
    /\ UNCHANGED <<live, used, parentLoc, placedAt, overlapped, reparented>>

\* Seeded fault: the children are left to the foreign key
AdoptNone(q) ==
    LET r == request[q]
    IN /\ r.pc = "adopt" /\ request' = [request EXCEPT ![q].pc = "delete"]
       /\ UNCHANGED <<live, used, parentLoc, placedAt, locWrites, overlapped, reparented, undone>>

Adopt(q) ==
    LET r == request[q]
    IN /\ r.pc = "adopt" /\ Wrote(q)
       /\ IF r.to = NoLoc \/ r.to \in live
          THEN /\ parentLoc' = [l \in Locs |-> IF l \in live /\ parentLoc[l] = r.loc THEN r.to ELSE parentLoc[l]]
               /\ request' = [request EXCEPT ![q].pc = "delete"]
          ELSE Finish(q) /\ UNCHANGED parentLoc
       /\ UNCHANGED <<live, used, placedAt, locWrites, reparented, undone>>

DeleteRow(q) ==
    LET r == request[q]
        unset(f) == [x \in DOMAIN f |-> IF f[x] = r.loc THEN NoLoc ELSE f[x]]
    IN /\ r.pc = "delete" /\ Finish(q) /\ Wrote(q)
       /\ live' = live \ {r.loc}
       /\ parentLoc' = [unset(parentLoc) EXCEPT ![r.loc] = NoLoc] /\ placedAt' = unset(placedAt)
       /\ UNCHANGED <<used, locWrites, reparented, undone>>

LocationsNext ==
    \E q \in LocRequests : \/ Create(q) \/ Update(q) \/ MoveToRoot(q) \/ Move(q) \/ WalkUp(q) \/ WriteMove(q)
                           \/ Delete(q) \/ Adopt(q) \/ DeleteRow(q)

LocationsSpec == LocationsInit /\ [][LocationsNext]_locationVars

-----------------------------------------------------------------------------
\* buildTree: each location under its parent; the rest are the roots.
Children(l) == {c \in live : parentLoc[c] = l}
Roots == {l \in live : parentLoc[l] \notin live}
GetTree == Roots \cup UNION {Graph!Descendants(Hierarchy, r) : r \in Roots}

\* The recursive query of GetLocationStatus, GetSubtree and
\* GetDevicesAtLocation(recursive).
GetDevicesAtLocation(l) == {d \in Placed : placedAt[d] \in {l} \cup Graph!Descendants(Hierarchy, l)}
GetLocationStatus(l) == Cardinality(GetDevicesAtLocation(l))

\* GetTreeWithStatus: a node's own devices and, after them, its children's.
\* The statuses are counted apart and alike, so one count stands for them.
Propagate[depth \in 0..Cardinality(Locs)] ==
    [l \in live |-> IF depth = 0 THEN 0
                    ELSE Cardinality({d \in Placed : placedAt[d] = l})
                             + MapThenSumSet(LAMBDA c : Propagate[depth - 1][c], Children(l))]

GetTreeWithStatus == Propagate[Cardinality(Locs)]

-----------------------------------------------------------------------------
\* As long as requests follow one another and no update sets a parent, moves,
\* creations and deletions keep the hierarchy a forest in which the tree view
\* shows every location.
OneAtATimeKeepsForest == ~overlapped /\ ~reparented => LocationsAcyclic /\ GetTree = live

\* The counts the tree view rolls up from the leaves are those the recursive
\* query returns for each location.
CountsAgree == LocationsAcyclic => \A l \in live : GetTreeWithStatus[l] = GetLocationStatus(l)

\* "Children of the deleted location are re-parented to its parent": a delete
\* that ran alone leaves every other location below the locations it was below.
DeleteKeepsAncestors ==
    [][\A q \in LocRequests : DeleteRow(q) /\ ~overlapped =>
           \A l \in live' : Graph!Ancestors(Forest(parentLoc', live'), l) = undone[l] \ {request[q].loc}]_locationVars

\* The hierarchy stays a forest, its two ways of counting agree, and a delete
\* leaves the rest of every path in place (location.go).
LocationsCorrect ==
    /\ [](LocationsTypeOK /\ OneAtATimeKeepsForest /\ CountsAgree)
    /\ DeleteKeepsAncestors
=============================================================================
