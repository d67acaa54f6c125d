----------------------------- MODULE StatusPage -----------------------------
(***************************************************************************)
(* The public status page: the JSON of handlers/status_page.go, the HTML   *)
(* of handlers/resource_handler.go, and the generic resource store         *)
(* (database/resources.go) by which its rows are managed and paged         *)
(* through.  A page is put together from three queries.                    *)
(***************************************************************************)
EXTENDS Integers, FiniteSets, FiniteSetsExt, Sequences

CONSTANTS
    Hosts,        \* devices a service may depend on
    Services,     \* services, in display order: a sequence of aggregations
    MaxRow,       \* bound: ids of the rows of a paged resource
    PageLimit,    \* rows per page
    MaxPageWrites \* bound: changes of the tables

ASSUME StatusPageAssumption ==
    /\ Services \in Seq({"any_down", "all_down", "majority"}) /\ IsFiniteSet(Hosts)
    /\ {MaxRow, MaxPageWrites} \subseteq Nat /\ PageLimit \in Nat \ {0}

VARIABLES
    hostDown,    \* devices whose status is down or critical
    serves,      \* status_page_service_devices: devices of each service
    active,      \* a status page incident without resolved_at exists
    page,        \* the page being put together
    rows,        \* ids of the rows of a paged resource
    nextRow,     \* its BIGSERIAL
    walk,        \* a client that follows the cursor
    pageWrites   \* (bound)

statusPageVars == <<hostDown, serves, active, page, rows, nextRow, walk, pageWrites>>

\* The enabled services (getEnabledServices).
ServiceIds == DOMAIN Services
Levels == {"operational", "degraded_performance", "major_outage"}

\* disturbed: a table changed while the page was put together; failed: a query
\* of the page did, in whole or in part (history).
NoPage == [pc |-> "idle", status |-> [i \in ServiceIds |-> "operational"], overall |-> "operational",
           disturbed |-> FALSE, failed |-> FALSE]
\* stable: rows present since the walk began (history).
NoWalk == [pc |-> "idle", cursor |-> 0, seen |-> <<>>, stable |-> {}]

StatusPageTypeOK ==
    /\ hostDown \subseteq Hosts /\ serves \in [ServiceIds -> SUBSET Hosts] /\ active \in BOOLEAN
    /\ page.pc \in {"idle", "incidents", "done"} /\ page.overall \in Levels \cup {"degraded"}
    /\ page.status \in [ServiceIds -> Levels] /\ page.failed \in BOOLEAN
    /\ rows \subseteq 1..MaxRow
    /\ nextRow \in 1..(MaxRow + 1) /\ pageWrites \in 0..MaxPageWrites
    /\ walk.cursor \in 0..MaxRow /\ walk.stable \subseteq 1..MaxRow

\* The page or the paged rows are of interest, not both.
StatusPageInit ==
    /\ \/ hostDown \in SUBSET Hosts /\ serves \in [ServiceIds -> SUBSET Hosts] /\ active \in BOOLEAN /\ nextRow = MaxRow + 1
       \/ hostDown = {} /\ serves = [i \in ServiceIds |-> {}] /\ active = FALSE /\ nextRow = 1
    /\ page = NoPage /\ walk = NoWalk /\ rows = {} /\ pageWrites = 0

-----------------------------------------------------------------------------
\* Of each service, how many devices it has and how many of them are down, as far
\* as the query got: when it fails there are none, when it breaks off or a row
\* does not scan some are missing, and the page goes on all the same.
batchServiceDeviceStatuses(read) ==
    [i \in ServiceIds |-> [all |-> Cardinality(read[i]), down |-> Cardinality(read[i] \cap hostDown)]]

deriveServiceStatus(aggregation, devices) ==
    IF devices.down = 0 THEN "operational"
    ELSE IF \/ aggregation = "any_down"
            \/ devices.down = devices.all
            \/ aggregation = "majority" /\ devices.down > devices.all \div 2
         THEN "major_outage" ELSE "degraded_performance"

\* The incidents the query finds; its error is ignored.
getActiveIncidents == IF active THEN BOOLEAN ELSE {FALSE}

\* The first service that is not operational gives the overall status.
firstTrouble(status) ==
    LET trouble == {i \in ServiceIds : status[i] # "operational"}
    IN IF trouble = {} THEN "operational" ELSE status[Min(trouble)]

\* PublicStatusJSON: the services (without them there is no page) and the
\* statuses of their devices, then the incidents.
ReadServices ==
    /\ page.pc = "idle" /\ nextRow = MaxRow + 1
    /\ \E read \in [ServiceIds -> SUBSET Hosts] :
        /\ \A i \in ServiceIds : read[i] \subseteq serves[i]
        /\ LET devices == batchServiceDeviceStatuses(read)
               status == [i \in ServiceIds |-> deriveServiceStatus(Services[i], devices[i])]
           IN page' = [NoPage EXCEPT !.pc = "incidents", !.status = status, !.overall = firstTrouble(status),
                                     !.failed = (read # serves)]
    /\ UNCHANGED <<hostDown, serves, active, rows, nextRow, walk, pageWrites>>

ReadIncidents ==
    /\ page.pc = "incidents"
    /\ \E found \in getActiveIncidents :
        page' = [page EXCEPT !.pc = "done", !.failed = @ \/ found # active,
                             !.overall = IF found /\ @ = "operational" THEN "degraded" ELSE @]
    /\ UNCHANGED <<hostDown, serves, active, rows, nextRow, walk, pageWrites>>

\* PublicStatusHTML gives every enabled service the status operational.
PublicStatusHTML == [status |-> [i \in ServiceIds |-> "operational"],
                     overall |-> IF active THEN "degraded" ELSE "operational"]

Change ==
    /\ pageWrites < MaxPageWrites /\ pageWrites' = pageWrites + 1
    /\ page' = [page EXCEPT !.disturbed = TRUE] /\ nextRow = MaxRow + 1
    /\ UNCHANGED <<rows, nextRow, walk>>

AddServiceDevice(i, d) == Change /\ serves' = [serves EXCEPT ![i] = @ \cup {d}] /\ UNCHANGED <<hostDown, active>>
RemoveServiceDevice(i, d) == Change /\ serves' = [serves EXCEPT ![i] = @ \ {d}] /\ UNCHANGED <<hostDown, active>>
PollDevice(d) == Change /\ hostDown' \in {hostDown \cup {d}, hostDown \ {d}} /\ UNCHANGED <<serves, active>>
UpdateIncident == Change /\ active' = ~active /\ UNCHANGED <<hostDown, serves>>

-----------------------------------------------------------------------------
RowsChange == UNCHANGED <<hostDown, serves, active, page>>

\* CreateResource takes the next id; DeleteResource may take any row away.
CreateResource ==
    /\ nextRow <= MaxRow /\ nextRow' = nextRow + 1 /\ rows' = rows \cup {nextRow}
    /\ RowsChange /\ UNCHANGED <<walk, pageWrites>>

DeleteResource(id) ==
    /\ pageWrites < MaxPageWrites /\ pageWrites' = pageWrites + 1
    /\ rows' = rows \ {id} /\ walk' = [walk EXCEPT !.stable = @ \ {id}]
    /\ RowsChange /\ UNCHANGED nextRow

StartWalk ==
    /\ walk.pc = "idle" /\ rows # {} /\ walk' = [NoWalk EXCEPT !.pc = "page", !.stable = rows]
    /\ RowsChange /\ UNCHANGED <<rows, nextRow, pageWrites>>

\* The ids after the cursor in order, at most limit of them.
Firsts(limit, after) ==
    LET later == {i \in rows : i > after}
    IN {i \in later : Cardinality({j \in later : j < i}) < limit}

\* Seeded fault: the cursor is taken from the row that only tells there are more
CursorPastPage ==
    /\ walk.pc = "page"
    /\ LET fetched == Firsts(PageLimit + 1, walk.cursor)
           shown == Firsts(PageLimit, walk.cursor)
           more == fetched # shown
       IN walk' = [walk EXCEPT !.seen = Append(@, shown), !.pc = IF more THEN "page" ELSE "done",
                               !.cursor = IF more THEN Max(fetched) ELSE @]
    /\ RowsChange /\ UNCHANGED <<rows, nextRow, pageWrites>>

\* ListResourcesCursor asks for one row more than the page holds; the last row
\* it shows is the next cursor.
ListResourcesCursor ==
    /\ walk.pc = "page"
    /\ LET fetched == Firsts(PageLimit + 1, walk.cursor)
           shown == Firsts(PageLimit, walk.cursor)
           more == fetched # shown
       IN walk' = [walk EXCEPT !.seen = Append(@, shown), !.pc = IF more THEN "page" ELSE "done",
                               !.cursor = IF more THEN Max(shown) ELSE @]
    /\ RowsChange /\ UNCHANGED <<rows, nextRow, pageWrites>>

StatusPageNext ==
    \/ ReadServices \/ ReadIncidents \/ UpdateIncident
    \/ \E i \in ServiceIds, d \in Hosts : AddServiceDevice(i, d) \/ RemoveServiceDevice(i, d)
    \/ \E d \in Hosts : PollDevice(d)
    \/ StartWalk \/ ListResourcesCursor
    \/ CreateResource \/ \E id \in rows : DeleteResource(id)

StatusPageSpec == StatusPageInit /\ [][StatusPageNext]_statusPageVars

-----------------------------------------------------------------------------
\* If nothing changed while the page was put together, trouble it shows is there:
\* a device of a service is down or an incident is active.  And if no query of it
\* failed, it says that all is well only when it is, and calls a service with a
\* majority rule out exactly when most of its devices are down.  A page with a
\* failed query may call all well whatever is down: the handler goes on with
\* what it has (batchServiceDeviceStatuses, getActiveIncidents).
PageTruthful ==
    page.pc = "done" /\ ~page.disturbed =>
        /\ page.overall # "operational" => active \/ \E i \in ServiceIds : serves[i] \cap hostDown # {}
        /\ ~page.failed =>
            /\ page.overall = "operational" => ~active /\ \A i \in ServiceIds : serves[i] \cap hostDown = {}
            /\ \A i \in ServiceIds : Services[i] = "majority" =>
                   ((page.status[i] = "major_outage")
                        <=> (Cardinality(serves[i] \cap hostDown) > Cardinality(serves[i] \ hostDown)))

\* Following the cursor shows every row that was there all the time exactly
\* once, while other rows come and go between the pages.
PagesCoverStableRows ==
    walk.pc = "done" =>
        \A id \in walk.stable : Cardinality({k \in DOMAIN walk.seen : id \in walk.seen[k]}) = 1

\* The HTML page, which looks at no device, and the JSON page show the same
\* services as long as no device of a service is down (PublicStatusHTML).
PagesAgreeWhenWell ==
    (page.pc = "done" /\ ~page.disturbed /\ \A i \in ServiceIds : serves[i] \cap hostDown = {})
        => page.status = PublicStatusHTML.status

\* The public page invents no trouble, and of an undisturbed moment it hides none
\* unless a query failed; a walk through the pages of a list misses and repeats
\* nothing that stays (status_page.go).
StatusPageSafe ==
    /\ StatusPageTypeOK
    /\ PageTruthful
    /\ PagesAgreeWhenWell
    /\ PagesCoverStableRows
=============================================================================
