----------------------------- MODULE Incidents ------------------------------
(***************************************************************************)
(* The life of an incident: handlers/incident.go, and the generic update   *)
(* PUT /api/v1/incidents/{id} of handlers/resource_handler.go.  A handler  *)
(* reads the status, decides, writes the row and appends to the timeline,  *)
(* each in a statement of its own; the append's error is ignored.          *)
(***************************************************************************)
EXTENDS Integers, Sequences, SequencesExt

CONSTANTS
    Operators,        \* requests about the incident
    Assignees,        \* users an incident may be assigned to
    Severities,       \* severities an SLA is defined for
    SLALimit,         \* resolution time of each, in units of time
    MaxIncidentTime,  \* bound: the clock
    MaxAppendErrors   \* bound: timeline inserts that fail

ASSUME IncidentsAssumption ==
    /\ SLALimit \in [Severities -> Nat] /\ MaxIncidentTime \in Nat /\ MaxAppendErrors \in Nat
    /\ Assignees \cap {"open", "acknowledged", "resolved", "closed"} = {}

VARIABLES
    incident,     \* the row of incidents
    timeline,     \* its status_change and assignment entries, by created_at;
                  \* claimed: added by AddTimelineEntry
    handler,      \* the requests under way
    now,          \* time since the incident started
    appendErrors, \* timeline inserts that failed
    edited,       \* the generic update changed the row (history)
    interleaved   \* the row was written while another handler was under way (history)

incidentVars == <<incident, timeline, handler, now, appendErrors, edited, interleaved>>

Statuses == {"open", "acknowledged", "resolved", "closed"}

\* The column a value belongs to, and with it the type of a timeline entry.
Column(v) == IF v \in Statuses THEN "status" ELSE "assigned"
Values == Statuses \cup Assignees \cup {"unassigned"}

Entry(old, new, claimed) == [column |-> Column(new), old |-> old, new |-> new, claimed |-> claimed]
NoHandler == [pc |-> "idle", to |-> "open", read |-> "open", breached |-> FALSE]

IncidentsTypeOK ==
    /\ incident.status \in Statuses /\ incident.severity \in Severities
    /\ incident.assigned \in Assignees \cup {"unassigned"}
    /\ {incident.resolvedAt, incident.breached} \subseteq BOOLEAN
    /\ incident.duration \in 0..MaxIncidentTime
    /\ timeline \in Seq([column : {"status", "assigned"}, old : Values \cup {"none"}, new : Values, claimed : BOOLEAN])
    /\ handler \in [Operators -> [pc : {"idle", "read", "write", "append", "done"}, to : Values, read : Values,
                                  breached : BOOLEAN]]
    /\ now \in 0..MaxIncidentTime /\ appendErrors \in 0..MaxAppendErrors
    /\ {edited, interleaved} \subseteq BOOLEAN

\* CreateIncident inserts the row, its devices and the first entry in one
\* transaction.
CreateIncident ==
    /\ \E s \in Severities :
          incident = [status |-> "open", assigned |-> "unassigned", severity |-> s,
                      resolvedAt |-> FALSE, duration |-> 0, breached |-> FALSE]
    /\ timeline = <<Entry("none", "open", FALSE)>>

IncidentsInit ==
    /\ CreateIncident
    /\ handler = [o \in Operators |-> NoHandler]
    /\ now = 0 /\ appendErrors = 0 /\ edited = FALSE /\ interleaved = FALSE

-----------------------------------------------------------------------------
\* Seeded fault: a closed incident is not looked for before it is closed
AdmitAnyStatus(to, status) == TRUE

\* The status a handler admits, by the status it sets.
Admits(to, status) ==
    CASE to = "acknowledged" -> status = "open"
      [] to = "resolved" -> status \notin {"resolved", "closed"}
      [] to = "closed" -> status = "resolved"
      [] to \in Assignees -> TRUE

Serve(o, to) ==
    /\ handler[o].pc = "idle" /\ handler' = [handler EXCEPT ![o].pc = "read", ![o].to = to]
    /\ UNCHANGED <<incident, timeline, now, appendErrors, edited, interleaved>>

AcknowledgeIncident(o) == Serve(o, "acknowledged")
ResolveIncident(o) == Serve(o, "resolved")
CloseIncident(o) == Serve(o, "closed")
AssignIncident(o, user) == Serve(o, user)

\* The SLA is looked up by what ResolveIncident passes as the severity: the
\* status it has read.
checkSLABreach(severity, duration) == severity \in Severities /\ duration > SLALimit[severity]

ReadIncident(o) ==
    LET h == handler[o]
    IN /\ h.pc = "read"
       /\ handler' = [handler EXCEPT ![o] =
              IF Admits(h.to, incident.status)
              THEN [h EXCEPT !.pc = "write", !.read = incident[Column(h.to)],
                             !.breached = h.to = "resolved" /\ checkSLABreach(incident.status, now)]
              ELSE [NoHandler EXCEPT !.pc = "done"]]
       /\ UNCHANGED <<incident, timeline, now, appendErrors, edited, interleaved>>

WriteIncident(o) ==
    LET h == handler[o]
    IN /\ h.pc = "write" /\ handler' = [handler EXCEPT ![o].pc = "append"]
       /\ incident' = IF h.to = "resolved"
                      THEN [incident EXCEPT !.status = h.to, !.resolvedAt = TRUE, !.duration = now, !.breached = h.breached]
                      ELSE [incident EXCEPT ![Column(h.to)] = h.to]
       /\ interleaved' = (interleaved \/ \E p \in Operators \ {o} : handler[p].pc \notin {"idle", "done"})
       /\ UNCHANGED <<timeline, now, appendErrors, edited>>

AppendTimeline(o) ==
    /\ handler[o].pc = "append" /\ handler' = [handler EXCEPT ![o] = [NoHandler EXCEPT !.pc = "done"]]
    /\ \/ timeline' = Append(timeline, Entry(handler[o].read, handler[o].to, FALSE)) /\ UNCHANGED appendErrors
       \/ appendErrors < MaxAppendErrors /\ appendErrors' = appendErrors + 1 /\ UNCHANGED timeline
    /\ UNCHANGED <<incident, now, edited, interleaved>>

\* AddTimelineEntry stores what the client says: a note, or an entry of any type
\* with any values, which nothing reads: one stands for all.
AddTimelineEntry(o) ==
    /\ handler[o].pc = "idle" /\ handler' = [handler EXCEPT ![o].pc = "done"]
    /\ \/ UNCHANGED timeline
       \/ timeline' = Append(timeline, Entry("none", "open", TRUE))
    /\ UNCHANGED <<incident, now, appendErrors, edited, interleaved>>

\* PUT /incidents/{id} writes any column of the registry, the status, the assignee and
\* the time of the resolution included.
EditIncident(o) ==
    /\ handler[o].pc = "idle" /\ handler' = [handler EXCEPT ![o].pc = "done"]
    /\ \/ \E v \in Values : incident' = [incident EXCEPT ![Column(v)] = v]
       \/ incident' = [incident EXCEPT !.resolvedAt = FALSE]
    /\ edited' = (edited \/ incident' # incident)
    /\ UNCHANGED <<timeline, now, appendErrors, interleaved>>

IncidentTime ==
    /\ now < MaxIncidentTime /\ now' = now + 1
    /\ \A o \in Operators : handler[o].pc \in {"idle", "done"}
    /\ UNCHANGED <<incident, timeline, handler, appendErrors, edited, interleaved>>

IncidentsNext ==
    \/ \E o \in Operators : \/ AcknowledgeIncident(o) \/ ResolveIncident(o) \/ CloseIncident(o)
                            \/ \E user \in Assignees : AssignIncident(o, user)
                            \/ ReadIncident(o) \/ WriteIncident(o) \/ AppendTimeline(o)
                            \/ AddTimelineEntry(o) \/ EditIncident(o)
    \/ IncidentTime

IncidentsSpec == IncidentsInit /\ [][IncidentsNext]_incidentVars

-----------------------------------------------------------------------------
\* However the handlers interleave, an incident that is closed carries the time
\* and the duration of its resolution, on which the MTTR and SLA reports rest.
ClosedWasResolved == ~edited /\ incident.status = "closed" => incident.resolvedAt

\* The entries of the handlers about a column, and the newest of them.
Told(column) == {i \in DOMAIN timeline : timeline[i].column = column /\ ~timeline[i].claimed}
NewestTold(column) == {i \in Told(column) : \A k \in Told(column) : k <= i}

\* Each entry of the handlers about a column starts where the one before ended.
Chained(column) ==
    \A i, j \in Told(column) :
        (i < j /\ \A k \in Told(column) : k <= i \/ j <= k) => timeline[j].old = timeline[i].new

\* Handlers that follow one another leave a timeline that tells the status and
\* the assignee: each entry of theirs starts where the one before ended and the
\* last is the row's, whatever clients add in between (AddTimelineEntry).
TimelineTellsStatus ==
    ~edited /\ ~interleaved /\ appendErrors = 0 /\ (\A o \in Operators : handler[o].pc # "append") =>
        \A column \in {"status", "assigned"} :
            Chained(column) /\ \A i \in NewestTold(column) : timeline[i].new = incident[column]

\* Whatever operators race for, a closed incident was resolved, and the timeline
\* of requests that did not overlap tells the status (incident.go).
IncidentsSafe ==
    /\ IncidentsTypeOK
    /\ ClosedWasResolved
    /\ TimelineTellsStatus
=============================================================================
