--------------------------------- MODULE AlertDesk ---------------------------------
(***************************************************************************)
(* The alerts workbench: bulk acknowledge and resolve with a note          *)
(* (internal/handlers/operator.go), the single-alert actions               *)
(* (internal/handlers/alerts.go), and the alert:updated events they        *)
(* publish.  Each statement of a handler is a step, so handlers interleave *)
(* between the check of an alert's status and the write, and between the   *)
(* re-read of an alert and its publication.                                *)
(***************************************************************************)
EXTENDS Naturals, Sequences, SequencesExt

CONSTANTS DeskAlerts,     \* the alerts of the run
          OutOfScope,     \* those outside the scopes of bulk callers
          Desks,          \* the operators' requests
          MaxIds,         \* bound: ids in one bulk request (500)
          MaxDeskActions, \* bound: requests started
          MaxDeskErrors   \* bound: statements that fail

ASSUME DeskAssumption == OutOfScope \subseteq DeskAlerts /\ MaxIds \in Nat \ {0}

VARIABLES alertRow,    \* alert -> status, or "deleted"
          notes,       \* notes stored: <<desk, alert>>
          screen,      \* alert -> the status last published
          desk,        \* the request of each desk
          reopened,    \* alert -> how a resolved alert came back (history)
          crossed,     \* alerts the screens may show wrongly (history)
          deskActions, deskErrors

deskVars == <<alertRow, notes, screen, desk, reopened, crossed, deskActions, deskErrors>>

AlertStatuses == {"active", "acknowledged", "resolved"}
Targets  == {"acknowledged", "resolved"}
AtDesk(kind) == [at |-> "idle", kind |-> kind, target |-> "resolved", ids |-> << >>,
                 asked |-> {}, got |-> "active", updated |-> {}, skipped |-> {}]
Idle == AtDesk("bulk")

Cur(q) == Head(desk[q].ids)

AlertDeskTypeOK ==
    /\ alertRow \in [DeskAlerts -> AlertStatuses \cup {"deleted"}]
    /\ notes \in SUBSET (Desks \X DeskAlerts)
    /\ screen \in [DeskAlerts -> AlertStatuses]
    /\ \A q \in Desks : /\ desk[q].at \in {"idle", "look", "write", "note", "reread",
                                          "publish", "answered", "failed"}
                        /\ desk[q].kind \in {"bulk", "single"}
                        /\ desk[q].target \in Targets
                        /\ desk[q].got \in AlertStatuses \cup {"deleted"}
                        /\ desk[q].updated \cup desk[q].skipped \subseteq DeskAlerts
    /\ reopened \in SUBSET {"single", "stale", "seen"}
    /\ crossed \in SUBSET DeskAlerts

AlertDeskInit ==
    /\ alertRow = [a \in DeskAlerts |-> "active"]
    /\ notes = {} /\ screen = alertRow
    /\ desk = [q \in Desks |-> Idle]
    /\ reopened = {} /\ crossed = {} /\ deskActions = 0 /\ deskErrors = 0

IdLists == UNION {[1 .. n -> DeskAlerts] : n \in 1 .. MaxIds}

-----------------------------------------------------------------------------
(* Requests. *)

BeginBulk(q, ids, target) ==
    /\ desk[q].at = "idle" /\ deskActions < MaxDeskActions
    /\ deskActions' = deskActions + 1
    /\ desk' = [desk EXCEPT ![q] = [AtDesk("bulk") EXCEPT
                    !.at = "look", !.target = target, !.ids = ids, !.asked = ToSet(ids)]]
    /\ UNCHANGED <<alertRow, notes, screen, reopened, crossed, deskErrors>>

\* Acknowledge and Resolve write without a look.
BeginSingle(q, a, target) ==
    /\ desk[q].at = "idle" /\ deskActions < MaxDeskActions
    /\ deskActions' = deskActions + 1
    /\ desk' = [desk EXCEPT ![q] = [AtDesk("single") EXCEPT
                    !.at = "write", !.target = target, !.ids = <<a>>, !.asked = {a}]]
    /\ UNCHANGED <<alertRow, notes, screen, reopened, crossed, deskErrors>>

\* SetAssignee: the status stays, and an alert that is there is read again and
\* published as it is; the assignee is not told apart.
SetAssignee(q, a) ==
    /\ desk[q].at = "idle" /\ deskActions < MaxDeskActions
    /\ deskActions' = deskActions + 1
    /\ desk' = [desk EXCEPT ![q] = [AtDesk("single") EXCEPT
                    !.at = IF alertRow[a] = "deleted" THEN "answered" ELSE "reread", !.ids = <<a>>, !.asked = {a}]]
    /\ UNCHANGED <<alertRow, notes, screen, reopened, crossed, deskErrors>>

\* AddNote: one insert, refused by the foreign key when the alert is gone.
AddNote(q, a) ==
    /\ desk[q].at = "idle" /\ deskActions < MaxDeskActions
    /\ deskActions' = deskActions + 1
    /\ notes' = IF alertRow[a] = "deleted" THEN notes ELSE notes \cup {<<q, a>>}
    /\ desk' = [desk EXCEPT ![q] = [AtDesk("single") EXCEPT
                    !.at = IF alertRow[a] = "deleted" THEN "failed" ELSE "answered", !.asked = {a}]]
    /\ UNCHANGED <<alertRow, screen, reopened, crossed, deskErrors>>

\* The next id, or the answer.
Advance(r) == [r EXCEPT !.ids = Tail(@),
                        !.at  = IF Len(r.ids) = 1 THEN "answered" ELSE "look"]

\* not_found: a missing alert, or one outside the caller's scopes.
\* invalid_state: resolved, or already what is asked for.
Skips(r, a, got) == got = "deleted" \/ a \in OutOfScope \/ got \in {"resolved", r.target}

\* An id that was seen before in the list is passed over.
Repeats(r, a) == a \in r.updated \cup r.skipped

\* GetAlert and the checks of Bulk.
Look(q) ==
    LET r == desk[q]  a == Cur(q)  got == alertRow[a] IN
    /\ r.at = "look"
    /\ desk' = [desk EXCEPT ![q] =
                  IF Repeats(r, a) THEN Advance(r)
                  ELSE IF Skips(r, a, got)
                    THEN Advance([r EXCEPT !.skipped = @ \cup {a}])
                    ELSE [r EXCEPT !.at = "write", !.got = got]]
    /\ UNCHANGED <<alertRow, notes, screen, reopened, crossed, deskActions, deskErrors>>

DeskError == deskErrors < MaxDeskErrors /\ deskErrors' = deskErrors + 1

\* GetAlert (or the GetDevice of a scoped caller) fails: the id is answered
\* not_found like one that is missing, and the request goes on.
LookFails(q) ==
    LET r == desk[q]  a == Cur(q) IN
    /\ r.at = "look" /\ ~ Repeats(r, a) /\ DeskError
    /\ desk' = [desk EXCEPT ![q] = Advance([r EXCEPT !.skipped = @ \cup {a}])]
    /\ UNCHANGED <<alertRow, notes, screen, reopened, crossed, deskActions>>

\* UpdateAlertStatus: an unconditional UPDATE; no row is no error.
WriteStatus(q) ==
    LET r == desk[q]  a == Cur(q) IN
    /\ r.at = "write"
    /\ alertRow' = [alertRow EXCEPT ![a] = IF @ = "deleted" THEN @ ELSE r.target]
    /\ reopened' = IF alertRow[a] = "resolved" /\ r.target = "acknowledged"
                     THEN reopened \cup {IF r.kind = "single" THEN "single"
                                         ELSE IF r.got = "resolved" THEN "seen" ELSE "stale"}
                     ELSE reopened
    \* a request that has re-read the alert and not yet published it will publish
    \* what it read
    /\ crossed' = crossed \cup {b \in {a} : \E o \in Desks \ {q} :
                                  desk[o].at = "publish" /\ Cur(o) = b}
    /\ desk' = [desk EXCEPT ![q].at = IF r.kind = "bulk" THEN "note" ELSE "reread"]
    /\ UNCHANGED <<notes, screen, deskActions, deskErrors>>

\* insertNote, refused by the foreign key when the alert was deleted.
InsertNote(q) ==
    LET r == desk[q]  a == Cur(q) IN
    /\ r.at = "note"
    /\ IF alertRow[a] = "deleted"
         THEN /\ desk' = [desk EXCEPT ![q].at = "failed"]
              /\ UNCHANGED notes
         ELSE /\ desk' = [desk EXCEPT ![q].at = "reread", ![q].updated = @ \cup {a}]
              /\ notes' = notes \cup {<<q, a>>}
    /\ UNCHANGED <<alertRow, screen, reopened, crossed, deskActions, deskErrors>>

PublishOld(q) ==
    LET r == desk[q]  a == Cur(q) IN
    /\ r.at = "reread"
    /\ desk' = [desk EXCEPT ![q] = [r EXCEPT !.at = "publish"]]
    /\ UNCHANGED <<alertRow, notes, screen, reopened, crossed, deskActions, deskErrors>>

\* broadcastAlert and publishUpdated read the alert again; a missing one is not
\* published.
Reread(q) ==
    LET r == desk[q]  a == Cur(q) IN
    /\ r.at = "reread"
    /\ desk' = [desk EXCEPT ![q] = IF alertRow[a] = "deleted" THEN Advance(r)
                                   ELSE [r EXCEPT !.at = "publish", !.got = alertRow[a]]]
    /\ UNCHANGED <<alertRow, notes, screen, reopened, crossed, deskActions, deskErrors>>

\* The re-read fails: nothing is published, nothing is reported, and the screens
\* keep what they showed before the write.
RereadFails(q) ==
    /\ desk[q].at = "reread" /\ DeskError
    /\ crossed' = crossed \cup {Cur(q)}
    /\ desk' = [desk EXCEPT ![q] = Advance(@)]
    /\ UNCHANGED <<alertRow, notes, screen, reopened, deskActions>>

Publish(q) ==
    LET r == desk[q] IN
    /\ r.at = "publish"
    /\ screen' = [screen EXCEPT ![Cur(q)] = r.got]
    /\ desk' = [desk EXCEPT ![q] = Advance(r)]
    /\ UNCHANGED <<alertRow, notes, reopened, crossed, deskActions, deskErrors>>

\* A failed statement ends the request with 500; what was written stays.
FailStatement(q) ==
    /\ desk[q].at \in {"write", "note"} /\ DeskError
    /\ crossed' = IF desk[q].at = "note" THEN crossed \cup {Cur(q)} ELSE crossed
    /\ desk' = [desk EXCEPT ![q].at = "failed"]
    /\ UNCHANGED <<alertRow, notes, screen, reopened, deskActions>>

\* The operator reads the answer, and may start the same request again.
TakeAnswer(q) ==
    /\ desk[q].at \in {"answered", "failed"}
    /\ desk' = [desk EXCEPT ![q] = Idle]
    /\ UNCHANGED <<alertRow, notes, screen, reopened, crossed, deskActions, deskErrors>>

\* Update sets any status and publishes nothing.
EditAlert(a, status) ==
    /\ alertRow[a] \notin {"deleted", status} /\ deskActions < MaxDeskActions
    /\ deskActions' = deskActions + 1
    /\ alertRow' = [alertRow EXCEPT ![a] = status]
    /\ reopened' = IF alertRow[a] = "resolved" THEN reopened \cup {"single"} ELSE reopened
    /\ crossed' = crossed \cup {a}
    /\ UNCHANGED <<notes, screen, desk, deskErrors>>

\* Delete publishes nothing; the notes go with the alert.
DeleteAlert(a) ==
    /\ alertRow[a] # "deleted" /\ deskActions < MaxDeskActions
    /\ deskActions' = deskActions + 1
    /\ alertRow' = [alertRow EXCEPT ![a] = "deleted"]
    /\ notes' = {n \in notes : n[2] # a}
    /\ UNCHANGED <<screen, desk, reopened, crossed, deskErrors>>

AlertDeskNext ==
    \/ \E q \in Desks :
         \/ \E ids \in IdLists, target \in Targets : BeginBulk(q, ids, target)
         \/ \E a \in DeskAlerts, target \in Targets : BeginSingle(q, a, target)
         \/ \E a \in DeskAlerts : SetAssignee(q, a) \/ AddNote(q, a)
         \/ Look(q) \/ WriteStatus(q) \/ InsertNote(q) \/ Reread(q) \/ Publish(q)
         \/ LookFails(q) \/ FailStatement(q) \/ RereadFails(q) \/ TakeAnswer(q)
    \/ \E a \in DeskAlerts : DeleteAlert(a) \/ \E s \in AlertStatuses : EditAlert(a, s)

AlertDeskSpec == AlertDeskInit /\ [][AlertDeskNext]_deskVars

-----------------------------------------------------------------------------
(* Properties. *)

\* "failures are reported per id" (operator.go:240-241): a bulk request that is
\* answered accounts for every id it was sent, once, whatever was repeated in the
\* list; what it calls updated has its note, and nothing outside the scopes does.
BulkAnswersForEach ==
    \A q \in Desks : desk[q].at = "answered" /\ desk[q].kind = "bulk" =>
        /\ desk[q].updated \cup desk[q].skipped = desk[q].asked
        /\ desk[q].updated \cap desk[q].skipped = {}
        /\ desk[q].updated \cap OutOfScope = {}
        /\ \A a \in desk[q].updated : alertRow[a] # "deleted" => <<q, a>> \in notes

\* A bulk acknowledgement never re-opens an alert it saw resolved: only the
\* single-alert action, which does not look, and a bulk whose look is out of date
\* do.
ReopenedUnseen == "seen" \notin reopened

\* When no request is under way, the last event of an alert shows its status;
\* otherwise two requests crossed between a re-read and its publication, the note
\* of a bulk request or the re-read itself failed after the write, or the alert
\* was edited (Update publishes nothing).
ScreensAgree ==
    (\A q \in Desks : desk[q].at \in {"idle", "answered", "failed"}) =>
        \A a \in DeskAlerts \ crossed : alertRow[a] \in {screen[a], "deleted"}

\* What operators do to alerts side by side: bulk answers are complete, nothing
\* seen resolved is re-opened, and the screens end up with the rows (operator.go).
AlertDeskSafe ==
    /\ AlertDeskTypeOK
    /\ BulkAnswersForEach
    /\ ReopenedUnseen
    /\ ScreensAgree
=============================================================================
