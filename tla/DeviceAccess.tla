---------------------------- MODULE DeviceAccess ----------------------------
(***************************************************************************)
(* Device requests of administrators and of users whose view is limited to *)
(* scopes: handlers/devices.go, scope.go, scope_guard.go and roles.go,     *)
(* rbac/scope.go, the device statements of internal/database, the cached   *)
(* copy of a device (cache/device_cache.go) and the WebSocket scope filter *)
(* (server/ws_scope.go).                                                   *)
(*                                                                         *)
(* One device.  Its row has a location, an address (inside the scoped      *)
(* subnet, outside it, or a host name) and a name, which stands for every  *)
(* other column.  Requests are short beside the lifetime of a cache entry: *)
(* time passes between them.                                               *)
(***************************************************************************)
EXTENDS Integers, FiniteSets

CONSTANTS
    Places,      \* locations
    ScopedPlace, \* the location the user is scoped to
    NoPlace,     \* location_id is NULL
    Edits,       \* requests that may be under way together
    CopyTTL,     \* ticks a cached device lives (60 s)
    LocationTTL, \* ticks the filter's cache lives (60 s)
    MaxWritesOfDevice, \* bound: updates of the row
    MaxScopeChanges    \* bound: changes of the user's scopes

ASSUME DeviceAccessAssumption ==
    /\ ScopedPlace \in Places /\ NoPlace \notin Places
    /\ {CopyTTL, LocationTTL, MaxWritesOfDevice, MaxScopeChanges} \subseteq Nat

VARIABLES
    dev,        \* the row of devices
    copy,       \* nm:device:id, and its age
    located,    \* deviceLocationCache, and its age
    scopes,     \* user_scopes of the scoped user
    wsScopes,   \* the scopes its WebSocket client was registered with
    edit,       \* the requests
    recent,     \* the rows of the last ticks, and their ages (history)
    writes,     \* updates so far (history)
    scopeChanges \* (history)

deviceVars == <<dev, copy, located, scopes, wsScopes, edit, recent, writes, scopeChanges>>

\* Inside the subnet, or not: an address elsewhere or a host name, which no
\* subnet matches.
Addresses == {"inside", "outside"}
DeviceRows == [loc : Places \cup {NoPlace}, addr : Addresses, name : 0..MaxWritesOfDevice]
Gone == [loc |-> NoPlace, addr |-> "gone", name |-> 0]
NoCopy == [row |-> Gone, age |-> -1]

\* A scope is a location or the subnet; UserScopeHandler accepts no other type.
AllScopes == {<<"location", p>> : p \in Places} \cup {<<"subnet", "net">>}

Unpatched == [field |-> "name", value |-> 0]
Patch == [field : {"name"}, value : 1..MaxWritesOfDevice]
         \cup [field : {"loc"}, value : Places \cup {NoPlace}]
         \cup [field : {"addr"}, value : Addresses]
NoEdit == [pc |-> "idle", scoped |-> FALSE, scopes |-> {}, patch |-> Unpatched, got |-> Gone,
           next |-> "idle"]

Horizon == IF CopyTTL < LocationTTL THEN LocationTTL ELSE CopyTTL

DeviceAccessTypeOK ==
    /\ dev \in DeviceRows \cup {Gone} /\ copy.row \in DeviceRows \cup {Gone} /\ copy.age \in -1..CopyTTL
    /\ located.loc \in Places \cup {NoPlace} /\ located.age \in -1..LocationTTL
    /\ scopes \subseteq AllScopes /\ wsScopes \subseteq AllScopes
    /\ \A e \in Edits : edit[e].pc \in {"idle", "guard", "read", "fill", "checked", "apply", "drop"}
    /\ recent \subseteq [row : DeviceRows \cup {Gone}, age : 0..Horizon]

DeviceAccessInit ==
    /\ dev = [loc |-> ScopedPlace, addr |-> "outside", name |-> 0]
    /\ copy = NoCopy /\ located = [loc |-> NoPlace, age |-> -1]
    /\ scopes = {<<"location", ScopedPlace>>} /\ wsScopes = scopes
    /\ edit = [e \in Edits |-> NoEdit] 
    /\ recent = {[row |-> dev, age |-> 0]} /\ writes = 0 /\ scopeChanges = 0

-----------------------------------------------------------------------------
\* deviceMatchesScope: any location or any subnet.
DeviceMatchesScope(row, sc) ==
    \E s \in sc : \/ s[1] = "location" /\ row.loc # NoPlace /\ row.loc = s[2]
                  \/ s[1] = "subnet" /\ row.addr = "inside"

\* scopeCondition, the WHERE clause of a list: no condition matches nothing.
\* A NULL location matches no list.
ScopeCondition(row, sc) ==
    LET places == {s[2] : s \in {t \in sc : t[1] = "location"}}
        conds == (IF places = {} THEN {} ELSE {row.loc \in places})
                 \cup (IF <<"subnet", "net">> \in sc THEN {row.addr = "inside"} ELSE {})
    IN TRUE \in conds

\* GetDevicesFiltered for a scoped caller: the list is never the cached one.
ListDevices(sc) == IF dev # Gone /\ ScopeCondition(dev, sc) THEN {dev} ELSE {}

\* scopedDeviceIDs, the set the handlers filter by.
ScopedDeviceIDs(sc) == ListDevices(sc)

\* The other views of a scoped caller: the latest metrics, metric history and
\* health scores of the listed devices; alerts and search results whose device
\* satisfies the clause.
LatestMetrics(ids) == ids \cap {dev}
History(ids) == {d \in {dev} : d \in ids}
HealthScores(ids) == {d \in {dev} : d \in ids}
GetAlerts(sc) == {d \in {dev} \ {Gone} : ScopeCondition(d, sc)}
Search(sc) == {d \in {dev} \ {Gone} : ScopeCondition(d, sc)}

\* scopedBootstrap: what the first message of a WebSocket shows, the latest
\* metrics of the listed devices and the active alerts under the clause.
ScopedBootstrap(ids, alerts) == LatestMetrics(ids) \cup alerts

Views(sc) ==
    LET ids == ScopedDeviceIDs(sc)
        alerts == GetAlerts(sc)
    IN {ids, LatestMetrics(ids), History(ids), HealthScores(ids), alerts, Search(sc), ScopedBootstrap(ids, alerts)}

\* Seeded fault: the location is not looked at.
PlaceAnywhere(e, loc) == TRUE

\* canPlaceInLocation: a scoped caller only uses its own locations.
CanPlaceInLocation(e, loc) == edit[e].scoped => <<"location", loc>> \in edit[e].scopes

Now(row) == recent \cup {[row |-> row, age |-> 0]}

-----------------------------------------------------------------------------
\* RequireScopeContext loads the scopes of the user, then the route runs; an
\* administrator has none and no guard.
BeginEdit(e, scoped, patch) ==
    /\ edit[e].pc = "idle" /\ writes < MaxWritesOfDevice
    /\ edit' = [edit EXCEPT ![e] = [NoEdit EXCEPT !.pc = IF scoped THEN "guard" ELSE "read",
                  !.scoped = scoped, !.scopes = IF scoped THEN scopes ELSE {}, !.patch = patch]]
    /\ writes' = writes + 1
    /\ UNCHANGED <<dev, copy, located, scopes, wsScopes, recent, scopeChanges>>

\* DeviceCache.GetDevice: the copy, or the row and then a new copy.
GetDeviceCopy(e) ==
    /\ edit[e].pc \in {"guard", "read"}
    /\ LET next == IF edit[e].pc = "guard" THEN "checked" ELSE "apply"
       IN \/ /\ copy # NoCopy
             /\ edit' = [edit EXCEPT ![e].pc = next, ![e].got = copy.row]
          \/ /\ copy = NoCopy /\ dev # Gone
             /\ edit' = [edit EXCEPT ![e].pc = "fill", ![e].got = dev, ![e].next = next]
          \/ /\ copy = NoCopy /\ dev = Gone
             /\ edit' = [edit EXCEPT ![e] = NoEdit]
    /\ UNCHANGED <<dev, copy, located, scopes, wsScopes, recent, writes, scopeChanges>>

FillCopy(e) ==
    /\ edit[e].pc = "fill"
    /\ copy' = [row |-> edit[e].got, age |-> 0]
    /\ edit' = [edit EXCEPT ![e].pc = edit[e].next]
    /\ UNCHANGED <<dev, located, scopes, wsScopes, recent, writes, scopeChanges>>

\* DeviceScopeGuard: outside the scopes the answer is 404.
DeviceScopeGuard(e) ==
    /\ edit[e].pc = "checked"
    /\ edit' = IF DeviceMatchesScope(edit[e].got, edit[e].scopes)
               THEN [edit EXCEPT ![e].pc = "read"] ELSE [edit EXCEPT ![e] = NoEdit]
    /\ UNCHANGED <<dev, copy, located, scopes, wsScopes, recent, writes, scopeChanges>>

\* Update: the patch is applied to what was read and the whole row is
\* written; a row that is gone stays gone.
UpdateDeviceRow(e) ==
    /\ edit[e].pc = "apply"
    /\ LET p == edit[e].patch
           row == IF p.field = "name" THEN [edit[e].got EXCEPT !.name = p.value]
                  ELSE IF p.field = "loc" THEN [edit[e].got EXCEPT !.loc = p.value]
                  ELSE [edit[e].got EXCEPT !.addr = p.value]
       IN \/ /\ p.field = "loc" /\ ~CanPlaceInLocation(e, p.value)
             /\ edit' = [edit EXCEPT ![e] = NoEdit] /\ UNCHANGED <<dev, recent>>
          \/ /\ p.field = "loc" => CanPlaceInLocation(e, p.value)
             /\ dev' = IF dev = Gone THEN Gone ELSE row
             /\ recent' = Now(dev') /\ edit' = [edit EXCEPT ![e].pc = "drop"]
    /\ UNCHANGED <<copy, located, scopes, wsScopes, writes, scopeChanges>>

\* InvalidateDevice; when Redis does not answer the copy stays.
InvalidateDevice(e) ==
    /\ edit[e].pc = "drop"
    /\ edit' = [edit EXCEPT ![e] = NoEdit]
    /\ copy' \in {copy, NoCopy}
    /\ UNCHANGED <<dev, located, scopes, wsScopes, recent, writes, scopeChanges>>

\* Delete by a caller the guard let through (its copy goes with the row).
DeleteDeviceRow(e) ==
    /\ edit[e].pc = "read" /\ dev # Gone
    /\ dev' = Gone /\ recent' = Now(Gone) /\ edit' = [edit EXCEPT ![e].pc = "drop"]
    /\ UNCHANGED <<copy, located, scopes, wsScopes, writes, scopeChanges>>

\* Create, by an administrator or by the scoped user in one of its places.
CreateDeviceRow(scoped, loc) ==
    /\ dev = Gone /\ writes < MaxWritesOfDevice /\ \A e \in Edits : edit[e].pc = "idle"
    /\ scoped => <<"location", loc>> \in scopes
    /\ dev' = [loc |-> loc, addr |-> "outside", name |-> 0]
    /\ copy' = NoCopy /\ recent' = Now(dev') /\ writes' = writes + 1
    /\ UNCHANGED <<located, scopes, wsScopes, edit, scopeChanges>>

\* UserScopeHandler Create and Delete.
CreateScope(s) ==
    /\ s \notin scopes /\ scopeChanges < MaxScopeChanges /\ scopeChanges' = scopeChanges + 1
    /\ scopes' = scopes \cup {s}
    /\ UNCHANGED <<dev, copy, located, wsScopes, edit, recent, writes>>

DeleteScope(s) ==
    /\ s \in scopes /\ scopeChanges < MaxScopeChanges /\ scopeChanges' = scopeChanges + 1
    /\ scopes' = scopes \ {s}
    /\ UNCHANGED <<dev, copy, located, wsScopes, edit, recent, writes>>

\* The client connects again and is registered with its scopes.
Reconnect ==
    /\ wsScopes # scopes /\ wsScopes' = scopes
    /\ UNCHANGED <<dev, copy, located, scopes, edit, recent, writes, scopeChanges>>

\* The WebSocket filter lets an event about the device through: locationOf
\* answers from its cache or reads the row; only location scopes count.
Delivered ==
    LET at == IF located.age >= 0 THEN located.loc ELSE dev.loc
    IN at # NoPlace /\ <<"location", at>> \in wsScopes

ScopeFilter ==
    /\ located.age = -1 /\ dev # Gone
    /\ located' = [loc |-> dev.loc, age |-> 0]
    /\ UNCHANGED <<dev, copy, scopes, wsScopes, edit, recent, writes, scopeChanges>>

\* An entry that is as old as its lifetime is not used any more.
Older(c, ttl) ==
    IF c.age = -1 THEN c ELSE IF c.age >= ttl THEN [c EXCEPT !.age = -1] ELSE [c EXCEPT !.age = @ + 1]

DeviceTick ==
    /\ \A e \in Edits : edit[e].pc = "idle"
    /\ copy' = IF Older(copy, CopyTTL).age = -1 THEN NoCopy ELSE Older(copy, CopyTTL)
    /\ located' = Older(located, LocationTTL)
    /\ recent' = {[row |-> r.row, age |-> r.age + 1] : r \in {x \in recent : x.age < Horizon}}
                 \cup {[row |-> dev, age |-> 0]}
    /\ UNCHANGED <<dev, scopes, wsScopes, edit, writes, scopeChanges>>

DeviceAccessNext ==
    \/ \E e \in Edits :
          \/ \E scoped \in BOOLEAN, p \in Patch :
                (p.field = "name" => p.value = writes + 1) /\ BeginEdit(e, scoped, p)
          \/ GetDeviceCopy(e) \/ FillCopy(e) \/ DeviceScopeGuard(e) \/ UpdateDeviceRow(e)
          \/ InvalidateDevice(e) \/ DeleteDeviceRow(e)
    \/ \E scoped \in BOOLEAN, p \in Places : CreateDeviceRow(scoped, p)
    \/ \E s \in AllScopes : CreateScope(s) \/ DeleteScope(s)
    \/ Reconnect \/ ScopeFilter \/ DeviceTick

DeviceAccessSpec == DeviceAccessInit /\ [][DeviceAccessNext]_deviceVars

-----------------------------------------------------------------------------
(***************************************************************************)
(* Properties.                                                             *)
(***************************************************************************)
\* What a scoped user finds in any list, metric, alert or search, which the
\* database filters, is what the guard and the single read, which filter in
\* Go, let it open (scope.go:46-69, postgres_extended.go:51-79).
ListAgreesWithGuard ==
    \A sc \in SUBSET AllScopes :
        LET opens == dev # Gone /\ DeviceMatchesScope(dev, sc)
        IN \A v \in Views(sc) : (v # {}) = opens

\* A scoped user changes only a device that was in its scopes not longer ago
\* than a cached copy lives (devices.go:208-365, scope_guard.go:35-57).
ScopedWriteAllowed ==
    [][\A e \in Edits : (edit[e].scoped /\ edit[e].pc = "apply" /\ edit'[e].pc = "drop")
          => \E r \in recent : r.age <= CopyTTL /\ DeviceMatchesScope(r.row, edit[e].scopes)]_deviceVars

\* A scoped user's request leaves a device in one of its own locations or
\* where the device was a short while ago (scope_guard.go:140-157).
ScopedMoveInside ==
    [][\A e \in Edits : (edit[e].scoped /\ edit[e].pc = "apply" /\ edit'[e].pc = "drop")
          => \/ <<"location", dev'.loc>> \in edit[e].scopes
             \/ \E r \in recent : r.age <= CopyTTL /\ r.row.loc = dev'.loc]_deviceVars

\* A client hears about a device only while one of its location scopes holds
\* the device, or within the lifetime of the filter's cache after that
\* (ws_scope.go:67-106, server.go:236-266).
EventsInScope == Delivered => \E r \in recent : <<"location", r.row.loc>> \in wsScopes

\* A scoped user reads, hears of, changes and moves only devices of its scopes:
\* the filters in SQL, in Go and in the event stream agree (scope_guard.go).
DeviceAccessCorrect ==
    /\ [](DeviceAccessTypeOK /\ ListAgreesWithGuard /\ EventsInScope)
    /\ ScopedWriteAllowed
    /\ ScopedMoveInside
=============================================================================
