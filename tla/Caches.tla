------------------------------- MODULE Caches -------------------------------
(***************************************************************************)
(* The caches of the server, two specifications: what is kept in Redis     *)
(* beside the database (CacheAside), and the alert rules each instance     *)
(* keeps in memory (RuleCache).                                            *)
(***************************************************************************)
EXTENDS Integers, FiniteSets

(***************************************************************************)
(* internal/cache: CachedDatabase, DeviceCache, StatsCache and             *)
(* AlertStateCache over Redis.  Every cached read is: get the key, on a    *)
(* miss read the database, set the key with a time to live.  Every cached  *)
(* write is: write the database, then delete the keys it knows to be       *)
(* stale.  Errors of Redis are ignored by the callers.                     *)
(*                                                                         *)
(* Keys do not influence each other, so a behaviour follows one of them    *)
(* (focus) and everyone who reads or writes what it shows, on any          *)
(* instance.  The rows behind the key are one version number.              *)
(***************************************************************************)
CONSTANTS
    Readers,     \* calls that read through the cache
    Writers,     \* calls that write through the cache
    EntryTTL,    \* time to live of the key, in ticks
    FetchTime,   \* bound: the ticks a fill takes at most
    MaxWrites,   \* bound: writes to the database
    MaxRedisErrors \* bound: Redis calls that fail

ASSUME CacheAsideAssumption ==
    /\ EntryTTL \in Nat \ {0} /\ FetchTime \in Nat
    /\ MaxWrites \in Nat /\ MaxRedisErrors \in Nat

\* nm:device:<id>, nm:devices:all and :enabled, nm:metrics:latest,
\* nm:metrics:latest:<id>, nm:alerts:counts, nm:stats:dashboard and
\* nm:alert:state:<rule>:<device>.
CacheKeys == {"device", "devices", "latest", "latestOf", "counts", "dashboard", "state"}

VARIABLES
    focus,    \* the key this behaviour is about
    stored,   \* version of what the key shows, in the database
    entry,    \* the key in Redis
    readers,  \* what each reader is doing
    writers,  \* what each writer is doing
    settled,  \* newest version whose writer is done with the key (history)
    since,    \* for each version, ticks since it was superseded (history)
    redisErrors

cacheAsideVars == <<focus, stored, entry, readers, writers, settled, since, redisErrors>>

Writes == 0..MaxWrites
AgeCap == EntryTTL + FetchTime + 1

NoEntry == [present |-> FALSE, ver |-> 0, age |-> 0, late |-> FALSE]
IdleReader == [pc |-> "idle", ver |-> 0, age |-> 0]
IdleWriter == [pc |-> "idle", ver |-> 0]

CacheAsideTypeOK ==
    /\ focus \in CacheKeys
    /\ stored \in Writes /\ settled \in Writes
    /\ entry \in [present : BOOLEAN, ver : Writes, age : 0..EntryTTL, late : BOOLEAN]
    /\ readers \in [Readers -> [pc : {"idle", "fetch", "set", "got"}, ver : Writes,
                                age : 0..FetchTime]]
    /\ writers \in [Writers -> [pc : {"idle", "del"}, ver : Writes]]
    /\ since \in [Writes -> 0..AgeCap]
    /\ redisErrors \in 0..MaxRedisErrors

CacheAsideInit ==
    /\ focus \in CacheKeys
    /\ stored = 0 /\ settled = 0
    /\ entry = NoEntry
    /\ readers = [r \in Readers |-> IdleReader]
    /\ writers = [w \in Writers |-> IdleWriter]
    /\ since = [v \in Writes |-> 0]
    /\ redisErrors = 0

\* A Redis call that fails, and one that does not.
RedisFails == redisErrors < MaxRedisErrors /\ redisErrors' = redisErrors + 1
RedisWorks == UNCHANGED redisErrors

-----------------------------------------------------------------------------
(***************************************************************************)
(* Reads.                                                                  *)
(***************************************************************************)
\* Redis.Get of the key: a hit is returned, a miss or an error goes on to
\* the database.
Get(r, key) ==
    /\ focus = key
    /\ readers[r].pc = "idle"
    /\ \/ /\ entry.present /\ RedisWorks
          /\ readers' = [readers EXCEPT ![r] = [IdleReader EXCEPT !.pc = "got", !.ver = entry.ver]]
       \/ /\ ~entry.present /\ RedisWorks
          /\ readers' = [readers EXCEPT ![r].pc = "fetch"]
       \/ /\ RedisFails
          /\ readers' = [readers EXCEPT ![r].pc = "fetch"]
    /\ UNCHANGED <<focus, stored, entry, writers, settled, since>>

GetDevices(r) == Get(r, "devices")
GetEnabledDevices(r) == Get(r, "devices")
GetDevice(r) == Get(r, "device")
GetDashboardStats(r) == Get(r, "dashboard")
GetLatestMetrics(r) == Get(r, "latest")
GetLatestMetricForDevice(r) == Get(r, "latestOf")
GetAlertCounts(r) == Get(r, "counts")
GetAlertRuleState(r) == Get(r, "state")

CachedRead(r) ==
    \/ GetDevices(r) \/ GetEnabledDevices(r) \/ GetDevice(r) \/ GetDashboardStats(r)
    \/ GetLatestMetrics(r) \/ GetLatestMetricForDevice(r) \/ GetAlertCounts(r)
    \/ GetAlertRuleState(r)

\* The database answers, or fails and with it the read.
Fetch(r) ==
    /\ readers[r].pc = "fetch"
    /\ \/ readers' = [readers EXCEPT ![r] = [pc |-> "set", ver |-> stored, age |-> 0]]
       \/ readers' = [readers EXCEPT ![r] = IdleReader]
    /\ UNCHANGED <<focus, stored, entry, writers, settled, since, redisErrors>>

\* Redis.Set with the time to live; its error is ignored.
Set(r) ==
    /\ readers[r].pc = "set"
    /\ readers' = [readers EXCEPT ![r].pc = "got"]
    /\ \/ /\ RedisWorks
          /\ entry' = [present |-> TRUE, ver |-> readers[r].ver, age |-> 0,
                       late |-> readers[r].ver < settled]
       \/ RedisFails /\ UNCHANGED entry
    /\ UNCHANGED <<focus, stored, writers, settled, since>>

\* The caller uses what it got.
Returned(r) ==
    /\ readers[r].pc = "got"
    /\ readers' = [readers EXCEPT ![r] = IdleReader]
    /\ UNCHANGED <<focus, stored, entry, writers, settled, since, redisErrors>>

-----------------------------------------------------------------------------
(***************************************************************************)
(* Writes: "shows" are the keys whose value the statement changes, "dels"  *)
(* the keys the cache deletes after it.  "owed" are the keys whose next    *)
(* reader expects the write: all but the lists and the dashboard, where a  *)
(* new status or metric waits for the expiry.                              *)
(***************************************************************************)
WriteThrough(w, shows, dels, owed) ==
    /\ focus \in shows
    /\ writers[w].pc = "idle"
    /\ stored < MaxWrites
    /\ stored' = stored + 1
    /\ since' = [v \in Writes |-> IF v = stored THEN 0 ELSE since[v]]
    /\ writers' = [writers EXCEPT ![w] =
           IF focus \in dels THEN [pc |-> "del", ver |-> stored + 1] ELSE IdleWriter]
    /\ settled' = IF focus \in owed \ dels THEN stored + 1 ELSE settled
    /\ UNCHANGED <<focus, entry, readers, redisErrors>>

DeviceKeys == {"device", "devices"}

\* A new device is on the lists.
CreateDevice(w) == WriteThrough(w, {"devices", "dashboard"}, {"devices"}, {"devices"})

UpdateDevice(w) == WriteThrough(w, DeviceKeys, DeviceKeys, DeviceKeys)
DeleteDevice(w) == WriteThrough(w, DeviceKeys \cup {"dashboard"}, DeviceKeys, DeviceKeys)

\* A status is also shown by the lists and the dashboard, which wait for
\* their expiry.
UpdateDeviceStatus(w) ==
    WriteThrough(w, DeviceKeys \cup {"dashboard"}, {"device"}, {"device"})
UpdateDeviceStatuses(w) ==
    WriteThrough(w, DeviceKeys \cup {"dashboard"}, {"device"}, {"device"})

MetricKeys == {"latest", "latestOf"}
RecordMetric(w) == WriteThrough(w, MetricKeys \cup {"dashboard"}, MetricKeys, MetricKeys)
RecordMetricsBatch(w) == WriteThrough(w, MetricKeys \cup {"dashboard"}, MetricKeys, MetricKeys)

CreateAlert(w) == WriteThrough(w, {"counts", "dashboard"}, {"counts"}, {"counts"})
UpdateAlertStatus(w) == WriteThrough(w, {"counts", "dashboard"}, {"counts"}, {"counts"})
DeleteAlert(w) == WriteThrough(w, {"counts", "dashboard"}, {"counts"}, {"counts"})

\* AlertStateCache: invalidate instead of writing through (M38).
UpsertAlertRuleState(w) == WriteThrough(w, {"state"}, {"state"}, {"state"})

CachedWrite(w) ==
    \/ CreateDevice(w) \/ UpdateDevice(w) \/ DeleteDevice(w)
    \/ UpdateDeviceStatus(w) \/ UpdateDeviceStatuses(w)
    \/ RecordMetric(w) \/ RecordMetricsBatch(w)
    \/ CreateAlert(w) \/ UpdateAlertStatus(w) \/ DeleteAlert(w)
    \/ UpsertAlertRuleState(w)

\* Redis.Del; its error is ignored.
Del(w) ==
    /\ writers[w].pc = "del"
    /\ writers' = [writers EXCEPT ![w] = IdleWriter]
    /\ \/ /\ RedisWorks
          /\ entry' = NoEntry
          /\ settled' = IF writers[w].ver > settled THEN writers[w].ver ELSE settled
       \/ RedisFails /\ UNCHANGED <<entry, settled>>
    /\ UNCHANGED <<focus, stored, readers, since>>

-----------------------------------------------------------------------------
Aged == IF entry.present /\ entry.age + 1 < EntryTTL
        THEN [entry EXCEPT !.age = @ + 1] ELSE NoEntry

\* A tick: the entry ages and is dropped at its time to live; a fill under
\* way takes at most FetchTime.
CacheTick ==
    /\ \A r \in Readers : /\ readers[r].pc # "got"
                          /\ readers[r].pc = "set" => readers[r].age < FetchTime
    /\ entry' = Aged
    /\ readers' = [r \in Readers |-> IF readers[r].pc = "set"
                                     THEN [readers[r] EXCEPT !.age = @ + 1] ELSE readers[r]]
    /\ since' = [v \in Writes |-> IF v < stored /\ since[v] < AgeCap
                                  THEN since[v] + 1 ELSE since[v]]
    /\ UNCHANGED <<focus, stored, writers, settled, redisErrors>>

CacheAsideNext ==
    \/ \E r \in Readers : CachedRead(r) \/ Fetch(r) \/ Set(r) \/ Returned(r)
    \/ \E w \in Writers : CachedWrite(w) \/ Del(w)
    \/ CacheTick

CacheAsideSpec == CacheAsideInit /\ [][CacheAsideNext]_cacheAsideVars

-----------------------------------------------------------------------------
(***************************************************************************)
(* Properties.                                                             *)
(***************************************************************************)
\* What a caller gets was superseded in the database at most the time to
\* live plus one fill ago, through lost deletions, late fills and keys that
\* a write does not delete (device_cache.go, stats_cache.go).
StalenessBounded ==
    \A r \in Readers :
        readers[r].pc = "got" => since[readers[r].ver] < EntryTTL + FetchTime

\* An entry older than a write that is done with its key can only have been
\* put there by a reader that had fetched it before that write: no write
\* leaves a key it should delete (cached_database.go:74-156).
StaleOnlyByLateFill == entry.present /\ entry.ver < settled => entry.late

-----------------------------------------------------------------------------
(***************************************************************************)
(* internal/engine/rule_cache.go with the handlers of                      *)
(* internal/handlers/alert_rules.go and the statements of                  *)
(* internal/database/postgres_alertrules.go: one alert rule, its           *)
(* conditions in a second table, the evaluations of one server instance    *)
(* that read it through the cache, and edits on this and on other          *)
(* instances.                                                              *)
(*                                                                         *)
(* Each action is one statement or one critical section.  A write gives    *)
(* the rule a new version, so that what an evaluation got can be compared  *)
(* with what was committed.  Time passes in ticks.                         *)
(***************************************************************************)
CONSTANTS
    Evaluations,   \* calls of activeRules on this instance
    LocalEditors,  \* requests that edit the rule on this instance
    RemoteEditors, \* requests that edit the rule on other instances
    RuleTTL,       \* ruleCacheTTL
    LoadTime,      \* bound: the ticks GetAlertRules takes at most
    MaxEdits       \* bound: writes to the rule

ASSUME RuleCacheAssumption ==
    /\ RuleTTL \in Nat \ {0} /\ LoadTime \in Nat /\ MaxEdits \in Nat
    /\ LocalEditors \cap RemoteEditors = {}

VARIABLES
    rule,    \* the row of alert_rules
    conds,   \* version of its rows of alert_rule_conditions
    cache,   \* ruleCache
    loads,   \* what each evaluation is doing
    edits,   \* what each editing request is doing
    acked    \* newest version whose edit was acknowledged here (history)

ruleCacheVars == <<rule, conds, cache, loads, edits, acked>>

Editors == LocalEditors \cup RemoteEditors
Versions == 0..MaxEdits

\* What a load saw: a version of the rule row, a version of the conditions
\* (two queries), and for how long they have been out of the database.
\* Which rules are enabled and have conditions follows from the versions.
View == [row : Versions, conds : Versions, age : 0..(RuleTTL + LoadTime)]
NoView == [row |-> 0, conds |-> 0, age |-> 0]

IdleLoad == [pc |-> "idle", gen |-> 0, view |-> NoView, floor |-> 0]
IdleEdit == [pc |-> "idle", ver |-> 0]

RuleCacheTypeOK ==
    /\ rule \in [present : BOOLEAN, ver : Versions]
    /\ conds \in Versions
    /\ cache \in [view : View, loaded : BOOLEAN, age : 0..RuleTTL, gen : Nat]
    /\ loads \in [Evaluations -> [pc : {"idle", "rules", "conds", "store", "got"},
                                  gen : Nat, view : View, floor : Versions]]
    /\ edits \in [Editors -> [pc : {"idle", "toggle", "changed"}, ver : Versions]]
    /\ acked \in Versions

RuleCacheInit ==
    /\ rule = [present |-> TRUE, ver |-> 0]
    /\ conds = 0
    /\ cache = [view |-> NoView, loaded |-> FALSE, age |-> 0, gen |-> 0]
    /\ loads = [e \in Evaluations |-> IdleLoad]
    /\ edits = [h \in Editors |-> IdleEdit]
    /\ acked = 0

-----------------------------------------------------------------------------
(***************************************************************************)
(* activeRules: serve the cache, or load and store unless the generation   *)
(* moved.                                                                  *)
(***************************************************************************)
CacheFresh == cache.loaded /\ cache.age < RuleTTL

\* The critical section at the start of activeRules.
ActiveRules(e) ==
    /\ loads[e].pc = "idle"
    /\ loads' = [loads EXCEPT ![e] =
           [IdleLoad EXCEPT !.floor = acked,
                            !.gen = cache.gen,
                            !.pc = IF CacheFresh THEN "got" ELSE "rules",
                            !.view = IF CacheFresh THEN cache.view ELSE NoView]]
    /\ UNCHANGED <<rule, conds, cache, edits, acked>>

\* GetAlertRules: first the rules.
LoadRules(e) ==
    /\ loads[e].pc = "rules"
    /\ loads' = [loads EXCEPT ![e].pc = "conds", ![e].view.row = rule.ver]
    /\ UNCHANGED <<rule, conds, cache, edits, acked>>

\* Then, in a statement of its own, their conditions.  An error of either
\* query ends the call without rules.
LoadConditions(e) ==
    /\ loads[e].pc = "conds"
    /\ loads' = [loads EXCEPT ![e].pc = "store", ![e].view.conds = conds]
    /\ UNCHANGED <<rule, conds, cache, edits, acked>>

LoadFails(e) ==
    /\ loads[e].pc \in {"rules", "conds"}
    /\ loads' = [loads EXCEPT ![e] = IdleLoad]
    /\ UNCHANGED <<rule, conds, cache, edits, acked>>

\* Seeded fault: a load is stored whatever happened since it began.
StoreAnyGeneration(e) ==
    /\ loads[e].pc = "store"
    /\ loads' = [loads EXCEPT ![e].pc = "got"]
    /\ cache' = [cache EXCEPT !.view = loads[e].view, !.loaded = TRUE, !.age = 0]
    /\ UNCHANGED <<rule, conds, edits, acked>>

\* The critical section at the end of activeRules: loads begun before an
\* invalidate are used by their caller but not kept.
StoreRules(e) ==
    /\ loads[e].pc = "store"
    /\ loads' = [loads EXCEPT ![e].pc = "got"]
    /\ cache' = IF cache.gen = loads[e].gen
                THEN [cache EXCEPT !.view = loads[e].view, !.loaded = TRUE, !.age = 0]
                ELSE cache
    /\ UNCHANGED <<rule, conds, edits, acked>>

\* The caller evaluates the rules it got.
Evaluated(e) ==
    /\ loads[e].pc = "got"
    /\ loads' = [loads EXCEPT ![e] = IdleLoad]
    /\ UNCHANGED <<rule, conds, cache, edits, acked>>

-----------------------------------------------------------------------------
(***************************************************************************)
(* The editing handlers.  Create and Update run in a transaction and read  *)
(* the rule back after the commit; when that read fails the handler        *)
(* answers with an error and does not call changed.                        *)
(***************************************************************************)
NextVersion == rule.ver + 1

\* A committed write to both tables and what the handler does next.
Commit(h, present, pc) ==
    /\ rule.ver < MaxEdits
    /\ rule' = [present |-> present, ver |-> NextVersion]
    /\ conds' = NextVersion
    /\ edits' = [edits EXCEPT ![h] = [pc |-> pc, ver |-> IF pc = "idle" THEN 0 ELSE NextVersion]]
    /\ UNCHANGED <<cache, loads, acked>>

\* GetAlertRule finds the row.
GetAlertRule == rule.present

\* Reading the rule and its relations back after the commit works or fails.
ReadBack == {"changed", "idle"}

CreateAlertRule(h) == \E pc \in ReadBack : Commit(h, TRUE, pc)

\* An update of a row that is gone fails on the foreign key of the
\* conditions or on the read that follows; nothing changes.
UpdateAlertRule(h) == GetAlertRule /\ \E pc \in ReadBack : Commit(h, TRUE, pc)

\* The conditions go with the rule (ON DELETE CASCADE).
DeleteAlertRule(h) == Commit(h, FALSE, "changed")

\* No row, no change, no error.
ToggleAlertRule(h) == Commit(h, rule.present, "changed")

CreateRule(h) == edits[h].pc = "idle" /\ ~rule.present /\ CreateAlertRule(h)

UpdateRule(h) == edits[h].pc = "idle" /\ GetAlertRule /\ UpdateAlertRule(h)

DeleteRule(h) == edits[h].pc = "idle" /\ DeleteAlertRule(h)

\* Toggle reads the rule and writes the negation in a later statement.
ToggleRead(h) ==
    /\ edits[h].pc = "idle" /\ GetAlertRule
    /\ edits' = [edits EXCEPT ![h].pc = "toggle"]
    /\ UNCHANGED <<rule, conds, cache, loads, acked>>

ToggleWrite(h) == edits[h].pc = "toggle" /\ ToggleAlertRule(h)

\* ruleCache.invalidate: a new generation and no load time.
Invalidate(c) == [c EXCEPT !.gen = @ + 1, !.loaded = FALSE, !.age = 0]

\* changed, then the response.  Another instance drops its own cache.
Changed(h) ==
    /\ edits[h].pc = "changed"
    /\ edits' = [edits EXCEPT ![h] = IdleEdit]
    /\ IF h \in LocalEditors
       THEN /\ cache' = Invalidate(cache)
            /\ acked' = IF edits[h].ver > acked THEN edits[h].ver ELSE acked
       ELSE UNCHANGED <<cache, acked>>
    /\ UNCHANGED <<rule, conds, loads>>

-----------------------------------------------------------------------------
OlderRules(v) == [v EXCEPT !.age = IF @ = RuleTTL + LoadTime THEN @ ELSE @ + 1]

\* A tick of the clock.  A load under way is never older than LoadTime.
RuleTick ==
    /\ \A e \in Evaluations : loads[e].pc \in {"conds", "store"} => loads[e].view.age < LoadTime
    /\ \A e \in Evaluations : loads[e].pc # "got"
    /\ cache' = [cache EXCEPT !.age = IF @ = RuleTTL THEN @ ELSE @ + 1,
                              !.view = IF cache.loaded THEN OlderRules(@) ELSE @]
    /\ loads' = [e \in Evaluations |->
           IF loads[e].pc \in {"conds", "store"}
           THEN [loads[e] EXCEPT !.view = OlderRules(@)] ELSE loads[e]]
    /\ UNCHANGED <<rule, conds, edits, acked>>

RuleCacheNext ==
    \/ \E e \in Evaluations : \/ ActiveRules(e) \/ LoadRules(e) \/ LoadConditions(e)
                              \/ LoadFails(e) \/ StoreRules(e) \/ Evaluated(e)
    \/ \E h \in Editors : \/ CreateRule(h) \/ UpdateRule(h) \/ DeleteRule(h)
                          \/ ToggleRead(h) \/ ToggleWrite(h) \/ Changed(h)
    \/ RuleTick

RuleCacheSpec == RuleCacheInit /\ [][RuleCacheNext]_ruleCacheVars

-----------------------------------------------------------------------------
(***************************************************************************)
(* Properties.                                                             *)
(***************************************************************************)
\* An evaluation that starts after an edit of this instance was
\* acknowledged uses rules and conditions at least as new, whether it finds
\* them in the cache, loads them, or takes what a load begun before the
\* edit brought back (rule_cache.go:11 and :21).
EvaluationSeesEdit ==
    \A e \in Evaluations :
        loads[e].pc = "got" => /\ loads[e].view.row >= loads[e].floor
                               /\ loads[e].view.conds >= loads[e].floor

\* Rules in use were read from the database at most ruleCacheTTL plus the
\* time of one load ago, whoever edited them since (rule_cache.go:11).
RulesNotTooOld ==
    \A e \in Evaluations :
        loads[e].pc = "got" => loads[e].view.age < RuleTTL + LoadTime

-----------------------------------------------------------------------------
\* What is read through a cache is old by a bounded time only: entries of the
\* Redis caches by their time to live, rules not even that after an edit of the
\* same instance (cached_database.go, alert_state_cache.go, rule_cache.go).
CachesFresh ==
    /\ CacheAsideTypeOK /\ RuleCacheTypeOK
    /\ StalenessBounded
    /\ StaleOnlyByLateFill
    /\ EvaluationSeesEdit
    /\ RulesNotTooOld
=============================================================================
