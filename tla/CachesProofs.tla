---------------------------- MODULE CachesProofs ----------------------------
(***************************************************************************)
(* Proof that CachesFresh is an invariant of both caches, for every number *)
(* of readers, writers, evaluations and editors, every time to live and    *)
(* every bound on writes, errors and load times.                           *)
(*                                                                         *)
(* CacheAside: what is on its way into Redis, and what is there, has not   *)
(* been superseded for longer than it has been under way or has been kept. *)
(* RuleCache: whatever is kept, or may still be kept because the           *)
(* generation has not moved, is at least as new as the newest edit this    *)
(* instance has acknowledged.                                              *)
(*                                                                         *)
(* And that DeviceAccess satisfies DeviceAccessCorrect: what a request     *)
(* carries past its guard, what the copy of a device holds and what the    *)
(* filter of the event stream remembers is the device of a short while     *)
(* ago, no longer than an entry lives.                                     *)
(*                                                                         *)
(* And that FlowRecordsSafe and CsvImportSafe are invariants: a datagram   *)
(* of any length is stored by exact arithmetic, and an import of any       *)
(* length is whole, because a staged device is of a row of the preview and *)
(* no identifier is used twice.                                            *)
(***************************************************************************)
EXTENDS Caches, DeviceAccess, FlowRecords, CsvImport, FiniteSetTheorems,
        WellFoundedInduction, TLAPS

-----------------------------------------------------------------------------
(***************************************************************************)
(* Redis.                                                                  *)
(***************************************************************************)
Entry == [present : BOOLEAN, ver : Writes, age : 0..EntryTTL, late : BOOLEAN]
Reader == [pc : {"idle", "fetch", "set", "got"}, ver : Writes, age : 0..FetchTime]
Writer == [pc : {"idle", "del"}, ver : Writes]

\* The newest version is not superseded, nor are the ones to come.
NewestCurrent == \A v \in Writes : v >= stored => since[v] = 0

\* A fill under way was current when it began.
FillsAreFresh == \A r \in Readers : readers[r].pc = "set" => since[readers[r].ver] <= readers[r].age

\* An entry was superseded at most one fill before it was stored.
EntryIsFresh ==
    entry.present => entry.age < EntryTTL /\ since[entry.ver] <= entry.age + FetchTime

AsideInv == /\ CacheAsideTypeOK /\ NewestCurrent /\ FillsAreFresh /\ EntryIsFresh
            /\ StalenessBounded /\ StaleOnlyByLateFill

LEMMA AsideTypes ==
    /\ 0 \in Writes /\ NoEntry \in Entry /\ IdleReader \in Reader /\ IdleWriter \in Writer
    /\ AgeCap \in Nat /\ \A v \in Writes : v \in Nat
  BY CacheAsideAssumption DEF Writes, NoEntry, Entry, IdleReader, Reader, IdleWriter, Writer, AgeCap

LEMMA AsideInit == CacheAsideInit => AsideInv
  <1> SUFFICES ASSUME CacheAsideInit PROVE AsideInv
    OBVIOUS
  <1>1. CacheAsideTypeOK
    <2>1. entry \in Entry /\ readers \in [Readers -> Reader] /\ writers \in [Writers -> Writer]
      BY AsideTypes DEF CacheAsideInit
    <2>2. since \in [Writes -> 0..AgeCap] /\ redisErrors \in 0..MaxRedisErrors
      BY AsideTypes, CacheAsideAssumption DEF CacheAsideInit
    <2> QED
      BY <2>1, <2>2, AsideTypes DEF CacheAsideInit, CacheAsideTypeOK, Entry, Reader, Writer
  <1>2. ~ entry.present /\ \A r \in Readers : readers[r].pc = "idle"
    BY DEF CacheAsideInit, NoEntry, IdleReader
  <1>3. NewestCurrent
    BY DEF CacheAsideInit, NewestCurrent
  <1> QED
    BY <1>1, <1>2, <1>3 DEF AsideInv, FillsAreFresh, EntryIsFresh, StalenessBounded, StaleOnlyByLateFill

LEMMA ErrorsType ==
    ASSUME CacheAsideTypeOK, RedisWorks \/ RedisFails
    PROVE  redisErrors' \in 0..MaxRedisErrors
  BY CacheAsideAssumption DEF CacheAsideTypeOK, RedisWorks, RedisFails

\* A step of one reader that neither writes nor stores.
LEMMA ReaderKeeps ==
    ASSUME AsideInv, NEW r \in Readers, NEW x \in Reader,
           readers' = [readers EXCEPT ![r] = x],
           x.pc = "set" => since[x.ver] <= x.age,
           x.pc = "got" => since[x.ver] < EntryTTL + FetchTime,
           redisErrors' \in 0..MaxRedisErrors,
           UNCHANGED <<focus, stored, entry, writers, settled, since>>
    PROVE  AsideInv'
  <1> USE DEF AsideInv
  <1>1. readers \in [Readers -> Reader]
    BY DEF CacheAsideTypeOK, Reader
  <1>2. /\ readers' \in [Readers -> Reader] /\ readers'[r] = x
        /\ \A q \in Readers \ {r} : readers'[q] = readers[q]
    BY <1>1
  <1>3. CacheAsideTypeOK'
    BY <1>2 DEF CacheAsideTypeOK, Reader
  <1>4. NewestCurrent' /\ EntryIsFresh' /\ StaleOnlyByLateFill'
    BY DEF NewestCurrent, EntryIsFresh, StaleOnlyByLateFill
  <1>5. FillsAreFresh'
    BY <1>2 DEF FillsAreFresh
  <1>6. StalenessBounded'
    BY <1>2 DEF StalenessBounded
  <1> QED
    BY <1>3, <1>4, <1>5, <1>6

LEMMA GetKeeps ==
    ASSUME AsideInv, NEW r \in Readers, NEW key, Get(r, key)
    PROVE  AsideInv'
  <1> USE DEF AsideInv
  <1>1. redisErrors' \in 0..MaxRedisErrors
    BY ErrorsType DEF Get
  <1>2. UNCHANGED <<focus, stored, entry, writers, settled, since>>
    BY DEF Get
  <1>3. CASE /\ entry.present
             /\ readers' = [readers EXCEPT ![r] = [IdleReader EXCEPT !.pc = "got", !.ver = entry.ver]]
    <2> DEFINE x == [IdleReader EXCEPT !.pc = "got", !.ver = entry.ver]
    <2>1. entry.ver \in Writes /\ entry.age \in Nat /\ since[entry.ver] \in Nat
      BY AsideTypes DEF CacheAsideTypeOK
    <2>2. x \in Reader /\ x.pc = "got" /\ x.ver = entry.ver
      BY <2>1, AsideTypes DEF Reader
    <2>3. since[x.ver] < EntryTTL + FetchTime
      BY <1>3, <2>1, <2>2, CacheAsideAssumption DEF EntryIsFresh
    <2> HIDE DEF x
    <2>4. readers' = [readers EXCEPT ![r] = x]
      BY <1>3 DEF x
    <2> QED
      BY <1>1, <1>2, <2>2, <2>3, <2>4, ReaderKeeps
  <1>4. CASE readers' = [readers EXCEPT ![r].pc = "fetch"]
    <2> DEFINE x == [readers[r] EXCEPT !.pc = "fetch"]
    <2>1. readers' = [readers EXCEPT ![r] = x] /\ x \in Reader /\ x.pc = "fetch"
      BY <1>4 DEF CacheAsideTypeOK, Reader
    <2> HIDE DEF x
    <2> QED
      BY <1>1, <1>2, <2>1, ReaderKeeps
  <1> QED
    BY <1>3, <1>4 DEF Get

LEMMA FetchKeeps ==
    ASSUME AsideInv, NEW r \in Readers, Fetch(r)
    PROVE  AsideInv'
  <1> USE DEF AsideInv
  <1>1. /\ UNCHANGED <<focus, stored, entry, writers, settled, since>>
        /\ redisErrors' \in 0..MaxRedisErrors
    BY DEF Fetch, CacheAsideTypeOK
  <1>2. stored \in Writes /\ stored >= stored /\ 0 \in 0..FetchTime
    BY AsideTypes, CacheAsideAssumption DEF CacheAsideTypeOK
  <1>3. since[stored] = 0
    BY <1>2 DEF NewestCurrent
  <1>4. PICK x \in Reader : /\ readers' = [readers EXCEPT ![r] = x]
                            /\ x.pc = "set" => x.ver = stored /\ x.age = 0
                            /\ x.pc # "got"
    <2>1. CASE readers' = [readers EXCEPT ![r] = [pc |-> "set", ver |-> stored, age |-> 0]]
      <3> DEFINE x == [pc |-> "set", ver |-> stored, age |-> 0]
      <3>1. x \in Reader /\ x.pc = "set" /\ x.ver = stored /\ x.age = 0
        BY <1>2 DEF Reader
      <3> HIDE DEF x
      <3>2. readers' = [readers EXCEPT ![r] = x]
        BY <2>1 DEF x
      <3> QED
        BY <3>1, <3>2
    <2>2. CASE readers' = [readers EXCEPT ![r] = IdleReader]
      BY <2>2, AsideTypes DEF IdleReader
    <2> QED
      BY <2>1, <2>2 DEF Fetch
  <1>5. x.pc = "set" => since[x.ver] <= x.age
    BY <1>3, <1>4
  <1> QED
    BY <1>1, <1>4, <1>5, ReaderKeeps

LEMMA ReturnedKeeps ==
    ASSUME AsideInv, NEW r \in Readers, Returned(r)
    PROVE  AsideInv'
  <1>1. /\ UNCHANGED <<focus, stored, entry, writers, settled, since>>
        /\ redisErrors' \in 0..MaxRedisErrors
        /\ readers' = [readers EXCEPT ![r] = IdleReader]
    BY DEF Returned, AsideInv, CacheAsideTypeOK
  <1>2. IdleReader \in Reader /\ IdleReader.pc = "idle"
    BY AsideTypes DEF IdleReader
  <1> QED
    BY <1>1, <1>2, ReaderKeeps

LEMMA NewEntryType ==
    ASSUME NEW v \in Writes, NEW b \in BOOLEAN
    PROVE  [present |-> TRUE, ver |-> v, age |-> 0, late |-> b] \in Entry
  BY CacheAsideAssumption DEF Entry

\* The fill: what the reader fetched becomes the entry.
LEMMA SetKeeps ==
    ASSUME AsideInv, NEW r \in Readers, Set(r)
    PROVE  AsideInv'
  <1> USE DEF AsideInv
  <1> DEFINE x == [readers[r] EXCEPT !.pc = "got"]
  <1>1. /\ readers[r].pc = "set" /\ readers' = [readers EXCEPT ![r].pc = "got"]
        /\ UNCHANGED <<focus, stored, writers, settled, since>>
        /\ redisErrors' \in 0..MaxRedisErrors
    BY ErrorsType DEF Set
  <1>2. /\ readers \in [Readers -> Reader] /\ readers' = [readers EXCEPT ![r] = x]
        /\ x \in Reader /\ x.pc = "got" /\ x.ver = readers[r].ver
    BY <1>1 DEF CacheAsideTypeOK, Reader
  <1>3. /\ readers[r].ver \in Writes /\ readers[r].age \in 0..FetchTime
        /\ since[readers[r].ver] \in Nat /\ since[readers[r].ver] <= readers[r].age
    BY <1>1, AsideTypes DEF FillsAreFresh, CacheAsideTypeOK
  <1>4. since[x.ver] <= FetchTime /\ since[x.ver] < EntryTTL + FetchTime
    BY <1>2, <1>3, CacheAsideAssumption
  <1> HIDE DEF x
  <1>5. CASE UNCHANGED entry
    BY <1>1, <1>2, <1>4, <1>5, ReaderKeeps
  <1>6. CASE entry' = [present |-> TRUE, ver |-> readers[r].ver, age |-> 0,
                       late |-> readers[r].ver < settled]
    <2>1. /\ readers' \in [Readers -> Reader] /\ readers'[r] = x
          /\ \A q \in Readers \ {r} : readers'[q] = readers[q]
      BY <1>2
    <2> DEFINE b == readers[r].ver < settled
    <2>2. b \in BOOLEAN /\ entry' = [present |-> TRUE, ver |-> readers[r].ver, age |-> 0, late |-> b]
      BY <1>6
    <2> HIDE DEF b
    <2>3. entry' \in Entry
      BY <1>3, <2>2, NewEntryType, Zenon
    <2>4. entry'.present /\ entry'.ver = readers[r].ver /\ entry'.age = 0 /\ entry'.late = b
      BY <2>2
    <2>5. CacheAsideTypeOK'
      BY <1>1, <2>1, <2>3 DEF CacheAsideTypeOK, Reader, Entry
    <2>6. NewestCurrent'
      BY <1>1 DEF NewestCurrent
    <2>7. FillsAreFresh' /\ StalenessBounded'
      BY <1>1, <1>2, <1>4, <2>1 DEF FillsAreFresh, StalenessBounded
    <2>8. EntryIsFresh'
      BY <1>1, <1>2, <1>4, <2>4, CacheAsideAssumption DEF EntryIsFresh
    <2>9. StaleOnlyByLateFill'
      BY <1>1, <2>4 DEF StaleOnlyByLateFill, b
    <2> QED
      BY <2>5, <2>6, <2>7, <2>8, <2>9
  <1> QED
    BY <1>5, <1>6 DEF Set

\* No write is done with a key it should have deleted.
LEMMA WriteKeeps ==
    ASSUME AsideInv, NEW w \in Writers, NEW shows, NEW dels, NEW owed, owed \subseteq dels,
           WriteThrough(w, shows, dels, owed)
    PROVE  AsideInv'
  <1> USE DEF AsideInv
  <1>1. /\ stored < MaxWrites /\ stored' = stored + 1
        /\ since' = [v \in Writes |-> IF v = stored THEN 0 ELSE since[v]]
        /\ writers' = [writers EXCEPT ![w] =
               IF focus \in dels THEN [pc |-> "del", ver |-> stored + 1] ELSE IdleWriter]
        /\ settled' = settled
        /\ UNCHANGED <<focus, entry, readers, redisErrors>>
    BY DEF WriteThrough
  <1>2. stored \in Nat /\ stored \in Writes /\ stored + 1 \in Writes
    BY <1>1, CacheAsideAssumption DEF CacheAsideTypeOK, Writes
  <1>3. since' = since
    <2>1. stored >= stored
      BY <1>2
    <2>2. since[stored] = 0 /\ since \in [Writes -> 0..AgeCap]
      BY <1>2, <2>1 DEF NewestCurrent, CacheAsideTypeOK
    <2> QED
      BY <1>1, <1>2, <2>2
  <1>4. writers' \in [Writers -> Writer]
    <2>1. (IF focus \in dels THEN [pc |-> "del", ver |-> stored + 1] ELSE IdleWriter) \in Writer
      BY <1>2, AsideTypes DEF Writer
    <2> QED
      BY <1>1, <2>1 DEF CacheAsideTypeOK, Writer
  <1>5. CacheAsideTypeOK'
    BY <1>1, <1>2, <1>3, <1>4 DEF CacheAsideTypeOK, Writer
  <1>6. NewestCurrent'
    BY <1>1, <1>2, <1>3, AsideTypes DEF NewestCurrent
  <1>7. FillsAreFresh' /\ EntryIsFresh' /\ StalenessBounded' /\ StaleOnlyByLateFill'
    BY <1>1, <1>3 DEF FillsAreFresh, EntryIsFresh, StalenessBounded, StaleOnlyByLateFill
  <1> QED
    BY <1>5, <1>6, <1>7

LEMMA CachedWriteKeeps ==
    ASSUME AsideInv, NEW w \in Writers, CachedWrite(w)
    PROVE  AsideInv'
  BY WriteKeeps DEF CachedWrite, CreateDevice, UpdateDevice, DeleteDevice, UpdateDeviceStatus,
     UpdateDeviceStatuses, RecordMetric, RecordMetricsBatch, CreateAlert, UpdateAlertStatus,
     DeleteAlert, UpsertAlertRuleState, DeviceKeys, MetricKeys

LEMMA DelKeeps ==
    ASSUME AsideInv, NEW w \in Writers, Del(w)
    PROVE  AsideInv'
  <1> USE DEF AsideInv
  <1>1. /\ writers' = [writers EXCEPT ![w] = IdleWriter]
        /\ UNCHANGED <<focus, stored, readers, since>>
        /\ redisErrors' \in 0..MaxRedisErrors
    BY ErrorsType DEF Del
  <1>2. /\ entry' \in {NoEntry, entry} /\ settled' \in {settled, writers[w].ver}
        /\ entry' # NoEntry => settled' = settled
    BY DEF Del
  <1>3. writers[w].ver \in Writes /\ writers' \in [Writers -> Writer]
    BY <1>1, AsideTypes DEF CacheAsideTypeOK, Writer
  <1>4. entry' \in Entry /\ settled' \in Writes
    BY <1>2, <1>3, AsideTypes DEF CacheAsideTypeOK, Entry
  <1>5. CacheAsideTypeOK'
    BY <1>1, <1>3, <1>4 DEF CacheAsideTypeOK, Writer, Entry
  <1>6. NewestCurrent' /\ FillsAreFresh' /\ StalenessBounded'
    BY <1>1 DEF NewestCurrent, FillsAreFresh, StalenessBounded
  <1>7. EntryIsFresh' /\ StaleOnlyByLateFill'
    <2>1. CASE entry' = NoEntry
      BY <2>1 DEF EntryIsFresh, StaleOnlyByLateFill, NoEntry
    <2>2. CASE entry' = entry /\ settled' = settled
      BY <1>1, <2>2 DEF EntryIsFresh, StaleOnlyByLateFill
    <2> QED
      BY <1>2, <2>1, <2>2
  <1> QED
    BY <1>5, <1>6, <1>7

\* Time: whatever is superseded ages no faster than what holds it.
LEMMA CacheTickKeeps ==
    ASSUME AsideInv, CacheTick
    PROVE  AsideInv'
  <1> USE DEF AsideInv
  <1>1. /\ \A r \in Readers : /\ readers[r].pc # "got"
                              /\ readers[r].pc = "set" => readers[r].age < FetchTime
        /\ readers' = [r \in Readers |-> IF readers[r].pc = "set"
                                         THEN [readers[r] EXCEPT !.age = @ + 1] ELSE readers[r]]
        /\ since' = [v \in Writes |-> IF v < stored /\ since[v] < AgeCap
                                      THEN since[v] + 1 ELSE since[v]]
        /\ entry' = Aged
        /\ UNCHANGED <<focus, stored, writers, settled, redisErrors>>
    BY DEF CacheTick
  <1>2. \A r \in Readers : readers[r] \in Reader
    BY DEF CacheAsideTypeOK, Reader
  <1>3. \A r \in Readers :
           /\ readers'[r] \in Reader /\ readers'[r].pc = readers[r].pc
           /\ readers'[r].ver = readers[r].ver
           /\ readers[r].pc = "set" => readers'[r].age = readers[r].age + 1
    BY <1>1, <1>2, CacheAsideAssumption DEF Reader
  <1>4. readers' \in [Readers -> Reader]
    BY <1>1, <1>3
  <1>5. \A v \in Writes : since[v] \in 0..AgeCap /\ v \in Nat /\ stored \in Nat
    BY AsideTypes DEF CacheAsideTypeOK
  <1>6. \A v \in Writes : /\ since'[v] \in 0..AgeCap
                          /\ since'[v] <= since[v] + 1 /\ since[v] <= since'[v]
                          /\ v >= stored => since'[v] = since[v]
    BY <1>1, <1>5, AsideTypes
  <1>7. since' \in [Writes -> 0..AgeCap]
    BY <1>1, <1>6
  <1>8. \/ entry' = NoEntry
        \/ /\ entry.present /\ entry.age + 1 < EntryTTL
           /\ entry' = [entry EXCEPT !.age = @ + 1]
    BY <1>1 DEF Aged
  <1>9. entry \in Entry
    BY DEF CacheAsideTypeOK, Entry
  <1>10. entry' \in Entry
    BY <1>8, <1>9, AsideTypes, CacheAsideAssumption DEF Entry
  <1>11. CacheAsideTypeOK'
    BY <1>1, <1>4, <1>7, <1>10 DEF CacheAsideTypeOK, Reader, Entry
  <1>12. NewestCurrent'
    BY <1>1, <1>6 DEF NewestCurrent
  <1>13. FillsAreFresh'
    <2> SUFFICES ASSUME NEW r \in Readers, readers'[r].pc = "set"
                 PROVE  since'[readers'[r].ver] <= readers'[r].age
      BY DEF FillsAreFresh
    <2>1. /\ readers[r].pc = "set" /\ readers[r].ver \in Writes /\ readers[r].age \in Nat
          /\ readers'[r].ver = readers[r].ver /\ readers'[r].age = readers[r].age + 1
      BY <1>2, <1>3 DEF Reader
    <2>2. /\ since[readers[r].ver] <= readers[r].age
          /\ since[readers[r].ver] \in Nat /\ since'[readers[r].ver] \in Nat
          /\ since'[readers[r].ver] <= since[readers[r].ver] + 1
      BY <1>5, <1>6, <2>1, AsideTypes DEF FillsAreFresh
    <2> QED
      BY <2>1, <2>2
  <1>14. StalenessBounded'
    BY <1>1, <1>3 DEF StalenessBounded
  <1>15. CASE entry' = NoEntry
    <2>1. EntryIsFresh' /\ StaleOnlyByLateFill'
      BY <1>15 DEF EntryIsFresh, StaleOnlyByLateFill, NoEntry
    <2> QED
      BY <1>11, <1>12, <1>13, <1>14, <2>1
  <1>16. CASE /\ entry.present /\ entry.age + 1 < EntryTTL
              /\ entry' = [entry EXCEPT !.age = @ + 1]
    <2>1. /\ entry'.ver = entry.ver /\ entry'.age = entry.age + 1 /\ entry'.late = entry.late
          /\ entry.ver \in Writes /\ entry.age \in Nat
      BY <1>9, <1>16 DEF Entry
    <2>2. /\ since[entry.ver] <= entry.age + FetchTime
          /\ since[entry.ver] \in Nat /\ since'[entry.ver] \in Nat
          /\ since'[entry.ver] <= since[entry.ver] + 1
      BY <1>5, <1>6, <1>16, <2>1, AsideTypes DEF EntryIsFresh
    <2>3. since'[entry'.ver] <= entry'.age + FetchTime /\ entry'.age < EntryTTL
      BY <1>16, <2>1, <2>2, CacheAsideAssumption
    <2>4. EntryIsFresh'
      BY <2>3 DEF EntryIsFresh
    <2>5. StaleOnlyByLateFill'
      BY <1>1, <1>16, <2>1 DEF StaleOnlyByLateFill
    <2> QED
      BY <1>11, <1>12, <1>13, <1>14, <2>4, <2>5
  <1> QED
    BY <1>8, <1>15, <1>16

LEMMA AsideNext == AsideInv /\ [CacheAsideNext]_cacheAsideVars => AsideInv'
  <1> SUFFICES ASSUME AsideInv, [CacheAsideNext]_cacheAsideVars PROVE AsideInv'
    OBVIOUS
  <1>1. CASE UNCHANGED cacheAsideVars
    BY <1>1 DEF cacheAsideVars, AsideInv, CacheAsideTypeOK, NewestCurrent, FillsAreFresh,
       EntryIsFresh, StalenessBounded, StaleOnlyByLateFill
  <1>2. ASSUME NEW r \in Readers, CachedRead(r) PROVE AsideInv'
    BY <1>2, GetKeeps DEF CachedRead, GetDevices, GetEnabledDevices, GetDevice,
       GetDashboardStats, GetLatestMetrics, GetLatestMetricForDevice, GetAlertCounts,
       GetAlertRuleState
  <1>3. ASSUME NEW r \in Readers, Fetch(r) \/ Set(r) \/ Returned(r) PROVE AsideInv'
    BY <1>3, FetchKeeps, SetKeeps, ReturnedKeeps
  <1>4. ASSUME NEW w \in Writers, CachedWrite(w) \/ Del(w) PROVE AsideInv'
    BY <1>4, CachedWriteKeeps, DelKeeps
  <1>5. CASE CacheTick
    BY <1>5, CacheTickKeeps
  <1> QED
    BY <1>1, <1>2, <1>3, <1>4, <1>5 DEF CacheAsideNext

-----------------------------------------------------------------------------
(***************************************************************************)
(* The rule cache.                                                         *)
(***************************************************************************)
Load == [pc : {"idle", "rules", "conds", "store", "got"}, gen : Nat, view : View,
         floor : Versions]
Cache == [view : View, loaded : BOOLEAN, age : 0..RuleTTL, gen : Nat]
Edit == [pc : {"idle", "toggle", "changed"}, ver : Versions]

\* No edit and no acknowledgement is ahead of the database, whose two tables
\* are written together.
Committed == /\ conds = rule.ver /\ acked <= rule.ver
             /\ \A h \in Editors : edits[h].ver <= rule.ver

\* What is kept is as new as the newest acknowledged edit and was read at
\* most one load before it was stored.
KeptIsNew ==
    cache.loaded => /\ cache.view.row >= acked /\ cache.view.conds >= acked
                    /\ cache.view.age <= cache.age + LoadTime

\* What a load has read so far is as new as its floor, and as the newest
\* acknowledged edit as long as it may be kept.
LoadIsNew(l) ==
    /\ l.floor <= acked /\ l.gen <= cache.gen
    /\ l.pc \in {"conds", "store"} =>
           /\ l.view.age <= LoadTime /\ l.view.row >= l.floor
           /\ l.gen = cache.gen => l.view.row >= acked
    /\ l.pc = "store" => /\ l.view.conds >= l.floor
                         /\ l.gen = cache.gen => l.view.conds >= acked
    /\ l.pc = "got" => /\ l.view.row >= l.floor /\ l.view.conds >= l.floor
                       /\ l.view.age < RuleTTL + LoadTime
    /\ l.pc = "rules" => l.view.age = 0

RuleInv == /\ RuleCacheTypeOK /\ Committed /\ KeptIsNew
           /\ \A e \in Evaluations : LoadIsNew(loads[e])

LEMMA RuleTypes ==
    /\ 0 \in Versions /\ NoView \in View /\ IdleLoad \in Load /\ IdleEdit \in Edit
    /\ RuleTTL + LoadTime \in Nat /\ RuleTTL \in Nat /\ LoadTime \in Nat /\ RuleTTL > 0
    /\ \A v \in Versions : v \in Nat
  <1>1. 0 \in Versions /\ \A v \in Versions : v \in Nat
    BY RuleCacheAssumption DEF Versions
  <1>2. RuleTTL + LoadTime \in Nat /\ RuleTTL \in Nat /\ LoadTime \in Nat /\ RuleTTL > 0
    BY RuleCacheAssumption
  <1>3. NoView \in View
    BY <1>1, <1>2 DEF NoView, View
  <1>4. IdleLoad \in Load /\ IdleEdit \in Edit
    BY <1>1, <1>3 DEF IdleLoad, Load, IdleEdit, Edit
  <1> QED
    BY <1>1, <1>2, <1>3, <1>4

\* What an invalidated cache is.
LEMMA InvalidateRecord ==
    ASSUME NEW c \in Cache
    PROVE  /\ Invalidate(c) \in Cache /\ c.gen \in Nat
           /\ Invalidate(c).gen = c.gen + 1
  <1> DEFINE g == c.gen + 1
             n == 0
             b == FALSE
             d == [c EXCEPT !.gen = g, !.loaded = b, !.age = n]
  <1>1. Invalidate(c) = d
    BY DEF Invalidate, Cache
  <1>2. c.gen \in Nat /\ g \in Nat /\ n \in 0..RuleTTL
    BY RuleTypes DEF Cache
  <1>3. b \in BOOLEAN
    OBVIOUS
  <1> HIDE DEF g, n, b
  <1>4. d \in Cache
    BY <1>2, <1>3 DEF Cache
  <1>5. d.gen = g
    BY DEF Cache
  <1> QED
    BY <1>1, <1>2, <1>4, <1>5 DEF g

LEMMA IdleIsNew ==
    ASSUME RuleCacheTypeOK
    PROVE  LoadIsNew(IdleLoad)
  BY RuleTypes DEF LoadIsNew, IdleLoad, RuleCacheTypeOK

LEMMA RuleInit == RuleCacheInit => RuleInv
  <1> SUFFICES ASSUME RuleCacheInit PROVE RuleInv
    OBVIOUS
  <1>1. rule \in [present : BOOLEAN, ver : Versions] /\ rule.ver = 0
    BY RuleTypes DEF RuleCacheInit
  <1>2. cache \in Cache /\ ~ cache.loaded
    BY RuleTypes DEF RuleCacheInit, Cache
  <1>3. loads \in [Evaluations -> Load] /\ edits \in [Editors -> Edit]
    BY RuleTypes DEF RuleCacheInit
  <1>4. RuleCacheTypeOK
    BY <1>1, <1>2, <1>3, RuleTypes DEF RuleCacheInit, RuleCacheTypeOK, Cache, Load, Edit
  <1>5. Committed
    BY <1>1 DEF RuleCacheInit, Committed, IdleEdit
  <1>6. KeptIsNew
    BY <1>2 DEF KeptIsNew
  <1>7. \A e \in Evaluations : LoadIsNew(loads[e])
    BY <1>4, IdleIsNew DEF RuleCacheInit
  <1> QED
    BY <1>4, <1>5, <1>6, <1>7 DEF RuleInv

\* A step of one evaluation that leaves the cache alone.
LEMMA LoadKeeps ==
    ASSUME RuleInv, NEW e \in Evaluations, NEW l \in Load, LoadIsNew(l),
           loads' = [loads EXCEPT ![e] = l], UNCHANGED <<rule, conds, cache, edits, acked>>
    PROVE  RuleInv'
  <1> USE DEF RuleInv
  <1>1. loads \in [Evaluations -> Load]
    BY DEF RuleCacheTypeOK, Load
  <1>2. /\ loads' \in [Evaluations -> Load] /\ loads'[e] = l
        /\ \A f \in Evaluations \ {e} : loads'[f] = loads[f]
    BY <1>1
  <1>3. RuleCacheTypeOK'
    BY <1>2 DEF RuleCacheTypeOK, Load
  <1>4. Committed' /\ KeptIsNew'
    BY DEF Committed, KeptIsNew
  <1>5. \A f \in Evaluations : LoadIsNew(loads'[f])
    BY <1>2
  <1>6. \A f \in Evaluations : LoadIsNew(loads[f])'
    BY <1>5 DEF LoadIsNew
  <1> QED
    BY <1>3, <1>4, <1>6

LEMMA ActiveRulesKeeps ==
    ASSUME RuleInv, NEW e \in Evaluations, ActiveRules(e)
    PROVE  RuleInv'
  <1> USE DEF RuleInv
  <1> DEFINE p == IF CacheFresh THEN "got" ELSE "rules"
             v == IF CacheFresh THEN cache.view ELSE NoView
             x == [IdleLoad EXCEPT !.floor = acked, !.gen = cache.gen, !.pc = p, !.view = v]
  <1>1. loads' = [loads EXCEPT ![e] = x] /\ UNCHANGED <<rule, conds, cache, edits, acked>>
    BY DEF ActiveRules
  <1>2. /\ acked \in Versions /\ cache.gen \in Nat /\ cache.view \in View
        /\ cache.age \in Nat
    BY DEF RuleCacheTypeOK
  <1>3. p \in {"idle", "rules", "conds", "store", "got"} /\ v \in View
    BY <1>2, RuleTypes
  <1>4. PICK l : l = x
    OBVIOUS
  <1>5. \/ CacheFresh /\ p = "got" /\ v = cache.view
        \/ p = "rules" /\ v = NoView
    OBVIOUS
  <1> HIDE DEF p, v
  <1>6. /\ l \in Load /\ l.pc = p /\ l.gen = cache.gen /\ l.view = v
        /\ l.floor = acked
    BY <1>2, <1>3, <1>4 DEF IdleLoad, Load
  <1>7. LoadIsNew(l)
    <2>1. CASE CacheFresh /\ p = "got" /\ v = cache.view
      <3>1. /\ cache.view.row >= acked /\ cache.view.conds >= acked
            /\ cache.view.age <= cache.age + LoadTime /\ cache.age < RuleTTL
            /\ cache.view.age \in Nat
        BY <1>2, <2>1, RuleTypes DEF CacheFresh, KeptIsNew, View
      <3>2. cache.view.age < RuleTTL + LoadTime
        BY <1>2, <3>1, RuleTypes
      <3> QED
        BY <1>2, <1>6, <2>1, <3>1, <3>2, RuleTypes DEF LoadIsNew
    <2>2. CASE p = "rules" /\ v = NoView
      BY <1>2, <1>6, <2>2, RuleTypes DEF LoadIsNew, NoView
    <2> QED
      BY <1>5, <2>1, <2>2
  <1>8. loads' = [loads EXCEPT ![e] = l]
    BY <1>1, <1>4
  <1> QED
    BY <1>1, <1>6, <1>7, <1>8, LoadKeeps

LEMMA LoadRulesKeeps ==
    ASSUME RuleInv, NEW e \in Evaluations, LoadRules(e)
    PROVE  RuleInv'
  <1> USE DEF RuleInv
  <1>1. loads[e] \in Load /\ loads[e].pc = "rules" /\ LoadIsNew(loads[e])
    BY DEF LoadRules, RuleCacheTypeOK, Load
  <1> DEFINE l == [loads[e] EXCEPT !.pc = "conds", !.view = [@ EXCEPT !.row = rule.ver]]
  <1>2. loads' = [loads EXCEPT ![e] = l] /\ UNCHANGED <<rule, conds, cache, edits, acked>>
    BY DEF LoadRules, RuleCacheTypeOK
  <1>3. rule.ver \in Versions /\ acked \in Versions /\ acked <= rule.ver
    BY DEF RuleCacheTypeOK, Committed
  <1>4. /\ l \in Load /\ l.pc = "conds" /\ l.view.row = rule.ver /\ l.gen = loads[e].gen
        /\ l.floor = loads[e].floor /\ l.view.age = loads[e].view.age
    BY <1>1, <1>3 DEF Load, View
  <1>5. loads[e].view.age = 0 /\ loads[e].floor <= acked /\ loads[e].gen <= cache.gen
    BY <1>1 DEF LoadIsNew
  <1>6. loads[e].floor \in Nat /\ rule.ver \in Nat /\ acked \in Nat
    BY <1>1, <1>3, RuleTypes DEF Load
  <1> HIDE DEF l
  <1>7. LoadIsNew(l)
    BY <1>3, <1>4, <1>5, <1>6, RuleTypes DEF LoadIsNew
  <1> QED
    BY <1>2, <1>4, <1>7, LoadKeeps

LEMMA LoadConditionsKeeps ==
    ASSUME RuleInv, NEW e \in Evaluations, LoadConditions(e)
    PROVE  RuleInv'
  <1> USE DEF RuleInv
  <1>1. loads[e] \in Load /\ loads[e].pc = "conds" /\ LoadIsNew(loads[e])
    BY DEF LoadConditions, RuleCacheTypeOK, Load
  <1> DEFINE l == [loads[e] EXCEPT !.pc = "store", !.view = [@ EXCEPT !.conds = conds]]
  <1>2. loads' = [loads EXCEPT ![e] = l] /\ UNCHANGED <<rule, conds, cache, edits, acked>>
    BY DEF LoadConditions, RuleCacheTypeOK
  <1>3. conds \in Versions /\ acked \in Versions /\ acked <= conds
    BY DEF RuleCacheTypeOK, Committed
  <1>4. /\ l \in Load /\ l.pc = "store" /\ l.view.conds = conds /\ l.gen = loads[e].gen
        /\ l.floor = loads[e].floor /\ l.view.age = loads[e].view.age
        /\ l.view.row = loads[e].view.row
    BY <1>1, <1>3 DEF Load, View
  <1>5. loads[e].floor \in Nat /\ conds \in Nat /\ acked \in Nat
    BY <1>1, <1>3, RuleTypes DEF Load
  <1> HIDE DEF l
  <1>6. LoadIsNew(l)
    BY <1>1, <1>3, <1>4, <1>5 DEF LoadIsNew
  <1> QED
    BY <1>2, <1>4, <1>6, LoadKeeps

LEMMA LoadEndsKeeps ==
    ASSUME RuleInv, NEW e \in Evaluations, LoadFails(e) \/ Evaluated(e)
    PROVE  RuleInv'
  <1>1. loads' = [loads EXCEPT ![e] = IdleLoad] /\ UNCHANGED <<rule, conds, cache, edits, acked>>
    BY DEF LoadFails, Evaluated
  <1> QED
    BY <1>1, LoadKeeps, IdleIsNew, RuleTypes DEF RuleInv

LEMMA StoreRulesKeeps ==
    ASSUME RuleInv, NEW e \in Evaluations, StoreRules(e)
    PROVE  RuleInv'
  <1> USE DEF RuleInv
  <1>1. loads[e] \in Load /\ loads[e].pc = "store" /\ LoadIsNew(loads[e])
    BY DEF StoreRules, RuleCacheTypeOK, Load
  <1> DEFINE l == [loads[e] EXCEPT !.pc = "got"]
  <1>2. loads' = [loads EXCEPT ![e] = l] /\ UNCHANGED <<rule, conds, edits, acked>>
    BY DEF StoreRules, RuleCacheTypeOK
  <1>3. /\ l \in Load /\ l.pc = "got" /\ l.view = loads[e].view /\ l.gen = loads[e].gen
        /\ l.floor = loads[e].floor
    BY <1>1 DEF Load
  <1>4. /\ loads[e].view \in View /\ loads[e].view.age \in Nat
        /\ loads[e].view.age <= LoadTime
    BY <1>1 DEF Load, View, LoadIsNew
  <1>5. loads[e].view.age < RuleTTL + LoadTime
    BY <1>4, RuleTypes
  <1> HIDE DEF l
  <1>6. LoadIsNew(l)
    BY <1>1, <1>3, <1>5 DEF LoadIsNew
  <1>7. CASE UNCHANGED cache
    BY <1>2, <1>3, <1>6, <1>7, LoadKeeps
  <1>8. CASE /\ cache.gen = loads[e].gen
             /\ cache' = [cache EXCEPT !.view = loads[e].view, !.loaded = TRUE, !.age = 0]
    <2>1. cache \in Cache /\ loads \in [Evaluations -> Load]
      BY DEF RuleCacheTypeOK, Cache, Load
    <2>2. /\ cache' \in Cache /\ cache'.gen = cache.gen /\ cache'.view = loads[e].view
          /\ cache'.age = 0
      <3>1. PICK b \in BOOLEAN : b = TRUE
        OBVIOUS
      <3>2. cache' = [cache EXCEPT !.view = loads[e].view, !.loaded = b, !.age = 0]
        BY <1>8, <3>1, Zenon
      <3>3. 0 \in 0..RuleTTL
        BY RuleTypes
      <3> QED
        BY <1>4, <2>1, <3>2, <3>3 DEF Cache
    <2>3. /\ loads' \in [Evaluations -> Load] /\ loads'[e] = l
          /\ \A f \in Evaluations \ {e} : loads'[f] = loads[f]
      BY <1>2, <1>3, <2>1
    <2>4. RuleCacheTypeOK'
      BY <1>2, <2>2, <2>3 DEF RuleCacheTypeOK, Cache, Load
    <2>5. Committed'
      BY <1>2 DEF Committed
    <2>6. KeptIsNew'
      BY <1>1, <1>2, <1>4, <1>8, <2>2, RuleTypes DEF KeptIsNew, LoadIsNew
    <2>7. \A f \in Evaluations : LoadIsNew(loads'[f])
      BY <1>6, <2>3
    <2>8. \A f \in Evaluations : LoadIsNew(loads[f])'
      BY <1>2, <2>2, <2>7 DEF LoadIsNew
    <2> QED
      BY <2>4, <2>5, <2>6, <2>8
  <1> QED
    BY <1>7, <1>8 DEF StoreRules

\* A commit moves the database ahead and nothing else.
LEMMA CommitKeeps ==
    ASSUME RuleInv, NEW h \in Editors, NEW present \in BOOLEAN,
           NEW pc \in {"idle", "changed"}, Commit(h, present, pc)
    PROVE  RuleInv'
  <1> USE DEF RuleInv
  <1> DEFINE n == rule.ver + 1
             x == [pc |-> pc, ver |-> IF pc = "idle" THEN 0 ELSE n]
  <1>1. /\ rule.ver < MaxEdits /\ rule' = [present |-> present, ver |-> n] /\ conds' = n
        /\ edits' = [edits EXCEPT ![h] = x] /\ UNCHANGED <<cache, loads, acked>>
    BY DEF Commit, NextVersion
  <1>2. rule.ver \in Nat /\ n \in Versions /\ n \in Nat /\ rule.ver <= n
    BY <1>1, RuleCacheAssumption DEF RuleCacheTypeOK, Versions
  <1>3. x \in Edit /\ x.ver <= n
    BY <1>2, RuleTypes DEF Edit
  <1>4. edits \in [Editors -> Edit]
    BY DEF RuleCacheTypeOK, Edit
  <1>5. rule' \in [present : BOOLEAN, ver : Versions] /\ rule'.ver = n
    BY <1>1, <1>2
  <1> HIDE DEF n, x
  <1>6. /\ edits' \in [Editors -> Edit] /\ edits'[h] = x
        /\ \A g \in Editors \ {h} : edits'[g] = edits[g]
    BY <1>1, <1>3, <1>4
  <1>7. RuleCacheTypeOK'
    BY <1>1, <1>2, <1>5, <1>6 DEF RuleCacheTypeOK, Edit
  <1>8. Committed'
    <2>1. acked \in Nat /\ \A g \in Editors : edits[g].ver \in Nat
      BY <1>4, RuleTypes DEF RuleCacheTypeOK, Edit
    <2> QED
      BY <1>1, <1>2, <1>3, <1>5, <1>6, <2>1 DEF Committed
  <1>9. KeptIsNew' /\ \A e \in Evaluations : LoadIsNew(loads[e])'
    BY <1>1 DEF KeptIsNew, LoadIsNew
  <1> QED
    BY <1>7, <1>8, <1>9

LEMMA ToggleReadKeeps ==
    ASSUME RuleInv, NEW h \in Editors, ToggleRead(h)
    PROVE  RuleInv'
  <1> USE DEF RuleInv
  <1>1. edits' = [edits EXCEPT ![h].pc = "toggle"] /\ UNCHANGED <<rule, conds, cache, loads, acked>>
    BY DEF ToggleRead
  <1>2. edits' \in [Editors -> Edit] /\ \A g \in Editors : edits'[g].ver = edits[g].ver
    BY <1>1 DEF RuleCacheTypeOK, Edit
  <1>3. RuleCacheTypeOK'
    BY <1>1, <1>2 DEF RuleCacheTypeOK, Edit
  <1>4. Committed'
    BY <1>1, <1>2 DEF Committed
  <1>5. KeptIsNew' /\ \A e \in Evaluations : LoadIsNew(loads[e])'
    BY <1>1 DEF KeptIsNew, LoadIsNew
  <1> QED
    BY <1>3, <1>4, <1>5

\* The acknowledgement: the generation moves with it, so that no load begun
\* before it can be kept after it.
LEMMA ChangedKeeps ==
    ASSUME RuleInv, NEW h \in Editors, Changed(h)
    PROVE  RuleInv'
  <1> USE DEF RuleInv
  <1>1. edits' = [edits EXCEPT ![h] = IdleEdit] /\ UNCHANGED <<rule, conds, loads>>
    BY DEF Changed
  <1>2. /\ edits' \in [Editors -> Edit]
        /\ \A g \in Editors : edits'[g].ver = edits[g].ver \/ edits'[g].ver = 0
    BY <1>1, RuleTypes DEF RuleCacheTypeOK, Edit, IdleEdit
  <1>3. /\ edits[h].ver \in Versions /\ rule.ver \in Nat /\ acked \in Versions
        /\ edits[h].ver <= rule.ver /\ acked <= rule.ver
    BY RuleTypes DEF RuleCacheTypeOK, Edit, Committed
  <1>4. CASE UNCHANGED <<cache, acked>>
    <2>1. RuleCacheTypeOK'
      BY <1>1, <1>2, <1>4 DEF RuleCacheTypeOK, Edit
    <2>2. Committed'
      BY <1>1, <1>2, <1>3, <1>4 DEF Committed
    <2>3. KeptIsNew' /\ \A e \in Evaluations : LoadIsNew(loads[e])'
      BY <1>1, <1>4 DEF KeptIsNew, LoadIsNew
    <2> QED
      BY <2>1, <2>2, <2>3
  <1>5. CASE /\ cache' = Invalidate(cache)
             /\ acked' = IF edits[h].ver > acked THEN edits[h].ver ELSE acked
    <2>1. cache \in Cache
      BY DEF RuleCacheTypeOK, Cache
    <2>2. cache' \in Cache /\ cache'.gen = cache.gen + 1 /\ cache.gen \in Nat
      BY <1>5, <2>1, InvalidateRecord
    <2>3. ~ cache'.loaded
      BY <1>5, <2>1 DEF Cache, Invalidate
    <2>4. acked' \in Versions /\ acked' <= rule.ver /\ acked <= acked'
      BY <1>3, <1>5, RuleTypes
    <2>5. RuleCacheTypeOK'
      BY <1>1, <1>2, <2>2, <2>4 DEF RuleCacheTypeOK, Edit, Cache
    <2>6. Committed'
      BY <1>1, <1>2, <1>3, <2>4 DEF Committed
    <2>7. KeptIsNew'
      BY <2>3 DEF KeptIsNew
    <2>8. ASSUME NEW e \in Evaluations PROVE LoadIsNew(loads[e])'
      <3>1. /\ loads[e].gen \in Nat /\ loads[e].floor \in Nat /\ LoadIsNew(loads[e])
            /\ loads[e].gen <= cache.gen /\ loads[e].floor <= acked
        BY RuleTypes DEF RuleCacheTypeOK, LoadIsNew
      <3>2. /\ loads[e].gen # cache'.gen /\ loads[e].gen <= cache'.gen
            /\ loads[e].floor <= acked'
        BY <1>3, <2>2, <2>4, <3>1, RuleTypes
      <3> QED
        BY <1>1, <3>1, <3>2 DEF LoadIsNew
    <2> QED
      BY <2>5, <2>6, <2>7, <2>8
  <1> QED
    BY <1>4, <1>5 DEF Changed

LEMMA OlderRulesType ==
    ASSUME NEW v \in View
    PROVE  /\ OlderRules(v) \in View /\ OlderRules(v).row = v.row
           /\ OlderRules(v).conds = v.conds /\ OlderRules(v).age <= v.age + 1
           /\ v.age \in Nat /\ OlderRules(v).age \in 0..(RuleTTL + LoadTime)
  BY RuleTypes DEF OlderRules, View

LEMMA RuleTickKeeps ==
    ASSUME RuleInv, RuleTick
    PROVE  RuleInv'
  <1> USE DEF RuleInv
  <1>1. /\ \A e \in Evaluations : /\ loads[e].pc \in {"conds", "store"} => loads[e].view.age < LoadTime
                                  /\ loads[e].pc # "got"
        /\ cache' = [cache EXCEPT !.age = IF @ = RuleTTL THEN @ ELSE @ + 1,
                                  !.view = IF cache.loaded THEN OlderRules(@) ELSE @]
        /\ loads' = [e \in Evaluations |->
               IF loads[e].pc \in {"conds", "store"}
               THEN [loads[e] EXCEPT !.view = OlderRules(@)] ELSE loads[e]]
        /\ UNCHANGED <<rule, conds, edits, acked>>
    BY DEF RuleTick
  <1>2. cache \in Cache /\ \A e \in Evaluations : loads[e] \in Load
    BY DEF RuleCacheTypeOK, Cache, Load
  <1>3. \A e \in Evaluations : loads[e].view \in View
    BY <1>2 DEF Load
  <1>4. ASSUME NEW e \in Evaluations
        PROVE  /\ loads'[e] \in Load /\ loads'[e].pc = loads[e].pc
               /\ loads'[e].gen = loads[e].gen /\ loads'[e].floor = loads[e].floor
               /\ loads'[e].view.row = loads[e].view.row
               /\ loads'[e].view.conds = loads[e].view.conds
               /\ loads[e].pc \in {"conds", "store"} => loads'[e].view.age <= LoadTime
               /\ loads[e].pc = "rules" => loads'[e].view.age = loads[e].view.age
    <2>1. CASE loads[e].pc \in {"conds", "store"}
      <3>1. loads'[e] = [loads[e] EXCEPT !.view = OlderRules(loads[e].view)]
        BY <1>1, <2>1
      <3>2. loads'[e].view = OlderRules(loads[e].view)
        BY <1>2, <3>1 DEF Load
      <3>3. /\ loads'[e] \in Load /\ loads'[e].pc = loads[e].pc
            /\ loads'[e].gen = loads[e].gen /\ loads'[e].floor = loads[e].floor
        BY <1>2, <1>3, <3>1, OlderRulesType DEF Load
      <3>4. /\ loads'[e].view.row = loads[e].view.row
            /\ loads'[e].view.conds = loads[e].view.conds
            /\ loads'[e].view.age <= loads[e].view.age + 1
            /\ loads[e].view.age \in Nat /\ loads'[e].view.age \in Nat
        BY <1>3, <3>2, OlderRulesType, RuleTypes
      <3>5. loads'[e].view.age <= LoadTime
        BY <1>1, <2>1, <3>4, RuleTypes
      <3> QED
        BY <2>1, <3>3, <3>4, <3>5
    <2>2. CASE loads[e].pc \notin {"conds", "store"}
      BY <1>1, <1>2, <2>2
    <2> QED
      BY <2>1, <2>2
  <1>5. loads' \in [Evaluations -> Load]
    BY <1>1, <1>4
  <1>6. PICK v \in View : /\ v = IF cache.loaded THEN OlderRules(cache.view) ELSE cache.view
                          /\ v.row = cache.view.row /\ v.conds = cache.view.conds
                          /\ v.age <= cache.view.age + 1 /\ cache.view.age \in Nat
                          /\ v.age \in Nat /\ v.age <= RuleTTL + LoadTime
    <2>1. cache.view \in View
      BY <1>2 DEF Cache
    <2>2. CASE cache.loaded
      BY <2>1, <2>2, OlderRulesType, RuleTypes
    <2>3. CASE ~ cache.loaded
      BY <2>1, <2>3, RuleTypes DEF View
    <2> QED
      BY <2>2, <2>3
  <1>7. PICK a \in 0..RuleTTL : a = IF cache.age = RuleTTL THEN cache.age ELSE cache.age + 1
    BY <1>2, RuleTypes DEF Cache
  <1>8. cache' = [cache EXCEPT !.age = a, !.view = v]
    BY <1>1, <1>2, <1>6, <1>7 DEF Cache
  <1>9. /\ cache' \in Cache /\ cache'.gen = cache.gen /\ cache'.age = a /\ cache'.view = v
        /\ cache'.loaded = cache.loaded
    BY <1>2, <1>8 DEF Cache
  <1>10. RuleCacheTypeOK'
    BY <1>1, <1>5, <1>9 DEF RuleCacheTypeOK, Cache, Load
  <1>11. Committed'
    BY <1>1 DEF Committed
  <1>12. KeptIsNew'
    <2> SUFFICES ASSUME cache'.loaded
                 PROVE  /\ cache'.view.row >= acked' /\ cache'.view.conds >= acked'
                        /\ cache'.view.age <= cache'.age + LoadTime
      BY DEF KeptIsNew
    <2>1. /\ cache.view.row >= acked /\ cache.view.conds >= acked
          /\ cache.view.age <= cache.age + LoadTime
      BY <1>9 DEF KeptIsNew
    <2>2. v.age <= a + LoadTime
      BY <1>2, <1>6, <1>7, <2>1, RuleTypes DEF Cache
    <2> QED
      BY <1>1, <1>6, <1>9, <2>1, <2>2
  <1>13. \A e \in Evaluations : LoadIsNew(loads[e])'
    BY <1>1, <1>4, <1>9 DEF LoadIsNew
  <1> QED
    BY <1>10, <1>11, <1>12, <1>13

LEMMA RuleNext == RuleInv /\ [RuleCacheNext]_ruleCacheVars => RuleInv'
  <1> SUFFICES ASSUME RuleInv, [RuleCacheNext]_ruleCacheVars PROVE RuleInv'
    OBVIOUS
  <1>1. CASE UNCHANGED ruleCacheVars
    BY <1>1 DEF ruleCacheVars, RuleInv, RuleCacheTypeOK, Committed, KeptIsNew, LoadIsNew
  <1>2. ASSUME NEW e \in Evaluations,
               \/ ActiveRules(e) \/ LoadRules(e) \/ LoadConditions(e)
               \/ LoadFails(e) \/ StoreRules(e) \/ Evaluated(e)
        PROVE  RuleInv'
    BY <1>2, ActiveRulesKeeps, LoadRulesKeeps, LoadConditionsKeeps, LoadEndsKeeps, StoreRulesKeeps
  <1>3. ASSUME NEW h \in Editors, \/ CreateRule(h) \/ UpdateRule(h) \/ DeleteRule(h) \/ ToggleWrite(h)
        PROVE  RuleInv'
    <2>1. TRUE \in BOOLEAN /\ FALSE \in BOOLEAN /\ rule.present \in BOOLEAN
      BY DEF RuleInv, RuleCacheTypeOK
    <2>2. \E present \in BOOLEAN, pc \in {"idle", "changed"} : Commit(h, present, pc)
      BY <1>3, <2>1 DEF CreateRule, UpdateRule, DeleteRule, ToggleWrite, CreateAlertRule,
         UpdateAlertRule, DeleteAlertRule, ToggleAlertRule, ReadBack
    <2> QED
      BY <2>2, CommitKeeps
  <1>4. ASSUME NEW h \in Editors, ToggleRead(h) \/ Changed(h) PROVE RuleInv'
    BY <1>4, ToggleReadKeeps, ChangedKeeps
  <1>5. CASE RuleTick
    BY <1>5, RuleTickKeeps
  <1> QED
    BY <1>1, <1>2, <1>3, <1>4, <1>5 DEF RuleCacheNext

-----------------------------------------------------------------------------
\* For every number of concurrent readers, writers, evaluations and editors and
\* every time to live: what is read through Redis was superseded at most the
\* time to live plus one fill ago, a stale entry can only be a late fill, and an
\* evaluation that starts after an acknowledged edit of its instance sees it
\* (cached_database.go, rule_cache.go).
THEOREM CachesFreshAlways == CacheAsideSpec /\ RuleCacheSpec => []CachesFresh
  <1>1. AsideInv /\ RuleInv => CachesFresh
    BY DEF AsideInv, RuleInv, LoadIsNew, EvaluationSeesEdit, RulesNotTooOld, CachesFresh
  <1> QED
    BY <1>1, AsideInit, AsideNext, RuleInit, RuleNext, PTL DEF CacheAsideSpec, RuleCacheSpec

-----------------------------------------------------------------------------
(* DeviceAccess. *)

EditStages == {"idle", "guard", "read", "fill", "checked", "apply", "drop"}

EditRecord == [pc : EditStages, scoped : BOOLEAN, scopes : SUBSET AllScopes, patch : Patch \cup {Unpatched},
               got : DeviceRows \cup {Gone}, next : {"idle", "checked", "apply"}]

DeviceTyped ==
    /\ dev \in DeviceRows \cup {Gone}
    /\ copy = NoCopy \/ copy \in [row : DeviceRows, age : 0..CopyTTL]
    /\ located \in [loc : Places \cup {NoPlace}, age : -1..LocationTTL]
    /\ scopes \subseteq AllScopes /\ wsScopes \subseteq AllScopes
    /\ edit \in [Edits -> EditRecord]
    /\ recent \subseteq [row : DeviceRows \cup {Gone}, age : 0..Horizon]

\* The device was like that no longer ago; it was in these scopes while a copy lives.
SeenIn(rows, row, age) == \E r \in rows : r.row = row /\ r.age <= age
PlacedIn(rows, loc, age) == \E r \in rows : r.row.loc = loc /\ r.age <= age
PassedIn(rows, sc) == \E r \in rows : r.age <= CopyTTL /\ DeviceMatchesScope(r.row, sc)

\* What a request that is under way carries: a row that was the device's, and past
\* its guard a row that was in its scopes.
EditOK(x, rows) ==
    /\ x.pc # "idle" => x.patch \in Patch
    /\ x.pc = "fill" => x.next \in {"checked", "apply"} /\ x.got \in DeviceRows /\ SeenIn(rows, x.got, 0)
    /\ x.pc \in {"checked", "apply"} => x.got \in DeviceRows /\ SeenIn(rows, x.got, CopyTTL)
    /\ x.scoped /\ (x.pc \in {"read", "apply"} \/ (x.pc = "fill" /\ x.next = "apply")) =>
         PassedIn(rows, x.scopes)

\* The row, its copy and the location the filter remembers are among the recent
\* rows, none older than it has been kept.
RowsKnown ==
    /\ SeenIn(recent, dev, 0)
    /\ copy # NoCopy => SeenIn(recent, copy.row, copy.age)
    /\ located.age >= 0 => PlacedIn(recent, located.loc, located.age)

DeviceInv == DeviceTyped /\ RowsKnown /\ \A e \in Edits : EditOK(edit[e], recent)

\* The lifetimes are numbers, and the history is as long as either.
LEMMA Lifetimes ==
    /\ CopyTTL \in Nat /\ LocationTTL \in Nat /\ MaxWritesOfDevice \in Nat
    /\ ScopedPlace \in Places /\ NoPlace \notin Places
    /\ Horizon \in Nat /\ CopyTTL <= Horizon /\ LocationTTL <= Horizon
<1>1. CopyTTL \in Nat /\ LocationTTL \in Nat /\ MaxWritesOfDevice \in Nat
  BY DeviceAccessAssumption
<1> QED
  BY <1>1, DeviceAccessAssumption DEF Horizon

\* What has been seen stays seen while no time passes.
LEMMA MoreRows ==
    ASSUME NEW rows, NEW more, rows \subseteq more
    PROVE  /\ \A row, age : SeenIn(rows, row, age) => SeenIn(more, row, age)
           /\ \A loc, age : PlacedIn(rows, loc, age) => PlacedIn(more, loc, age)
           /\ \A sc : PassedIn(rows, sc) => PassedIn(more, sc)
           /\ \A x : EditOK(x, rows) => EditOK(x, more)
<1>1. \A row, age : SeenIn(rows, row, age) => SeenIn(more, row, age)
  BY DEF SeenIn
<1>2. \A sc : PassedIn(rows, sc) => PassedIn(more, sc)
  BY DEF PassedIn
<1>3. \A x : EditOK(x, rows) => EditOK(x, more)
  BY <1>1, <1>2 DEF EditOK
<1> QED
  BY <1>1, <1>2, <1>3 DEF PlacedIn

\* What was seen no longer ago than one time was seen no longer ago than a longer one.
LEMMA OlderSeen ==
    ASSUME NEW rows, NEW row, NEW age \in Nat, NEW more \in Nat, age <= more, SeenIn(rows, row, age),
           rows \subseteq [row : DeviceRows \cup {Gone}, age : 0..Horizon]
    PROVE  SeenIn(rows, row, more)
<1>1. PICK r \in rows : r.row = row /\ r.age <= age
  BY DEF SeenIn
<1>2. PICK n \in Nat : n = r.age
  BY <1>1, Lifetimes
<1>3. r.age <= more
  BY <1>1, <1>2
<1> QED
  BY <1>1, <1>3 DEF SeenIn

\* The row of now is known once it is noted.
LEMMA NowSeen ==
    ASSUME NEW row \in DeviceRows \cup {Gone}, recent \subseteq [row : DeviceRows \cup {Gone}, age : 0..Horizon]
    PROVE  /\ recent \subseteq Now(row) /\ SeenIn(Now(row), row, 0)
           /\ Now(row) \subseteq [row : DeviceRows \cup {Gone}, age : 0..Horizon]
<1>1. [row |-> row, age |-> 0] \in [row : DeviceRows \cup {Gone}, age : 0..Horizon]
  BY Lifetimes
<1>2. [row |-> row, age |-> 0] \in Now(row)
  BY DEF Now
<1>3. SeenIn(Now(row), row, 0)
  BY <1>2 DEF SeenIn
<1> QED
  BY <1>1, <1>3 DEF Now

\* At first the device is where the user is scoped to, and nothing is cached.
LEMMA DeviceInitOK == DeviceAccessInit => DeviceInv
<1> SUFFICES ASSUME DeviceAccessInit PROVE DeviceInv
  OBVIOUS
<1>1. dev \in DeviceRows
  BY Lifetimes DEF DeviceAccessInit, DeviceRows, Addresses
<1>2. NoEdit \in EditRecord /\ NoEdit.pc = "idle"
  <2>1. PICK no \in BOOLEAN : no = FALSE
    OBVIOUS
  <2>2. NoEdit = [pc |-> "idle", scoped |-> no, scopes |-> {}, patch |-> Unpatched, got |-> Gone, next |-> "idle"]
    BY <2>1 DEF NoEdit
  <2> QED
    BY <2>2 DEF EditRecord, EditStages
<1>3. <<"location", ScopedPlace>> \in AllScopes
  BY Lifetimes DEF AllScopes
<1>4. [row |-> dev, age |-> 0] \in [row : DeviceRows \cup {Gone}, age : 0..Horizon]
  BY <1>1, Lifetimes
<1>5. [loc |-> NoPlace, age |-> -1] \in [loc : Places \cup {NoPlace}, age : -1..LocationTTL]
  BY Lifetimes
<1>6. DeviceTyped
  BY <1>1, <1>2, <1>3, <1>4, <1>5 DEF DeviceAccessInit, DeviceTyped
<1>7. RowsKnown
  <2>1. SeenIn(recent, dev, 0)
    BY DEF DeviceAccessInit, SeenIn
  <2>2. located.age = -1
    BY DEF DeviceAccessInit
  <2> QED
    BY <2>1, <2>2 DEF DeviceAccessInit, RowsKnown
<1>8. \A e \in Edits : EditOK(edit[e], recent)
  <2>1. \A e \in Edits : edit[e].pc = "idle"
    BY <1>2 DEF DeviceAccessInit
  <2> QED
    BY <2>1 DEF EditOK
<1> QED
  BY <1>6, <1>7, <1>8 DEF DeviceInv

\* A step of one request.
LEMMA OneEdit ==
    ASSUME DeviceInv, NEW e \in Edits, NEW x \in EditRecord,
           edit' = [edit EXCEPT ![e] = x], EditOK(x, recent'), recent \subseteq recent'
    PROVE  edit' \in [Edits -> EditRecord] /\ \A f \in Edits : EditOK(edit'[f], recent')
<1>1. edit \in [Edits -> EditRecord] /\ \A f \in Edits : EditOK(edit[f], recent)
  BY DEF DeviceInv, DeviceTyped
<1>2. \A f \in Edits : EditOK(edit[f], recent')
  BY <1>1, MoreRows
<1>3. \A f \in Edits : edit'[f] = IF f = e THEN x ELSE edit[f]
  BY <1>1
<1> QED
  BY <1>1, <1>2, <1>3

\* A request that has ended carries nothing.
LEMMA EndedEdit == NoEdit \in EditRecord /\ \A rows : EditOK(NoEdit, rows)
<1>1. PICK no \in BOOLEAN : no = FALSE
  OBVIOUS
<1>2. NoEdit = [pc |-> "idle", scoped |-> no, scopes |-> {}, patch |-> Unpatched, got |-> Gone, next |-> "idle"]
  BY <1>1 DEF NoEdit
<1>3. NoEdit \in EditRecord /\ NoEdit.pc = "idle"
  BY <1>2 DEF EditRecord, EditStages
<1> QED
  BY <1>3 DEF EditOK

\* One lemma for each step of a request.
LEMMA BeginKeeps ==
    ASSUME DeviceInv, NEW e \in Edits, NEW scoped \in BOOLEAN, NEW p \in Patch, BeginEdit(e, scoped, p)
    PROVE  DeviceInv'
<1>1. PICK start \in {"guard", "read"}, sc \in SUBSET AllScopes :
        /\ start = (IF scoped THEN "guard" ELSE "read") /\ sc = (IF scoped THEN scopes ELSE {})
  BY DEF DeviceInv, DeviceTyped
<1>2. PICK x : x = [NoEdit EXCEPT !.pc = start, !.scoped = scoped, !.scopes = sc, !.patch = p]
  OBVIOUS
<1>3. /\ x \in EditRecord /\ x.pc = start /\ (x.scoped <=> scoped) /\ x.patch = p
  BY <1>2, EndedEdit DEF EditRecord, EditStages
<1>4. EditOK(x, recent)
  BY <1>1, <1>3 DEF EditOK
<1>5. edit' = [edit EXCEPT ![e] = x]
  BY <1>1, <1>2 DEF BeginEdit
<1>6. UNCHANGED <<dev, copy, located, scopes, wsScopes, recent>>
  BY DEF BeginEdit
<1>7. edit' \in [Edits -> EditRecord] /\ \A f \in Edits : EditOK(edit'[f], recent')
  BY <1>3, <1>4, <1>5, <1>6, OneEdit
<1> QED
  BY <1>6, <1>7 DEF DeviceInv, DeviceTyped, RowsKnown

LEMMA GetCopyKeeps == ASSUME DeviceInv, NEW e \in Edits, GetDeviceCopy(e) PROVE DeviceInv'
<1> DEFINE next == IF edit[e].pc = "guard" THEN "checked" ELSE "apply"
<1>0. edit \in [Edits -> EditRecord] /\ edit[e] \in EditRecord /\ EditOK(edit[e], recent)
      /\ edit[e].pc \in {"guard", "read"} /\ edit[e].patch \in Patch
  BY DEF DeviceInv, DeviceTyped, GetDeviceCopy, EditOK
<1>1. UNCHANGED <<dev, copy, located, scopes, wsScopes, recent>>
  BY DEF GetDeviceCopy
<1>2. edit[e].scoped /\ next = "apply" => PassedIn(recent, edit[e].scopes)
  BY <1>0 DEF EditOK
<1>3. CASE copy # NoCopy /\ edit' = [edit EXCEPT ![e].pc = next, ![e].got = copy.row]
  <2>1. copy.row \in DeviceRows /\ copy.age \in 0..CopyTTL /\ SeenIn(recent, copy.row, copy.age)
    BY <1>3 DEF DeviceInv, DeviceTyped, RowsKnown
  <2>2. SeenIn(recent, copy.row, CopyTTL)
    BY <2>1, OlderSeen, Lifetimes DEF DeviceInv, DeviceTyped
  <2>3. PICK x : x = [edit[e] EXCEPT !.pc = next, !.got = copy.row]
    OBVIOUS
  <2>4. /\ x \in EditRecord /\ x.pc = next /\ x.got = copy.row /\ (x.scoped <=> edit[e].scoped)
        /\ x.scopes = edit[e].scopes /\ x.patch = edit[e].patch
    BY <1>0, <2>1, <2>3 DEF EditRecord, EditStages
  <2>5. EditOK(x, recent)
    BY <1>0, <1>2, <2>1, <2>2, <2>4 DEF EditOK
  <2>6. edit' = [edit EXCEPT ![e] = x]
    BY <1>0, <1>3, <2>3
  <2>7. edit' \in [Edits -> EditRecord] /\ \A f \in Edits : EditOK(edit'[f], recent')
    BY <1>1, <2>4, <2>5, <2>6, OneEdit
  <2> QED
    BY <1>1, <2>7 DEF DeviceInv, DeviceTyped, RowsKnown
<1>4. CASE dev # Gone /\ edit' = [edit EXCEPT ![e].pc = "fill", ![e].got = dev, ![e].next = next]
  <2>1. dev \in DeviceRows /\ SeenIn(recent, dev, 0)
    BY <1>4 DEF DeviceInv, DeviceTyped, RowsKnown
  <2>2. PICK x : x = [edit[e] EXCEPT !.pc = "fill", !.got = dev, !.next = next]
    OBVIOUS
  <2>3. /\ x \in EditRecord /\ x.pc = "fill" /\ x.got = dev /\ x.next = next /\ (x.scoped <=> edit[e].scoped)
        /\ x.scopes = edit[e].scopes /\ x.patch = edit[e].patch
    BY <1>0, <2>1, <2>2 DEF EditRecord, EditStages
  <2>4. EditOK(x, recent)
    BY <1>0, <1>2, <2>1, <2>3 DEF EditOK
  <2>5. edit' = [edit EXCEPT ![e] = x]
    BY <1>0, <1>4, <2>2
  <2>6. edit' \in [Edits -> EditRecord] /\ \A f \in Edits : EditOK(edit'[f], recent')
    BY <1>1, <2>3, <2>4, <2>5, OneEdit
  <2> QED
    BY <1>1, <2>6 DEF DeviceInv, DeviceTyped, RowsKnown
<1>5. CASE edit' = [edit EXCEPT ![e] = NoEdit]
  <2>1. edit' \in [Edits -> EditRecord] /\ \A f \in Edits : EditOK(edit'[f], recent')
    BY <1>1, <1>5, EndedEdit, OneEdit
  <2> QED
    BY <1>1, <2>1 DEF DeviceInv, DeviceTyped, RowsKnown
<1> QED
  BY <1>3, <1>4, <1>5 DEF GetDeviceCopy

LEMMA FillKeeps == ASSUME DeviceInv, NEW e \in Edits, FillCopy(e) PROVE DeviceInv'
<1>0. edit \in [Edits -> EditRecord] /\ edit[e] \in EditRecord /\ EditOK(edit[e], recent) /\ edit[e].pc = "fill"
      /\ recent \subseteq [row : DeviceRows \cup {Gone}, age : 0..Horizon]
  BY DEF DeviceInv, DeviceTyped, FillCopy
<1>1. edit[e].got \in DeviceRows /\ SeenIn(recent, edit[e].got, 0) /\ edit[e].next \in {"checked", "apply"}
      /\ edit[e].patch \in Patch /\ SeenIn(recent, edit[e].got, CopyTTL)
      /\ (edit[e].scoped /\ edit[e].next = "apply" => PassedIn(recent, edit[e].scopes))
  <2>1. edit[e].got \in DeviceRows /\ SeenIn(recent, edit[e].got, 0) /\ edit[e].next \in {"checked", "apply"}
        /\ edit[e].patch \in Patch
        /\ (edit[e].scoped /\ edit[e].next = "apply" => PassedIn(recent, edit[e].scopes))
    BY <1>0 DEF EditOK
  <2>2. SeenIn(recent, edit[e].got, CopyTTL)
    BY <1>0, <2>1, OlderSeen, Lifetimes
  <2> QED
    BY <2>1, <2>2
<1>2. UNCHANGED <<dev, located, scopes, wsScopes, recent>> /\ copy' = [row |-> edit[e].got, age |-> 0]
  BY DEF FillCopy
<1>3. PICK x : x = [edit[e] EXCEPT !.pc = edit[e].next]
  OBVIOUS
<1>4. /\ x \in EditRecord /\ x.pc = edit[e].next /\ x.got = edit[e].got /\ (x.scoped <=> edit[e].scoped)
      /\ x.scopes = edit[e].scopes /\ x.patch = edit[e].patch
  BY <1>0, <1>1, <1>3 DEF EditRecord, EditStages
<1>5. EditOK(x, recent)
  BY <1>1, <1>4 DEF EditOK
<1>6. edit' = [edit EXCEPT ![e] = x]
  BY <1>3 DEF FillCopy
<1>7. edit' \in [Edits -> EditRecord] /\ \A f \in Edits : EditOK(edit'[f], recent')
  BY <1>2, <1>4, <1>5, <1>6, OneEdit
<1>8. copy' \in [row : DeviceRows, age : 0..CopyTTL] /\ SeenIn(recent, copy'.row, copy'.age)
  BY <1>1, <1>2, Lifetimes
<1> QED
  BY <1>2, <1>7, <1>8 DEF DeviceInv, DeviceTyped, RowsKnown

LEMMA GuardKeeps == ASSUME DeviceInv, NEW e \in Edits, DeviceScopeGuard(e) PROVE DeviceInv'
<1>0. edit \in [Edits -> EditRecord] /\ edit[e] \in EditRecord /\ EditOK(edit[e], recent) /\ edit[e].pc = "checked"
  BY DEF DeviceInv, DeviceTyped, DeviceScopeGuard
<1>1. UNCHANGED <<dev, copy, located, scopes, wsScopes, recent>>
  BY DEF DeviceScopeGuard
<1>2. CASE edit' = [edit EXCEPT ![e] = NoEdit]
  <2>1. edit' \in [Edits -> EditRecord] /\ \A f \in Edits : EditOK(edit'[f], recent')
    BY <1>1, <1>2, EndedEdit, OneEdit
  <2> QED
    BY <1>1, <2>1 DEF DeviceInv, DeviceTyped, RowsKnown
<1>3. CASE DeviceMatchesScope(edit[e].got, edit[e].scopes) /\ edit' = [edit EXCEPT ![e].pc = "read"]
  <2>1. PassedIn(recent, edit[e].scopes) /\ edit[e].patch \in Patch
    BY <1>0, <1>3 DEF EditOK, SeenIn, PassedIn
  <2>2. PICK x : x = [edit[e] EXCEPT !.pc = "read"]
    OBVIOUS
  <2>3. /\ x \in EditRecord /\ x.pc = "read" /\ x.scopes = edit[e].scopes /\ x.patch = edit[e].patch
    BY <1>0, <2>2 DEF EditRecord, EditStages
  <2>4. EditOK(x, recent)
    BY <2>1, <2>3 DEF EditOK
  <2>5. edit' = [edit EXCEPT ![e] = x]
    BY <1>3, <2>2
  <2>6. edit' \in [Edits -> EditRecord] /\ \A f \in Edits : EditOK(edit'[f], recent')
    BY <1>1, <2>3, <2>4, <2>5, OneEdit
  <2> QED
    BY <1>1, <2>6 DEF DeviceInv, DeviceTyped, RowsKnown
<1> QED
  BY <1>2, <1>3 DEF DeviceScopeGuard

\* What Update writes, and where it leaves the device.
Patched(x) ==
    IF x.patch.field = "name" THEN [x.got EXCEPT !.name = x.patch.value]
    ELSE IF x.patch.field = "loc" THEN [x.got EXCEPT !.loc = x.patch.value]
    ELSE [x.got EXCEPT !.addr = x.patch.value]

\* A patch leaves a row, in the place it names or where the row was.
LEMMA PatchedRow ==
    ASSUME NEW x, x.got \in DeviceRows, x.patch \in Patch
    PROVE  /\ Patched(x) \in DeviceRows
           /\ Patched(x).loc = IF x.patch.field = "loc" THEN x.patch.value ELSE x.got.loc
<1>1. CASE x.patch.field = "name"
  <2>1. x.patch.value \in 0..MaxWritesOfDevice
    BY <1>1, Lifetimes DEF Patch
  <2> QED
    BY <1>1, <2>1 DEF Patched, DeviceRows
<1>2. CASE x.patch.field = "loc"
  <2>1. x.patch.value \in Places \cup {NoPlace}
    BY <1>2 DEF Patch
  <2> QED
    BY <1>2, <2>1 DEF Patched, DeviceRows
<1>3. CASE x.patch.field = "addr"
  <2>1. x.patch.value \in Addresses
    BY <1>3 DEF Patch
  <2> QED
    BY <1>3, <2>1 DEF Patched, DeviceRows
<1> QED
  BY <1>1, <1>2, <1>3 DEF Patch

\* A step that leaves another row, and notes it.
LEMMA RowWritten ==
    ASSUME DeviceInv, dev' \in DeviceRows \cup {Gone}, recent' = Now(dev'), UNCHANGED <<located, scopes, wsScopes>>,
           copy' = copy \/ copy' = NoCopy,
           edit' \in [Edits -> EditRecord] /\ \A f \in Edits : EditOK(edit'[f], recent')
    PROVE  DeviceInv'
<1>0. recent \subseteq [row : DeviceRows \cup {Gone}, age : 0..Horizon]
  BY DEF DeviceInv, DeviceTyped
<1>1. PICK row : row = dev'
  OBVIOUS
<1>2. PICK more : more = recent'
  OBVIOUS
<1>3. /\ recent \subseteq more /\ SeenIn(more, row, 0) /\ more \subseteq [row : DeviceRows \cup {Gone}, age : 0..Horizon]
  BY <1>0, <1>1, <1>2, NowSeen
<1>4. copy' # NoCopy => copy' = copy /\ SeenIn(more, copy.row, copy.age)
  BY <1>3, MoreRows DEF DeviceInv, RowsKnown
<1>5. located.age >= 0 => PlacedIn(more, located.loc, located.age)
  BY <1>3, MoreRows DEF DeviceInv, RowsKnown
<1>6. DeviceTyped'
  BY <1>2, <1>3 DEF DeviceInv, DeviceTyped
<1>7. RowsKnown'
  BY <1>1, <1>2, <1>3, <1>4, <1>5 DEF RowsKnown
<1> QED
  BY <1>6, <1>7 DEF DeviceInv

LEMMA UpdateKeeps == ASSUME DeviceInv, NEW e \in Edits, UpdateDeviceRow(e) PROVE DeviceInv'
<1>0. /\ edit \in [Edits -> EditRecord] /\ edit[e] \in EditRecord /\ EditOK(edit[e], recent) /\ edit[e].pc = "apply"
      /\ recent \subseteq [row : DeviceRows \cup {Gone}, age : 0..Horizon]
  BY DEF DeviceInv, DeviceTyped, UpdateDeviceRow
<1>1. UNCHANGED <<copy, located, scopes, wsScopes>>
  BY DEF UpdateDeviceRow
<1>2. edit[e].got \in DeviceRows /\ edit[e].patch \in Patch
  BY <1>0 DEF EditOK
<1>3. CASE edit' = [edit EXCEPT ![e] = NoEdit] /\ UNCHANGED <<dev, recent>>
  <2>1. edit' \in [Edits -> EditRecord] /\ \A f \in Edits : EditOK(edit'[f], recent')
    BY <1>3, EndedEdit, OneEdit
  <2> QED
    BY <1>1, <1>3, <2>1 DEF DeviceInv, DeviceTyped, RowsKnown
<1>4. CASE /\ dev' = IF dev = Gone THEN Gone ELSE Patched(edit[e])
           /\ recent' = Now(dev') /\ edit' = [edit EXCEPT ![e].pc = "drop"]
  <2>1. dev' \in DeviceRows \cup {Gone}
    BY <1>2, <1>4, PatchedRow
  <2>2. PICK x : x = [edit[e] EXCEPT !.pc = "drop"]
    OBVIOUS
  <2>3. x \in EditRecord /\ x.pc = "drop" /\ x.patch = edit[e].patch
    BY <1>0, <2>2 DEF EditRecord, EditStages
  <2>4. EditOK(x, recent')
    BY <1>2, <2>3 DEF EditOK
  <2>5. edit' = [edit EXCEPT ![e] = x]
    BY <1>4, <2>2
  <2>6. recent \subseteq recent'
    BY <1>4 DEF Now
  <2>7. edit' \in [Edits -> EditRecord] /\ \A f \in Edits : EditOK(edit'[f], recent')
    BY <2>3, <2>4, <2>5, <2>6, OneEdit
  <2> QED
    BY <1>1, <1>4, <2>1, <2>7, RowWritten
<1> QED
  BY <1>3, <1>4 DEF UpdateDeviceRow, Patched

LEMMA DropKeeps == ASSUME DeviceInv, NEW e \in Edits, InvalidateDevice(e) PROVE DeviceInv'
<1>1. edit' \in [Edits -> EditRecord] /\ \A f \in Edits : EditOK(edit'[f], recent')
  BY EndedEdit, OneEdit DEF InvalidateDevice
<1> QED
  BY <1>1 DEF InvalidateDevice, DeviceInv, DeviceTyped, RowsKnown

LEMMA DeleteKeeps == ASSUME DeviceInv, NEW e \in Edits, DeleteDeviceRow(e) PROVE DeviceInv'
<1>0. /\ edit \in [Edits -> EditRecord] /\ edit[e] \in EditRecord /\ EditOK(edit[e], recent) /\ edit[e].pc = "read"
  BY DEF DeviceInv, DeviceTyped, DeleteDeviceRow
<1>1. edit[e].patch \in Patch
  BY <1>0 DEF EditOK
<1>2. PICK x : x = [edit[e] EXCEPT !.pc = "drop"]
  OBVIOUS
<1>3. x \in EditRecord /\ x.pc = "drop" /\ x.patch = edit[e].patch
  BY <1>0, <1>2 DEF EditRecord, EditStages
<1>4. EditOK(x, recent')
  BY <1>1, <1>3 DEF EditOK
<1>5. edit' = [edit EXCEPT ![e] = x] /\ recent \subseteq recent'
  BY <1>2 DEF DeleteDeviceRow, Now
<1>6. edit' \in [Edits -> EditRecord] /\ \A f \in Edits : EditOK(edit'[f], recent')
  BY <1>3, <1>4, <1>5, OneEdit
<1>7. dev' = Gone /\ recent' = Now(dev') /\ UNCHANGED <<copy, located, scopes, wsScopes>>
  BY DEF DeleteDeviceRow
<1> QED
  BY <1>6, <1>7, RowWritten

\* A device is created when no request is under way, with no copy.
LEMMA CreateKeeps ==
    ASSUME DeviceInv, NEW scoped, NEW loc \in Places, CreateDeviceRow(scoped, loc)
    PROVE  DeviceInv'
<1>1. dev' \in DeviceRows /\ copy' = NoCopy /\ recent' = Now(dev') /\ UNCHANGED <<located, scopes, wsScopes, edit>>
  BY Lifetimes DEF CreateDeviceRow, DeviceRows, Addresses
<1>2. edit \in [Edits -> EditRecord] /\ \A f \in Edits : EditOK(edit[f], recent')
  BY <1>1, MoreRows DEF DeviceInv, DeviceTyped, Now
<1> QED
  BY <1>1, <1>2, RowWritten

\* The rows that are still remembered after a tick are a tick older.
LEMMA TickRows ==
    ASSUME NEW rows, rows \subseteq [row : DeviceRows \cup {Gone}, age : 0..Horizon], NEW now,
           NEW later, later = {[row |-> r.row, age |-> r.age + 1] : r \in {x \in rows : x.age < Horizon}} \cup now
    PROVE  /\ \A row : \A age \in Nat : age < Horizon /\ SeenIn(rows, row, age) => SeenIn(later, row, age + 1)
           /\ \A loc : \A age \in Nat : age < Horizon /\ PlacedIn(rows, loc, age) => PlacedIn(later, loc, age + 1)
<1>1. ASSUME NEW r \in rows, NEW age \in Nat, age < Horizon, r.age <= age
      PROVE  \E t \in later : t.row = r.row /\ t.age <= age + 1
  <2>1. PICK n \in Nat : n = r.age
    BY Lifetimes
  <2>2. r.age < Horizon /\ r.age + 1 <= age + 1
    BY <1>1, <2>1, Lifetimes
  <2>3. [row |-> r.row, age |-> r.age + 1] \in later
    BY <2>2
  <2> QED
    BY <2>2, <2>3
<1> QED
  BY <1>1 DEF SeenIn, PlacedIn

\* Time passes between requests: an entry grows as old as the row it holds.
LEMMA TickKeeps == ASSUME DeviceInv, DeviceTick PROVE DeviceInv'
<1>0. /\ edit \in [Edits -> EditRecord] /\ recent \subseteq [row : DeviceRows \cup {Gone}, age : 0..Horizon]
      /\ dev \in DeviceRows \cup {Gone} /\ UNCHANGED <<dev, scopes, wsScopes, edit>>
  BY DEF DeviceInv, DeviceTyped, DeviceTick
<1>1. PICK later : later = recent'
  OBVIOUS
<1>2. later = {[row |-> r.row, age |-> r.age + 1] : r \in {x \in recent : x.age < Horizon}} \cup {[row |-> dev, age |-> 0]}
  BY <1>1 DEF DeviceTick
<1>3. /\ \A row : \A age \in Nat : age < Horizon /\ SeenIn(recent, row, age) => SeenIn(later, row, age + 1)
      /\ \A loc : \A age \in Nat : age < Horizon /\ PlacedIn(recent, loc, age) => PlacedIn(later, loc, age + 1)
  BY <1>0, <1>2, TickRows
<1>4. later \subseteq [row : DeviceRows \cup {Gone}, age : 0..Horizon]
  <2>1. ASSUME NEW r \in recent, r.age < Horizon
        PROVE  [row |-> r.row, age |-> r.age + 1] \in [row : DeviceRows \cup {Gone}, age : 0..Horizon]
    <3>1. r.row \in DeviceRows \cup {Gone} /\ r.age \in Nat
      BY <1>0, Lifetimes
    <3>2. r.age + 1 \in 0..Horizon
      BY <2>1, <3>1, Lifetimes
    <3> QED
      BY <3>1, <3>2
  <2>2. [row |-> dev, age |-> 0] \in [row : DeviceRows \cup {Gone}, age : 0..Horizon]
    BY <1>0, Lifetimes
  <2> QED
    BY <1>2, <2>1, <2>2
<1>5. SeenIn(later, dev, 0)
  <2>1. PICK r : r = [row |-> dev, age |-> 0]
    OBVIOUS
  <2>2. r \in later /\ r.row = dev /\ r.age <= 0
    BY <1>2, <2>1
  <2> QED
    BY <2>2 DEF SeenIn
<1>6. copy' = NoCopy \/ (copy' \in [row : DeviceRows, age : 0..CopyTTL] /\ SeenIn(later, copy'.row, copy'.age))
  <2>1. CASE Older(copy, CopyTTL).age = -1
    BY <2>1 DEF DeviceTick
  <2>2. CASE copy = NoCopy
    <3>1. Older(copy, CopyTTL) = copy /\ copy.age = -1
      BY <2>2 DEF Older, NoCopy
    <3> QED
      BY <2>1, <3>1
  <2>3. CASE copy # NoCopy /\ Older(copy, CopyTTL).age # -1
    <3>1. copy.row \in DeviceRows /\ copy.age \in 0..CopyTTL /\ SeenIn(recent, copy.row, copy.age)
          /\ copy \in [row : DeviceRows, age : 0..CopyTTL]
      BY <2>3 DEF DeviceInv, DeviceTyped, RowsKnown
    <3>2. PICK n \in Nat : n = copy.age
      BY <3>1, Lifetimes
    <3>3. n # -1
      BY <3>2
    <3>4. ~ (n >= CopyTTL)
      BY <2>3, <3>1, <3>2, <3>3 DEF Older
    <3>5. copy' = [copy EXCEPT !.age = n + 1]
      BY <2>3, <3>2, <3>3, <3>4 DEF Older, DeviceTick
    <3>6. n < Horizon /\ n + 1 \in 0..CopyTTL
      BY <3>2, <3>4, Lifetimes
    <3>7. SeenIn(later, copy.row, n + 1)
      BY <1>3, <3>1, <3>2, <3>6
    <3>8. copy' \in [row : DeviceRows, age : 0..CopyTTL] /\ copy'.row = copy.row /\ copy'.age = n + 1
      BY <3>1, <3>5, <3>6
    <3> QED
      BY <3>7, <3>8
  <2> QED
    BY <2>1, <2>2, <2>3
<1>7. /\ located' \in [loc : Places \cup {NoPlace}, age : -1..LocationTTL]
      /\ located'.age >= 0 => PlacedIn(later, located'.loc, located'.age)
  <2>1. /\ located \in [loc : Places \cup {NoPlace}, age : -1..LocationTTL] /\ located' = Older(located, LocationTTL)
        /\ located.age >= 0 => PlacedIn(recent, located.loc, located.age)
    BY DEF DeviceInv, DeviceTyped, RowsKnown, DeviceTick
  <2>2. PICK n \in Int : n = located.age /\ n >= -1
    BY <2>1, Lifetimes
  <2>3. CASE n = -1
    <3>1. located' = located /\ ~ (n >= 0)
      BY <2>1, <2>2, <2>3 DEF Older
    <3> QED
      BY <2>1, <2>2, <3>1
  <2>4. CASE n # -1 /\ n >= LocationTTL
    <3>1. located' = [located EXCEPT !.age = -1]
      BY <2>1, <2>2, <2>4 DEF Older
    <3> QED
      BY <2>1, <3>1, Lifetimes
  <2>5. CASE n # -1 /\ ~ (n >= LocationTTL)
    <3>1. located' = [located EXCEPT !.age = n + 1]
      BY <2>1, <2>2, <2>5 DEF Older
    <3>2. n \in Nat /\ n < Horizon /\ n + 1 \in -1..LocationTTL /\ n >= 0
      BY <2>2, <2>5, Lifetimes
    <3>3. PlacedIn(later, located.loc, n + 1)
      BY <1>3, <2>1, <2>2, <3>2
    <3>4. located' \in [loc : Places \cup {NoPlace}, age : -1..LocationTTL] /\ located'.loc = located.loc /\ located'.age = n + 1
      BY <2>1, <3>1, <3>2
    <3> QED
      BY <3>3, <3>4
  <2> QED
    BY <2>3, <2>4, <2>5
<1>8. \A e \in Edits : EditOK(edit'[e], recent')
  <2>1. \A e \in Edits : edit[e].pc = "idle"
    BY DEF DeviceTick
  <2> QED
    BY <1>0, <2>1 DEF EditOK
<1>9. DeviceTyped'
  BY <1>0, <1>1, <1>4, <1>6, <1>7 DEF DeviceInv, DeviceTyped
<1>10. RowsKnown'
  BY <1>0, <1>1, <1>5, <1>6, <1>7 DEF RowsKnown
<1> QED
  BY <1>8, <1>9, <1>10 DEF DeviceInv

\* Every step keeps the invariant.
LEMMA DeviceKept == DeviceInv /\ [DeviceAccessNext]_deviceVars => DeviceInv'
<1> SUFFICES ASSUME DeviceInv, [DeviceAccessNext]_deviceVars PROVE DeviceInv'
  OBVIOUS
<1>1. ASSUME NEW s \in AllScopes, CreateScope(s) \/ DeleteScope(s) PROVE DeviceInv'
  BY <1>1 DEF CreateScope, DeleteScope, DeviceInv, DeviceTyped, RowsKnown
<1>2. CASE Reconnect
  BY <1>2 DEF Reconnect, DeviceInv, DeviceTyped, RowsKnown
<1>3. CASE ScopeFilter
  <2>1. dev \in DeviceRows /\ SeenIn(recent, dev, 0) /\ located' = [loc |-> dev.loc, age |-> 0]
    BY <1>3 DEF ScopeFilter, DeviceInv, DeviceTyped, RowsKnown
  <2>2. located' \in [loc : Places \cup {NoPlace}, age : -1..LocationTTL] /\ PlacedIn(recent, located'.loc, located'.age)
    BY <2>1, Lifetimes DEF DeviceRows, SeenIn, PlacedIn
  <2> QED
    BY <1>3, <2>2 DEF ScopeFilter, DeviceInv, DeviceTyped, RowsKnown
<1>4. CASE UNCHANGED deviceVars
  BY <1>4 DEF deviceVars, DeviceInv, DeviceTyped, RowsKnown
<1> QED
  BY <1>1, <1>2, <1>3, <1>4, BeginKeeps, GetCopyKeeps, FillKeeps, GuardKeeps, UpdateKeeps, DropKeeps, DeleteKeeps,
     CreateKeeps, TickKeeps DEF DeviceAccessNext

\* Only Update takes a request from "apply" to "drop".
LEMMA OnlyUpdate ==
    ASSUME edit \in [Edits -> EditRecord], [DeviceAccessNext]_deviceVars, NEW e \in Edits,
           edit[e].pc = "apply", edit'[e].pc = "drop"
    PROVE  UpdateDeviceRow(e) /\ edit' = [edit EXCEPT ![e].pc = "drop"]
<1>0. edit' # edit
  OBVIOUS
<1>1. ASSUME NEW f \in Edits, NEW scoped, NEW p, BeginEdit(f, scoped, p) PROVE FALSE
  <2>1. f # e
    BY <1>1 DEF BeginEdit
  <2>2. edit'[e] = edit[e]
    BY <1>1, <2>1 DEF BeginEdit
  <2> QED
    BY <2>2
<1>2. ASSUME NEW f \in Edits, GetDeviceCopy(f) \/ FillCopy(f) \/ DeviceScopeGuard(f) \/ InvalidateDevice(f) \/ DeleteDeviceRow(f)
      PROVE  FALSE
  <2>1. f # e
    BY <1>2 DEF GetDeviceCopy, FillCopy, DeviceScopeGuard, InvalidateDevice, DeleteDeviceRow
  <2>2. edit'[e] = edit[e]
    BY <1>2, <2>1 DEF GetDeviceCopy, FillCopy, DeviceScopeGuard, InvalidateDevice, DeleteDeviceRow
  <2> QED
    BY <2>2
<1>3. ASSUME NEW f \in Edits, UpdateDeviceRow(f) PROVE UpdateDeviceRow(e) /\ edit' = [edit EXCEPT ![e].pc = "drop"]
  <2>1. edit' = [edit EXCEPT ![f] = NoEdit] \/ edit' = [edit EXCEPT ![f].pc = "drop"]
    BY <1>3 DEF UpdateDeviceRow
  <2>2. f = e
    BY <2>1
  <2>3. NoEdit.pc = "idle"
    BY DEF NoEdit
  <2> QED
    BY <1>3, <2>1, <2>2, <2>3
<1>4. ASSUME NEW scoped, NEW loc, CreateDeviceRow(scoped, loc) PROVE FALSE
  BY <1>0, <1>4 DEF CreateDeviceRow
<1>5. ASSUME NEW s, CreateScope(s) \/ DeleteScope(s) PROVE FALSE
  BY <1>0, <1>5 DEF CreateScope, DeleteScope
<1>6. ~ Reconnect /\ ~ ScopeFilter /\ ~ DeviceTick /\ ~ UNCHANGED deviceVars
  BY <1>0 DEF Reconnect, ScopeFilter, DeviceTick, deviceVars
<1> QED
  BY <1>1, <1>2, <1>3, <1>4, <1>5, <1>6 DEF DeviceAccessNext

\* The two halves of what a scoped update may do, as a step.
WriteAllowedNow ==
    \A e \in Edits : (edit[e].scoped /\ edit[e].pc = "apply" /\ edit'[e].pc = "drop")
      => \E r \in recent : r.age <= CopyTTL /\ DeviceMatchesScope(r.row, edit[e].scopes)

MoveInsideNow ==
    \A e \in Edits : (edit[e].scoped /\ edit[e].pc = "apply" /\ edit'[e].pc = "drop")
      => \/ <<"location", dev'.loc>> \in edit[e].scopes
         \/ \E r \in recent : r.age <= CopyTTL /\ r.row.loc = dev'.loc

\* What the guard let through was in the scopes while a copy lives, and stays in them.
LEMMA ScopedSteps == DeviceInv /\ [DeviceAccessNext]_deviceVars => WriteAllowedNow /\ MoveInsideNow
<1> SUFFICES ASSUME DeviceInv, [DeviceAccessNext]_deviceVars PROVE WriteAllowedNow /\ MoveInsideNow
  OBVIOUS
<1>0. edit \in [Edits -> EditRecord] /\ \A e \in Edits : EditOK(edit[e], recent)
  BY DEF DeviceInv, DeviceTyped
<1>1. WriteAllowedNow
  BY <1>0 DEF WriteAllowedNow, EditOK, PassedIn
<1>2. ASSUME NEW e \in Edits, edit[e].scoped, edit[e].pc = "apply", edit'[e].pc = "drop"
      PROVE  <<"location", dev'.loc>> \in edit[e].scopes \/ PlacedIn(recent, dev'.loc, CopyTTL)
  <2>1. UpdateDeviceRow(e) /\ edit' = [edit EXCEPT ![e].pc = "drop"]
    BY <1>0, <1>2, OnlyUpdate
  <2>2. edit' # [edit EXCEPT ![e] = NoEdit]
    BY <1>0, <1>2 DEF NoEdit
  <2>3. /\ edit[e].patch.field = "loc" => CanPlaceInLocation(e, edit[e].patch.value)
        /\ dev' = IF dev = Gone THEN Gone ELSE Patched(edit[e])
    BY <2>1, <2>2 DEF UpdateDeviceRow, Patched
  <2>4. edit[e].got \in DeviceRows /\ edit[e].patch \in Patch /\ SeenIn(recent, edit[e].got, CopyTTL)
    BY <1>0, <1>2 DEF EditOK
  <2>5. CASE dev = Gone
    <3>1. SeenIn(recent, dev, CopyTTL)
      BY OlderSeen, Lifetimes DEF DeviceInv, DeviceTyped, RowsKnown
    <3> QED
      BY <2>3, <2>5, <3>1 DEF SeenIn, PlacedIn
  <2>6. CASE dev # Gone /\ edit[e].patch.field = "loc"
    <3>1. dev'.loc = edit[e].patch.value
      BY <2>3, <2>4, <2>6, PatchedRow
    <3> QED
      BY <1>2, <2>3, <2>6, <3>1 DEF CanPlaceInLocation
  <2>7. CASE dev # Gone /\ edit[e].patch.field # "loc"
    <3>1. dev'.loc = edit[e].got.loc
      BY <2>3, <2>4, <2>7, PatchedRow
    <3> QED
      BY <2>4, <3>1 DEF SeenIn, PlacedIn
  <2> QED
    BY <2>5, <2>6, <2>7
<1>3. MoveInsideNow
  BY <1>2 DEF MoveInsideNow, PlacedIn
<1> QED
  BY <1>1, <1>3

\* An event is let through by a location the device had, and the client's scope holds.
LEMMA EventsScoped == DeviceInv => EventsInScope
<1> SUFFICES ASSUME DeviceInv, Delivered PROVE \E r \in recent : <<"location", r.row.loc>> \in wsScopes
  BY DEF EventsInScope
<1>1. CASE located.age >= 0
  BY <1>1 DEF Delivered, DeviceInv, RowsKnown, PlacedIn
<1>2. CASE ~ (located.age >= 0)
  BY <1>2 DEF Delivered, DeviceInv, RowsKnown, SeenIn
<1> QED
  BY <1>1, <1>2

\* The clause of the database holds of a row when the guard in Go lets it through.
LEMMA ClauseIsGuard ==
    ASSUME NEW row \in DeviceRows, NEW sc \in SUBSET AllScopes
    PROVE  ScopeCondition(row, sc) <=> DeviceMatchesScope(row, sc)
<1>1. ASSUME NEW s \in sc
      PROVE  \/ s[1] = "location" /\ s[2] \in Places
             \/ s = <<"subnet", "net">> /\ s[1] = "subnet"
  BY DEF AllScopes
<1>2. DeviceMatchesScope(row, sc) <=>
        (\E s \in sc : s[1] = "location" /\ row.loc = s[2]) \/ (<<"subnet", "net">> \in sc /\ row.addr = "inside")
  <2>1. \A s \in sc : s[1] = "location" => s[2] # NoPlace
    BY <1>1, Lifetimes
  <2>2. \A s \in sc : s[1] = "subnet" => s = <<"subnet", "net">>
    BY <1>1
  <2>3. <<"subnet", "net">>[1] = "subnet"
    OBVIOUS
  <2> QED
    BY <2>1, <2>2, <2>3 DEF DeviceMatchesScope
<1> DEFINE places == {s[2] : s \in {t \in sc : t[1] = "location"}}
<1>3. ScopeCondition(row, sc) <=>
        (places # {} /\ row.loc \in places) \/ (<<"subnet", "net">> \in sc /\ row.addr = "inside")
  <2> DEFINE first == IF places = {} THEN {} ELSE {row.loc \in places}
             second == IF <<"subnet", "net">> \in sc THEN {row.addr = "inside"} ELSE {}
  <2>1. TRUE \in first <=> places # {} /\ row.loc \in places
    <3> HIDE DEF places
    <3> QED
      BY Zenon
  <2>2. TRUE \in second <=> <<"subnet", "net">> \in sc /\ row.addr = "inside"
    BY Zenon
  <2> QED
    BY <2>1, <2>2 DEF ScopeCondition
<1>4. (places # {} /\ row.loc \in places) <=> \E s \in sc : s[1] = "location" /\ row.loc = s[2]
  OBVIOUS
<1> QED
  BY <1>2, <1>3, <1>4

\* Every view of the database shows the device when the guard opens it.
LEMMA ListsAgree == DeviceInv => ListAgreesWithGuard
<1> SUFFICES ASSUME DeviceInv, NEW sc \in SUBSET AllScopes, NEW v \in Views(sc)
             PROVE  (v # {}) = (dev # Gone /\ DeviceMatchesScope(dev, sc))
  BY DEF ListAgreesWithGuard
<1>1. CASE dev = Gone
  <2>1. ListDevices(sc) = {} /\ {dev} \ {Gone} = {}
    BY <1>1 DEF ListDevices
  <2>2. v = {}
    BY <2>1 DEF Views, ScopedDeviceIDs, LatestMetrics, History, HealthScores, GetAlerts, Search, ScopedBootstrap
  <2> QED
    BY <1>1, <2>2
<1>2. CASE dev # Gone
  <2>1. dev \in DeviceRows
    BY <1>2 DEF DeviceInv, DeviceTyped
  <2>2. CASE ScopeCondition(dev, sc)
    <3>1. ListDevices(sc) = {dev} /\ GetAlerts(sc) = {dev} /\ Search(sc) = {dev}
      BY <1>2, <2>2 DEF ListDevices, GetAlerts, Search
    <3>2. v = {dev}
      BY <3>1 DEF Views, ScopedDeviceIDs, LatestMetrics, History, HealthScores, ScopedBootstrap
    <3> QED
      BY <1>2, <2>1, <2>2, <3>2, ClauseIsGuard
  <2>3. CASE ~ ScopeCondition(dev, sc)
    <3>1. ListDevices(sc) = {} /\ GetAlerts(sc) = {} /\ Search(sc) = {}
      BY <2>3 DEF ListDevices, GetAlerts, Search
    <3>2. v = {}
      BY <3>1 DEF Views, ScopedDeviceIDs, LatestMetrics, History, HealthScores, ScopedBootstrap
    <3> QED
      BY <2>1, <2>3, <3>2, ClauseIsGuard
  <2> QED
    BY <2>2, <2>3
<1> QED
  BY <1>1, <1>2

\* The invariant has the types.
LEMMA DeviceTypes == DeviceInv => DeviceAccessTypeOK
<1> SUFFICES ASSUME DeviceInv PROVE DeviceAccessTypeOK
  OBVIOUS
<1>1. copy.row \in DeviceRows \cup {Gone} /\ copy.age \in -1..CopyTTL
  <2>1. NoCopy.row = Gone /\ NoCopy.age = -1
    BY DEF NoCopy
  <2>2. -1 \in -1..CopyTTL /\ \A n \in 0..CopyTTL : n \in -1..CopyTTL
    BY Lifetimes
  <2> QED
    BY <2>1, <2>2 DEF DeviceInv, DeviceTyped
<1>2. \A e \in Edits : edit[e].pc \in EditStages
  BY DEF DeviceInv, DeviceTyped, EditRecord
<1> QED
  BY <1>1, <1>2 DEF DeviceInv, DeviceTyped, DeviceAccessTypeOK, EditStages

\* A scoped user reads, hears of, changes and moves only devices of its scopes, now
\* or while a cached copy lives (scope_guard.go, scope.go, ws_scope.go), for any
\* places, lifetimes of the copies, requests at once and changes of the scopes.
THEOREM DeviceAccessAlways == DeviceAccessSpec => DeviceAccessCorrect
<1>1. DeviceAccessSpec => []DeviceInv
  BY DeviceInitOK, DeviceKept, PTL DEF DeviceAccessSpec
<1>2. DeviceInv => DeviceAccessTypeOK /\ ListAgreesWithGuard /\ EventsInScope
  BY EventsScoped, ListsAgree, DeviceTypes
<1>3. DeviceInv /\ [DeviceAccessNext]_deviceVars => [WriteAllowedNow]_deviceVars /\ [MoveInsideNow]_deviceVars
  BY ScopedSteps
<1>4. DeviceAccessSpec => /\ [](DeviceAccessTypeOK /\ ListAgreesWithGuard /\ EventsInScope)
                          /\ [][WriteAllowedNow]_deviceVars /\ [][MoveInsideNow]_deviceVars
  BY <1>1, <1>2, <1>3, PTL DEF DeviceAccessSpec
<1> QED
  BY <1>4 DEF DeviceAccessCorrect, ScopedWriteAllowed, ScopedMoveInside, WriteAllowedNow, MoveInsideNow

-----------------------------------------------------------------------------
(***************************************************************************)
(* Flow records.                                                           *)
(***************************************************************************)
\* Induction over the natural numbers, for a set of them.
LEMMA EveryNatural ==
    ASSUME NEW T, 0 \in T, \A n \in Nat : n \in T => n + 1 \in T
    PROVE  \A n \in Nat : n \in T
<1> SUFFICES ASSUME NEW m \in Nat, m \notin T PROVE FALSE
  OBVIOUS
<1> DEFINE Rest == {n \in Nat : n \notin T}
<1>1. PICK x \in Rest : \A y \in Rest : ~ (<<y, x>> \in OpToRel(<, Nat))
  BY NatLessThanWellFounded, WFMin, Rest \subseteq Nat, Rest # {}
<1>2. \A y \in Rest : ~ (y < x)
  BY <1>1 DEF OpToRel
<1>3. x \in Nat /\ x # 0 /\ x - 1 \in Nat /\ x - 1 < x /\ x = (x - 1) + 1
  OBVIOUS
<1>4. x - 1 \in T
  BY <1>2, <1>3
<1> QED
  BY <1>3, <1>4

\* Flattening a sequence of sequences over S gives a sequence over S.
LEMMA FlatOverS ==
    ASSUME NEW S, NEW s \in Seq(Seq(S))
    PROVE  FlattenSeq(s) \in Seq(S)
<1> DEFINE Is(g, n) == g = [i \in 1..n |-> IF i = 1 THEN s[i] ELSE g[i-1] \o s[i]]
           f == CHOOSE g : g = [i \in 1..Len(s) |-> IF i = 1 THEN s[i] ELSE g[i-1] \o s[i]]
           Made == {n \in Nat : \E g : Is(g, n)}
           Good == {n \in Nat : n \in 1..Len(s) => f[n] \in Seq(S)}
<1>1. CASE Len(s) = 0
  BY <1>1 DEF FlattenSeq
<1>2. ASSUME Len(s) # 0 PROVE FlattenSeq(s) = f[Len(s)]
  BY <1>2 DEF FlattenSeq
<1>3. \A n \in Nat : n \in Made
  <2>1. 0 \in Made
    <3>1. Is([i \in 1..0 |-> 0], 0)
      OBVIOUS
    <3> QED
      BY <3>1
  <2>2. ASSUME NEW n \in Nat, n \in Made PROVE n + 1 \in Made
    <3>1. PICK g : Is(g, n)
      BY <2>2
    <3> DEFINE h == [i \in 1..(n + 1) |-> IF i \in 1..n THEN g[i] ELSE
                                          IF i = 1 THEN s[i] ELSE g[i-1] \o s[i]]
    <3>2. ASSUME NEW i \in 1..(n + 1)
          PROVE  h[i] = IF i = 1 THEN s[i] ELSE h[i-1] \o s[i]
      <4>1. CASE i \in 1..n
        <5>1. g[i] = IF i = 1 THEN s[i] ELSE g[i-1] \o s[i]
          BY <3>1, <4>1
        <5>2. h[i] = g[i] /\ (i # 1 => h[i-1] = g[i-1])
          BY <4>1
        <5> QED
          BY <5>1, <5>2
      <4>2. CASE i = n + 1
        <5>1. i # 1 => i - 1 \in 1..n /\ i - 1 \in 1..(n + 1)
          BY <4>2
        <5>2. i # 1 => h[i-1] = g[i-1]
          BY <5>1
        <5>3. i \notin 1..n
          BY <4>2
        <5> QED
          BY <5>2, <5>3
      <4> QED
        BY <4>1, <4>2
    <3>3. Is(h, n + 1)
      <4> HIDE DEF h
      <4>1. h = [i \in 1..(n + 1) |-> h[i]]
        BY DEF h
      <4> QED
        BY <3>2, <4>1
    <3> HIDE DEF Is, h
    <3> QED
      BY <3>3
  <2> HIDE DEF Made
  <2> QED
    BY <2>1, <2>2, EveryNatural
<1>4. Is(f, Len(s))
  <2>1. \E g : Is(g, Len(s))
    <3>1. Len(s) \in Made
      <4> HIDE DEF Made
      <4> QED
        BY <1>3
    <3> QED
      BY <3>1
  <2> QED
    BY <2>1
<1>5. \A n \in Nat : n \in Good
  <2> HIDE DEF f
  <2>1. 0 \in Good
    OBVIOUS
  <2>2. ASSUME NEW n \in Nat, n \in Good PROVE n + 1 \in Good
    <3>1. SUFFICES ASSUME n + 1 \in 1..Len(s) PROVE f[n + 1] \in Seq(S)
      OBVIOUS
    <3>2. f[n + 1] = IF n + 1 = 1 THEN s[n + 1] ELSE f[(n + 1) - 1] \o s[n + 1]
      BY <1>4, <3>1
    <3>3. s[n + 1] \in Seq(S)
      BY <3>1
    <3>4. n # 0 => f[n] \in Seq(S)
      BY <2>2, <3>1
    <3> QED
      BY <3>2, <3>3, <3>4
  <2> HIDE DEF Good
  <2> QED
    BY <2>1, <2>2, EveryNatural
<1>6. CASE Len(s) # 0
  <2>1. Len(s) \in Nat /\ Len(s) \in 1..Len(s)
    BY <1>6
  <2>2. Len(s) \in Good
    BY <1>5, <2>1
  <2> HIDE DEF f
  <2>3. f[Len(s)] \in Seq(S)
    BY <2>1, <2>2
  <2> QED
    BY <1>2, <1>6, <2>3
<1> QED
  BY <1>1, <1>6

\* scale computes the product, or saturates where it does not fit.
LEMMA ScaleExact ==
    ASSUME NEW v \in 0..(2 * MaxInt + 1), NEW rate \in 1..MaxRate
    PROVE  Scale(v, rate) = IF v * rate < MaxInt THEN v * rate ELSE MaxInt
<1> DEFINE q == MaxInt \div rate
<1>1. MaxInt \in Nat /\ rate \in Nat /\ rate > 0 /\ v \in Nat
  BY FlowRecordBounds
<1>2. q \in Nat /\ q * rate <= MaxInt /\ MaxInt < (q + 1) * rate
  BY <1>1
<1>3. CASE v > q
  <2>1. v * rate >= (q + 1) * rate
    BY <1>1, <1>2, <1>3
  <2> QED
    BY <2>1, <1>1, <1>2, <1>3 DEF Scale
<1>4. CASE v <= q
  <2>1. v * rate <= q * rate /\ v * rate \in Nat
    BY <1>4, <1>1, <1>2
  <2>2. Uint(v * rate) = v * rate
    BY <2>1, <1>1, <1>2 DEF Uint
  <2> QED
    BY <2>1, <2>2, <1>1, <1>2, <1>4 DEF Scale
<1> QED
  BY <1>1, <1>2, <1>3, <1>4

\* The rates of the records of a datagram, in order.
LEMMA RecordsTyped ==
    ASSUME NEW d \in Datagrams
    PROVE  /\ Records(d) \in Seq(RecordRates)
           /\ d.option \in OptionRates /\ d.bytes \in Counters
           /\ d.start \in FlowTimes /\ d.end \in FlowTimes
<1>1. /\ d.sets \in SeqOf(DataSets \cup {OtherSet}, MaxSets)
      /\ d.option \in OptionRates /\ d.bytes \in Counters
      /\ d.start \in FlowTimes /\ d.end \in FlowTimes
  BY DEF Datagrams
<1>2. ASSUME NEW m \in Nat, NEW X, NEW g \in [1..m -> X] PROVE g \in Seq(X)
  OBVIOUS
<1>3. ASSUME NEW X, NEW g \in SeqOf(X, MaxSets) PROVE g \in Seq(X)
  BY <1>2, FlowRecordBounds DEF SeqOf
<1>4. \A x \in DataSets \cup {OtherSet} : x.rates \in Seq(RecordRates)
  <2>1. OtherSet.rates \in Seq(RecordRates)
    BY DEF OtherSet
  <2> QED
    BY <1>3, <2>1 DEF DataSets
<1>5. d.sets \in Seq(DataSets \cup {OtherSet})
  BY <1>1, <1>3
<1> DEFINE rs == [i \in 1..Len(d.sets) |-> d.sets[i].rates]
<1>6. rs \in Seq(Seq(RecordRates))
  BY <1>4, <1>5
<1> QED
  BY <1>1, <1>6, FlatOverS DEF Records

\* What is stored was made from a datagram.
FlowRecordsInv == datagram \in Datagrams /\ FlowRecordsSafe

\* Every record of the datagram becomes a flow that keeps its bounds.
LEMMA ProduceInv == datagram \in Datagrams /\ Produce => FlowRecordsSafe'
<1> SUFFICES ASSUME datagram \in Datagrams, Produce PROVE FlowRecordsSafe'
  OBVIOUS
<1> DEFINE rs == Records(datagram)
<1>1. /\ rs \in Seq(RecordRates) /\ datagram.option \in OptionRates
      /\ datagram.bytes \in Counters /\ datagram.start \in FlowTimes /\ datagram.end \in FlowTimes
  BY RecordsTyped
<1>2. /\ flows' = [i \in 1..Len(rs) |-> Normalise(datagram, rs[i])]
      /\ datagram' = datagram
  BY DEF Produce, RecordSamplingRates
<1>3. Records(datagram)' = rs
  BY <1>2 DEF Records
<1>4. Len(flows') = Len(rs)
  BY <1>1, <1>2
<1>5. ASSUME NEW i \in 1..Len(flows')
      PROVE  /\ flows'[i] \in [bytes: 0..MaxInt, rate: 1..MaxRate, at: Nat, duration: Nat]
             /\ LET own == rs[i]
                    rate == IF datagram.option # 0 THEN datagram.option ELSE IF own # 0 THEN own ELSE 1
                    used == IF rate < MaxRate THEN rate ELSE MaxRate
                    exact == datagram.bytes * used
                IN  flows'[i].rate = used /\ flows'[i].bytes = IF exact < MaxInt THEN exact ELSE MaxInt
             /\ flows'[i].at <= Received + MaxFutureSkew
             /\ flows'[i].at - flows'[i].duration >= Received - MaxAge
  <2> DEFINE own == rs[i]
             rate == IF datagram.option # 0 THEN datagram.option ELSE IF own # 0 THEN own ELSE 1
             used == IF rate < MaxRate THEN rate ELSE MaxRate
             at == IF Plausible(datagram.end) THEN datagram.end ELSE Received
  <2>1. own \in RecordRates
    BY <1>1, <1>4, <1>5
  <2>2. own \in Nat /\ datagram.option \in Nat /\ datagram.bytes \in 0..(2 * MaxInt + 1)
    <3>1. own \in 0..(2 * MaxInt + 1) /\ datagram.option \in 0..(2 * MaxInt + 1)
          /\ datagram.bytes \in 0..(2 * MaxInt + 1)
      BY <1>1, <2>1, FlowRecordBounds, RecordRates \cup OptionRates \subseteq 0..(2 * MaxInt + 1)
    <3> QED
      BY <3>1
  <2>3. used \in 1..MaxRate /\ used = Rate(datagram.option, own)
    BY <2>2, FlowRecordBounds DEF Rate
  <2>4. flows'[i] = [bytes |-> Scale(datagram.bytes, used), rate |-> used, at |-> at,
                     duration |-> Duration(datagram)]
    BY <1>2, <1>4, <2>3 DEF Normalise
  <2>5. Scale(datagram.bytes, used) = IF datagram.bytes * used < MaxInt THEN datagram.bytes * used ELSE MaxInt
    BY <2>2, <2>3, ScaleExact
  <2>6. Scale(datagram.bytes, used) \in 0..MaxInt
    <3>1. datagram.bytes * used \in Nat
      <4>1. MaxInt \in Nat /\ MaxRate \in Nat
        BY FlowRecordBounds
      <4>2. PICK v \in Nat : v = datagram.bytes
        BY <2>2, <4>1
      <4>3. PICK u \in Nat : u = used
        BY <2>3, <4>1
      <4> QED
        BY <4>2, <4>3
    <3> QED
      BY <2>5, <3>1, FlowRecordBounds
  <2>7. datagram.start \in Nat /\ datagram.end \in Nat /\ Received \in Nat /\ MaxAge \in Nat
        /\ MaxFutureSkew \in Nat /\ MaxAge < Received
    BY <1>1, FlowRecordBounds
  <2>8. /\ at \in Nat /\ Duration(datagram) \in Nat
        /\ at <= Received + MaxFutureSkew /\ at - Duration(datagram) >= Received - MaxAge
    BY <2>7 DEF Plausible, Duration
  <2> QED
    BY <2>3, <2>4, <2>5, <2>6, <2>8
<1>6. FlowRecordsTypeOK'
  BY <1>5 DEF FlowRecordsTypeOK
<1>7. ScaledByOwnRate'
  <2> SUFFICES ASSUME NEW i \in 1..Len(flows')
               PROVE  LET own == Records(datagram')[i]
                          rate == IF datagram'.option # 0 THEN datagram'.option ELSE IF own # 0 THEN own ELSE 1
                          used == IF rate < MaxRate THEN rate ELSE MaxRate
                          exact == datagram'.bytes * used
                      IN  flows'[i].rate = used /\ flows'[i].bytes = IF exact < MaxInt THEN exact ELSE MaxInt
    BY DEF ScaledByOwnRate
  <2> QED
    BY <1>2, <1>5
<1>8. FlowsWithinRetention'
  BY <1>5 DEF FlowsWithinRetention
<1> QED
  BY <1>6, <1>7, <1>8 DEF FlowRecordsSafe

\* The stored figures of a flow are scaled by its own rate without wrapping and
\* dated within the retention (flowingest/decode.go: produce, scale, normalise).
THEOREM FlowRecordsSafeAlways == FlowRecordsSpec => []FlowRecordsSafe
<1>1. FlowRecordsInit => FlowRecordsInv
  BY DEF FlowRecordsInit, FlowRecordsInv, FlowRecordsSafe, FlowRecordsTypeOK, ScaledByOwnRate, FlowsWithinRetention
<1>2. FlowRecordsInv /\ [FlowRecordsNext]_flowRecordVars => FlowRecordsInv'
  <2>1. FlowRecordsInv /\ Produce => FlowRecordsInv'
    BY ProduceInv DEF FlowRecordsInv, Produce
  <2>2. FlowRecordsInv /\ UNCHANGED flowRecordVars => FlowRecordsInv'
    BY DEF flowRecordVars, FlowRecordsInv, FlowRecordsSafe, FlowRecordsTypeOK, ScaledByOwnRate, FlowsWithinRetention
  <2> QED
    BY <2>1, <2>2 DEF FlowRecordsNext
<1>3. FlowRecordsInv => FlowRecordsSafe
  BY DEF FlowRecordsInv
<1> QED
  BY <1>1, <1>2, <1>3, PTL DEF FlowRecordsSpec

-----------------------------------------------------------------------------
(***************************************************************************)
(* The import of devices.                                                  *)
(***************************************************************************)
\* Types.
Ids == DeviceIds \cup {NoId}
Kept == [host : ImportHosts, parent : Ids, batch : Nat, of : Nat, line : Nat]
Row == [host : ImportHosts, parentHost : ImportHosts \cup {NoHost}, parent : Ids,
        looked : BOOLEAN, duplicate : BOOLEAN]
Inserted == [id : DeviceIds, row : Kept]

\* Type correctness, down to the rows.
ImportTyped ==
    /\ csv \in [1..MaxLines -> Lines]
    /\ preview = << >> \/ preview \in [1..MaxLines -> Row]
    /\ tx \in [pc : {"none", "check", "insert"}, next : Nat, staged : Seq(Inserted), rows : Seq(Row)]
    /\ DOMAIN devices \subseteq DeviceIds /\ \A id \in DOMAIN devices : devices[id] \in Kept
    /\ nextDevice \in 1..(MaxDeviceId + 1) /\ batches \in Nat
    /\ importChanges \in 0..MaxImportChanges

\* What the preview says of its lines: a parent it resolved has the host the line
\* names for as long as it exists, as no identifier is used twice, and a line that
\* is not flagged is new while the devices are those of the preview.
PreviewOf(i, p) ==
    /\ p.host = csv[i].host /\ p.parentHost = csv[i].parentHost
    /\ p.parent # NoId => /\ p.parent < nextDevice
                          /\ p.parent \in DOMAIN devices => devices[p.parent].host = p.parentHost
    /\ ~p.duplicate => \A j \in 1..(i - 1) : csv[j].host # csv[i].host
    /\ (~p.duplicate /\ p.looked /\ ~disturbed) => WithHost(p.host) = {}

PreviewKept == preview # << >> => \A i \in 1..MaxLines : PreviewOf(i, preview[i])

\* The rows of a confirmation are rows of the preview, in their order.
InOrder(rows, line) ==
    /\ \A k \in 1..Len(rows) : rows[k] = preview[line[k]]
    /\ \A j, k \in 1..Len(rows) : j < k => line[j] < line[k]

RowsFromPreview ==
    tx.pc # "none" =>
        /\ preview # << >> /\ Len(tx.rows) <= MaxLines
        /\ \E line \in [1..Len(tx.rows) -> 1..MaxLines] : InOrder(tx.rows, line)

\* The device staged for a row: it is new, and its parent cannot go.
StagedFor(i, s) ==
    /\ s.id < nextDevice /\ s.id \notin DOMAIN devices
    /\ s.row.host = tx.rows[i].host /\ s.row.parent = tx.rows[i].parent
    /\ s.row.parent \in DOMAIN devices \cup {NoId}
    /\ s.row.batch = batches + 1 /\ s.row.of = Len(tx.rows)
    /\ \A j \in 1..MaxLines : preview[j].parent # s.id

StagedKept ==
    IF tx.pc = "insert"
    THEN /\ Len(tx.staged) = tx.next - 1 /\ Len(tx.staged) <= Len(tx.rows)
         /\ \A k \in 1..Len(tx.rows) : tx.rows[k].host \notin BarredHosts
         /\ \A i \in 1..Len(tx.staged) : StagedFor(i, tx.staged[i])
         /\ \A i, j \in 1..Len(tx.staged) : i < j => tx.staged[i].id < tx.staged[j].id
    ELSE tx.staged = << >> /\ tx.next = 1

\* Identifiers only grow, and a batch is whole and linked as its lines say.
DevicesKept ==
    \A id \in DOMAIN devices :
        /\ id < nextDevice /\ devices[id].batch <= batches
        /\ devices[id].parent \in DOMAIN devices \cup {NoId}
        /\ devices[id].batch > 0 =>
              /\ Cardinality(Imported(devices[id].batch)) = devices[id].of
              /\ devices[id].host \notin BarredHosts
              /\ devices[id].parent # NoId =>
                    \E i \in 1..MaxLines : csv[i].host = devices[id].host
                                           /\ csv[i].parentHost = devices[devices[id].parent].host

\* The inductive invariant of CsvImport.
ImportInv == ImportTyped /\ PreviewKept /\ RowsFromPreview /\ StagedKept /\ DevicesKept

\* The bounds of the import are numbers.
LEMMA ImportConstants == MaxLines \in Nat /\ MaxDeviceId \in Nat /\ MaxImportChanges \in Nat
  BY ImportBounds

\* The inductive invariant implies what the runs check.
LEMMA ImportInvImplies == ImportInv => CsvImportSafe
<1> SUFFICES ASSUME ImportInv PROVE CsvImportSafe
  OBVIOUS
<1> USE ImportConstants
<1>1. csv \in [1..MaxLines -> Lines] /\ DOMAIN csv = 1..MaxLines
  BY DEF ImportInv, ImportTyped
<1>2. tx.pc \in {"none", "check", "insert"} /\ tx.next \in 1..(MaxLines + 1)
  <2>1. tx.pc \in {"none", "check", "insert"} /\ tx.next \in Nat /\ tx.rows \in Seq(Row) /\ tx.staged \in Seq(Inserted)
    BY DEF ImportInv, ImportTyped
  <2>2. CASE tx.pc = "insert"
    <3>1. Len(tx.rows) <= MaxLines /\ Len(tx.staged) = tx.next - 1 /\ Len(tx.staged) <= Len(tx.rows)
      BY <2>2 DEF ImportInv, RowsFromPreview, StagedKept
    <3>2. Len(tx.rows) \in Nat /\ Len(tx.staged) \in Nat
      BY <2>1
    <3> QED
      BY <2>1, <3>1, <3>2
  <2>3. CASE tx.pc # "insert"
    BY <2>1, <2>3 DEF ImportInv, StagedKept
  <2> QED
    BY <2>1, <2>2, <2>3
<1>3. CsvImportTypeOK
  BY <1>2 DEF CsvImportTypeOK, ImportInv, ImportTyped, DevicesKept
<1>4. WholeImports
  BY DEF WholeImports, ImportInv, DevicesKept
<1>5. LinkedToNamedParent
  <2> SUFFICES ASSUME NEW b \in 1..batches, NEW id \in Imported(b), devices[id].parent # NoId
               PROVE  \E i \in DOMAIN csv : csv[i].host = devices[id].host
                                            /\ csv[i].parentHost = devices[devices[id].parent].host
    BY DEF LinkedToNamedParent
  <2>1. id \in DOMAIN devices /\ devices[id].batch = b /\ b > 0
    BY DEF Imported, ImportInv, ImportTyped
  <2>2. \E i \in 1..MaxLines : csv[i].host = devices[id].host
                              /\ csv[i].parentHost = devices[devices[id].parent].host
    BY <2>1 DEF ImportInv, DevicesKept
  <2> QED
    BY <1>1, <2>2
<1>6. UnflaggedIsNew
  <2> SUFFICES ASSUME ~disturbed, tx.pc = "insert", NEW i \in DOMAIN tx.staged, ~tx.rows[i].duplicate
               PROVE  /\ tx.rows[i].looked => WithHost(tx.staged[i].row.host) = {}
                      /\ \A j \in 1..(i - 1) : tx.staged[j].row.host # tx.staged[i].row.host
    BY DEF UnflaggedIsNew
  <2>1. /\ tx.rows \in Seq(Row) /\ tx.staged \in Seq(Inserted) /\ Len(tx.staged) <= Len(tx.rows)
        /\ preview # << >>
        /\ \A k \in 1..Len(tx.staged) : tx.staged[k].row.host = tx.rows[k].host
    BY DEF ImportInv, ImportTyped, RowsFromPreview, StagedKept, StagedFor
  <2>2. PICK line \in [1..Len(tx.rows) -> 1..MaxLines] : InOrder(tx.rows, line)
    BY DEF ImportInv, RowsFromPreview
  <2>3. i \in 1..Len(tx.staged) /\ i \in 1..Len(tx.rows)
    BY <2>1
  <2>4. /\ tx.rows[i] = preview[line[i]] /\ line[i] \in 1..MaxLines
        /\ PreviewOf(line[i], preview[line[i]])
    BY <2>1, <2>2, <2>3 DEF InOrder, ImportInv, PreviewKept
  <2>5. tx.rows[i].looked => WithHost(tx.staged[i].row.host) = {}
    BY <2>1, <2>3, <2>4 DEF PreviewOf
  <2>6. ASSUME NEW j \in 1..(i - 1) PROVE tx.staged[j].row.host # tx.staged[i].row.host
    <3>1. j \in 1..Len(tx.staged) /\ j \in 1..Len(tx.rows) /\ j < i
      BY <2>1, <2>3
    <3>2. /\ tx.rows[j] = preview[line[j]] /\ line[j] \in 1..MaxLines /\ line[j] < line[i]
          /\ PreviewOf(line[j], preview[line[j]])
      BY <2>1, <2>2, <2>3, <3>1 DEF InOrder, ImportInv, PreviewKept
    <3>3. csv[line[j]].host # csv[line[i]].host
      BY <2>4, <3>2 DEF PreviewOf
    <3>4. tx.rows[j].host = csv[line[j]].host /\ tx.rows[i].host = csv[line[i]].host
      BY <2>4, <3>2 DEF PreviewOf
    <3> QED
      BY <2>1, <2>3, <3>1, <3>3, <3>4
  <2> QED
    BY <2>5, <2>6
<1> QED
  BY <1>3, <1>4, <1>5, <1>6 DEF CsvImportSafe

\* It holds at the start.
LEMMA InitImport == CsvImportInit => ImportInv
<1> SUFFICES ASSUME CsvImportInit PROVE ImportInv
  OBVIOUS
<1> USE ImportConstants
<1>1. tx.pc = "none" /\ tx.next = 1 /\ tx.staged = << >> /\ tx.rows = << >>
  BY DEF CsvImportInit, NoTx
<1>2. DOMAIN devices = {}
  BY DEF CsvImportInit, Empty
<1>3. tx \in [pc : {"none", "check", "insert"}, next : Nat, staged : Seq(Inserted), rows : Seq(Row)]
  BY DEF CsvImportInit, NoTx
<1>4. ImportTyped
  BY <1>2, <1>3 DEF CsvImportInit, ImportTyped
<1>5. PreviewKept /\ RowsFromPreview /\ StagedKept /\ DevicesKept
  BY <1>1, <1>2 DEF CsvImportInit, PreviewKept, RowsFromPreview, StagedKept, DevicesKept
<1> QED
  BY <1>4, <1>5 DEF ImportInv

\* What only the devices, the file and the preview say stays as it is.
LEMMA DevicesUntouched ==
    ASSUME ImportInv, UNCHANGED <<csv, preview, devices, batches, disturbed>>, nextDevice' \in Nat,
           nextDevice' >= nextDevice
    PROVE  PreviewKept' /\ DevicesKept'
<1>1. nextDevice \in Nat /\ DOMAIN devices \subseteq Nat /\ \A id \in DOMAIN devices : id < nextDevice
  BY ImportConstants DEF ImportInv, ImportTyped, DevicesKept, DeviceIds
<1>2. \A h : WithHost(h)' = WithHost(h)
  BY DEF WithHost
<1>3. PreviewKept'
  <2> SUFFICES ASSUME preview # << >>, NEW i \in 1..MaxLines PROVE PreviewOf(i, preview[i])'
    BY DEF PreviewKept
  <2>1. PreviewOf(i, preview[i])
    BY DEF ImportInv, PreviewKept
  <2>2. preview[i].parent \in Nat
    <3>1. preview \in [1..MaxLines -> Row]
      BY DEF ImportInv, ImportTyped
    <3>2. preview[i] \in Row
      BY <3>1
    <3> QED
      BY <3>2, ImportConstants DEF Row, Ids, DeviceIds, NoId
  <2> QED
    BY <1>1, <1>2, <2>1, <2>2 DEF PreviewOf
<1>4. \A b : Imported(b)' = Imported(b)
  BY DEF Imported
<1>5. DevicesKept'
  BY <1>1, <1>4 DEF ImportInv, DevicesKept
<1> QED
  BY <1>3, <1>5

\* A confirmation takes rows of the preview.
LEMMA ExecuteKeeps ==
    ASSUME ImportInv, NEW wanted \in SUBSET DOMAIN preview, ImportExecute(wanted)
    PROVE  ImportInv'
<1> USE ImportConstants
<1>1. /\ preview # << >> /\ preview \in [1..MaxLines -> Row] /\ tx.pc = "none"
      /\ importChanges' = importChanges + 1 /\ importChanges < MaxImportChanges
      /\ UNCHANGED <<csv, preview, devices, nextDevice, batches, disturbed>>
  BY DEF ImportExecute, ImportInv, ImportTyped
<1>2. IsFiniteSet(1..MaxLines) /\ Cardinality(1..MaxLines) = MaxLines
  <2>1. MaxLines >= 1 \/ 1..MaxLines = {}
    OBVIOUS
  <2> QED
    BY <2>1, FS_Interval, FS_EmptySet
<1> DEFINE n == Cardinality(wanted)
<1>3. wanted \subseteq 1..MaxLines
  BY <1>1
<1>4. n \in Nat /\ n <= MaxLines
  BY <1>2, <1>3, FS_Subset, FS_CardinalityType
<1> HIDE DEF n
<1>5. PICK line \in [1..n -> wanted] :
        /\ \A j, k \in DOMAIN line : j < k => line[j] < line[k]
        /\ tx' = [NoTx EXCEPT !.pc = "check", !.rows = [k \in DOMAIN line |-> preview[line[k]]]]
  BY DEF ImportExecute, n
<1> DEFINE rows == [k \in 1..n |-> preview[line[k]]]
<1>6. /\ rows \in Seq(Row) /\ Len(rows) = n
      /\ line \in [1..n -> 1..MaxLines] /\ \A k \in 1..n : rows[k] = preview[line[k]]
  <2>1. line \in [1..n -> 1..MaxLines]
    BY <1>3, <1>5
  <2>2. ASSUME NEW k \in 1..n PROVE preview[line[k]] \in Row
    BY <1>1, <2>1
  <2>3. rows \in [1..n -> Row]
    BY <2>2
  <2> QED
    BY <1>4, <2>1, <2>3
<1>7. tx' = [pc |-> "check", next |-> 1, staged |-> << >>, rows |-> rows]
  BY <1>5 DEF NoTx
<1> HIDE DEF rows
<1>8. InOrder(rows, line)
  BY <1>5, <1>6 DEF InOrder
<1>9. ImportTyped'
  BY <1>1, <1>6, <1>7 DEF ImportInv, ImportTyped
<1>10. RowsFromPreview'
  <2> QED
    BY <1>1, <1>4, <1>6, <1>7, <1>8 DEF RowsFromPreview, InOrder
<1>11. StagedKept'
  BY <1>7 DEF StagedKept
<1> QED
  BY <1>1, <1>9, <1>10, <1>11, DevicesUntouched DEF ImportInv, ImportTyped

\* No row with a barred host gets to be inserted; an abort leaves nothing.
LEMMA CheckKeeps == ImportInv /\ (CheckHosts \/ AbortImport) => ImportInv'
<1> SUFFICES ASSUME ImportInv, CheckHosts \/ AbortImport PROVE ImportInv'
  OBVIOUS
<1> USE ImportConstants
<1>1. UNCHANGED <<csv, preview, devices, nextDevice, batches, disturbed, importChanges>>
  BY DEF CheckHosts, AbortImport
<1>2. nextDevice \in Nat /\ nextDevice' \in Nat /\ nextDevice' >= nextDevice
  BY <1>1 DEF ImportInv, ImportTyped
<1>3. CASE tx' = NoTx
  <2>1. tx' = [pc |-> "none", next |-> 1, staged |-> << >>, rows |-> << >>]
    BY <1>3 DEF NoTx
  <2>2. ImportTyped'
    BY <1>1, <2>1 DEF ImportInv, ImportTyped
  <2>3. RowsFromPreview' /\ StagedKept'
    BY <2>1 DEF RowsFromPreview, StagedKept
  <2> QED
    BY <1>1, <1>2, <2>2, <2>3, DevicesUntouched DEF ImportInv
<1>4. CASE /\ tx.pc = "check" /\ tx' = [tx EXCEPT !.pc = "insert"]
           /\ ~ \E i \in DOMAIN tx.rows : tx.rows[i].host \in BarredHosts
  <2>1. /\ tx'.pc = "insert" /\ tx'.rows = tx.rows /\ tx'.staged = << >> /\ tx'.next = 1
        /\ tx.rows \in Seq(Row)
        /\ tx' \in [pc : {"none", "check", "insert"}, next : Nat, staged : Seq(Inserted), rows : Seq(Row)]
    BY <1>4 DEF ImportInv, ImportTyped, StagedKept
  <2>2. ImportTyped'
    BY <1>1, <2>1 DEF ImportInv, ImportTyped
  <2>3. RowsFromPreview'
    BY <1>1, <1>4, <2>1 DEF ImportInv, RowsFromPreview, InOrder
  <2>4. StagedKept'
    BY <1>4, <2>1 DEF StagedKept
  <2> QED
    BY <1>1, <1>2, <2>2, <2>3, <2>4, DevicesUntouched DEF ImportInv
<1> QED
  BY <1>3, <1>4 DEF CheckHosts, AbortImport

\* A preview describes the devices there are.
LEMMA PreviewKeeps == ImportInv /\ ImportPreview => ImportInv'
<1> SUFFICES ASSUME ImportInv, ImportPreview PROVE ImportInv'
  OBVIOUS
<1> USE ImportConstants
<1>1. tx.pc = "none" /\ disturbed' = FALSE /\ UNCHANGED <<csv, tx, devices, nextDevice, batches, importChanges>>
  BY DEF ImportPreview
<1>2. csv \in [1..MaxLines -> Lines] /\ DOMAIN csv = 1..MaxLines
  BY DEF ImportInv, ImportTyped
<1>3. PICK parents \in [DOMAIN csv -> DeviceIds \cup {NoId}], looked \in SUBSET DOMAIN csv :
        /\ \A i \in DOMAIN csv : parents[i] \in ResolveParent(csv[i], i \in looked)
        /\ preview' = [i \in DOMAIN csv |-> [host |-> csv[i].host, parentHost |-> csv[i].parentHost,
                                             parent |-> parents[i], looked |-> i \in looked,
                                             duplicate |-> IsDuplicate(csv, i, i \in looked)]]
  BY DEF ImportPreview
<1>4. ASSUME NEW i \in 1..MaxLines
      PROVE  preview'[i] \in Row /\ PreviewOf(i, preview[i])'
  <2>0. PICK p : p = preview'[i]
    OBVIOUS
  <2>1. PICK dup \in BOOLEAN : dup = IsDuplicate(csv, i, i \in looked)
    BY DEF IsDuplicate
  <2>11. PICK lk \in BOOLEAN : lk = (i \in looked)
    <3>1. CASE i \in looked
      <4>1. TRUE = (i \in looked)
        BY <3>1
      <4> QED
        BY <4>1
    <3>2. CASE i \notin looked
      <4>1. FALSE = (i \in looked)
        BY <3>2
      <4> QED
        BY <4>1
    <3> QED
      BY <3>1, <3>2
  <2>2. p = [host |-> csv[i].host, parentHost |-> csv[i].parentHost,
             parent |-> parents[i], looked |-> lk, duplicate |-> dup]
    BY <1>2, <1>3, <2>0, <2>1, <2>11
  <2>3. csv[i].host \in ImportHosts /\ csv[i].parentHost \in ImportHosts \cup {NoHost}
    BY <1>2 DEF Lines
  <2>4. parents[i] \in Ids
    BY <1>2 DEF Ids
  <2>5. p \in Row
    BY <2>2, <2>3, <2>4 DEF Row
  <2>6. parents[i] # NoId => /\ parents[i] \in DOMAIN devices
                             /\ devices[parents[i]].host = csv[i].parentHost
    BY <1>2, <1>3 DEF ResolveParent, WithHost
  <2>7. parents[i] # NoId => parents[i] < nextDevice
    BY <2>6 DEF ImportInv, DevicesKept
  <2>8. (dup = FALSE) =>
               /\ \A j \in 1..(i - 1) : csv[j].host # csv[i].host
               /\ (lk = TRUE) => \A id \in DOMAIN devices : devices[id].host # csv[i].host
    BY <2>1, <2>11 DEF IsDuplicate, WithHost
  <2>9. WithHost(preview[i].host)' = {id \in DOMAIN devices : devices[id].host = csv[i].host}
    BY <1>1, <2>0, <2>2 DEF WithHost
  <2>10. PreviewOf(i, preview[i])'
    <3>1. /\ preview'[i].host = csv'[i].host /\ preview'[i].parentHost = csv'[i].parentHost
          /\ preview'[i].parent = parents[i] /\ preview'[i].duplicate = dup /\ preview'[i].looked = lk
      BY <1>1, <2>0, <2>2
    <3>2. preview'[i].parent # NoId =>
             /\ preview'[i].parent < nextDevice'
             /\ preview'[i].parent \in DOMAIN devices' => devices'[preview'[i].parent].host = preview'[i].parentHost
      BY <1>1, <2>6, <2>7, <3>1
    <3>5. (~preview'[i].duplicate => dup = FALSE) /\ (preview'[i].looked => lk = TRUE)
      <4>1. CASE dup = TRUE
        BY <3>1, <4>1
      <4>2. CASE dup = FALSE
        BY <3>1, <4>2
      <4>3. lk = TRUE \/ lk = FALSE
        OBVIOUS
      <4>4. preview'[i].looked => lk = TRUE
        BY <3>1, <4>3
      <4> QED
        BY <4>1, <4>2, <4>4
    <3>3. ~preview'[i].duplicate => \A j \in 1..(i - 1) : csv'[j].host # csv'[i].host
      BY <1>1, <2>8, <3>5
    <3>4. (~preview'[i].duplicate /\ preview'[i].looked) => WithHost(preview[i].host)' = {}
      BY <1>1, <2>8, <2>9, <3>5
    <3> QED
      BY <3>1, <3>2, <3>3, <3>4 DEF PreviewOf
  <2> QED
    BY <2>0, <2>5, <2>10
<1>5. preview' \in [1..MaxLines -> Row]
  BY <1>2, <1>3, <1>4
<1>6. ImportTyped'
  BY <1>1, <1>5 DEF ImportInv, ImportTyped
<1>7. PreviewKept'
  BY <1>4 DEF PreviewKept
<1>8. RowsFromPreview' /\ StagedKept'
  BY <1>1 DEF ImportInv, RowsFromPreview, StagedKept
<1>9. \A b : Imported(b)' = Imported(b)
  BY <1>1 DEF Imported
<1>10. DevicesKept'
  BY <1>1, <1>9 DEF ImportInv, DevicesKept
<1> QED
  BY <1>6, <1>7, <1>8, <1>10 DEF ImportInv

\* A row becomes a staged device, or the transaction ends.
LEMMA InsertKeeps == ImportInv /\ InsertRow => ImportInv'
<1> SUFFICES ASSUME ImportInv, InsertRow PROVE ImportInv'
  OBVIOUS
<1> USE ImportConstants
<1>0. PICK n : n = tx.next
  OBVIOUS
<1>00. PICK r : r = tx.rows[n]
  OBVIOUS
<1>1. /\ tx.pc = "insert" /\ n <= Len(tx.rows) /\ nextDevice \in DeviceIds /\ nextDevice' = nextDevice + 1
      /\ UNCHANGED <<csv, preview, devices, batches, disturbed, importChanges>>
  BY <1>0 DEF InsertRow
<1>2. /\ tx.rows \in Seq(Row) /\ tx.staged \in Seq(Inserted) /\ n \in Nat /\ batches \in Nat
      /\ Len(tx.staged) = n - 1 /\ Len(tx.rows) \in Nat /\ Len(tx.staged) \in Nat
      /\ tx \in [pc : {"none", "check", "insert"}, next : Nat, staged : Seq(Inserted), rows : Seq(Row)]
  BY <1>0, <1>1 DEF ImportInv, ImportTyped, StagedKept
<1>3. n \in 1..Len(tx.rows) /\ r \in Row
  BY <1>00, <1>1, <1>2
<1>4. nextDevice \in 1..MaxDeviceId /\ nextDevice' \in 1..(MaxDeviceId + 1)
  BY <1>1 DEF DeviceIds
<1>5. PreviewKept' /\ DevicesKept'
  BY <1>1, <1>4, DevicesUntouched
<1>6. CASE tx' = NoTx
  <2>1. tx' = [pc |-> "none", next |-> 1, staged |-> << >>, rows |-> << >>]
    BY <1>6 DEF NoTx
  <2>2. ImportTyped'
    BY <1>1, <1>4, <2>1 DEF ImportInv, ImportTyped
  <2>3. RowsFromPreview' /\ StagedKept'
    BY <2>1 DEF RowsFromPreview, StagedKept
  <2> QED
    BY <1>5, <2>2, <2>3 DEF ImportInv
<1>7. CASE /\ r.parent = NoId \/ r.parent \in DOMAIN devices
           /\ tx' = [tx EXCEPT !.next = @ + 1,
                               !.staged = Append(@, [id |-> nextDevice, row |-> Device(r, n)])]
  <2>1. PICK d : d = Device(r, n)
    OBVIOUS
  <2>2. d \in Kept /\ d.host = r.host /\ d.parent = r.parent /\ d.batch = batches + 1 /\ d.of = Len(tx.rows)
    BY <1>2, <1>3, <2>1 DEF Device, Kept, Row
  <2>3. PICK e : e = [id |-> nextDevice, row |-> d]
    OBVIOUS
  <2>4. e \in Inserted /\ e.id = nextDevice /\ e.row = d
    BY <1>1, <2>2, <2>3 DEF Inserted
  <2>15. tx' = [tx EXCEPT !.next = n + 1, !.staged = Append(tx.staged, e)]
    BY <1>0, <1>2, <1>7, <2>1, <2>3
  <2>5. /\ tx'.pc = "insert" /\ tx'.next = n + 1 /\ tx'.rows = tx.rows /\ tx'.staged = Append(tx.staged, e)
        /\ tx' \in [pc : {"none", "check", "insert"}, next : Nat, staged : Seq(Inserted), rows : Seq(Row)]
    <3>3. Append(tx.staged, e) \in Seq(Inserted)
      BY <1>2, <2>4
    <3>1. PICK q \in Seq(Inserted) : q = Append(tx.staged, e)
      BY <3>3
    <3>2. n + 1 \in Nat
      BY <1>2
    <3> QED
      BY <1>1, <1>2, <2>15, <3>1, <3>2
  <2>6. /\ Len(tx'.staged) = n /\ tx'.staged[n] = e
        /\ \A i \in 1..(n - 1) : tx'.staged[i] = tx.staged[i]
    BY <1>2, <2>4, <2>5
  <2>7. ImportTyped'
    BY <1>1, <1>4, <2>5 DEF ImportInv, ImportTyped
  <2>8. RowsFromPreview'
    BY <1>1, <2>5 DEF ImportInv, RowsFromPreview, InOrder
  <2>9. /\ \A i \in 1..(n - 1) : StagedFor(i, tx.staged[i])
        /\ \A i, j \in 1..(n - 1) : i < j => tx.staged[i].id < tx.staged[j].id
        /\ \A k \in 1..Len(tx.rows) : tx.rows[k].host \notin BarredHosts
    BY <1>1, <1>2 DEF ImportInv, StagedKept
  <2>10. StagedFor(n, e)'
    <3>1. nextDevice \notin DOMAIN devices
      BY <1>4 DEF ImportInv, DevicesKept
    <3>2. ASSUME NEW j \in 1..MaxLines PROVE preview[j].parent # nextDevice
      <4>1. preview \in [1..MaxLines -> Row] /\ PreviewOf(j, preview[j])
        BY <1>1 DEF ImportInv, ImportTyped, RowsFromPreview, PreviewKept
      <4>2. preview[j] \in Row
        BY <4>1
      <4> QED
        BY <1>4, <4>1, <4>2 DEF PreviewOf, Row, Ids, NoId
    <3> QED
      BY <1>00, <1>1, <1>4, <1>7, <2>2, <2>4, <2>5, <3>1, <3>2 DEF StagedFor
  <2>11. ASSUME NEW i \in 1..(n - 1) PROVE StagedFor(i, tx.staged[i])' /\ tx.staged[i].id < nextDevice
    <3>0. PICK x : x = tx.staged[i]
      OBVIOUS
    <3>1. StagedFor(i, x) /\ x \in Inserted
      BY <1>2, <2>9, <3>0
    <3>2. x.id \in Nat /\ tx'.staged[i] = x
      BY <2>6, <3>0, <3>1 DEF Inserted, DeviceIds
    <3>3. x.id < nextDevice
      BY <3>1 DEF StagedFor
    <3>4. StagedFor(i, x)'
      BY <1>1, <1>4, <2>5, <3>1, <3>2, <3>3 DEF StagedFor
    <3>5. StagedFor(i, tx.staged[i])'
      BY <3>2, <3>4
    <3> QED
      BY <3>0, <3>3, <3>5
  <2>12. \A i \in 1..n : StagedFor(i, tx.staged[i])'
    <3> SUFFICES ASSUME NEW i \in 1..n PROVE StagedFor(i, tx.staged[i])'
      OBVIOUS
    <3>1. CASE i = n
      BY <2>6, <2>10, <3>1 DEF StagedFor
    <3>2. CASE i \in 1..(n - 1)
      BY <2>11, <3>2
    <3> QED
      BY <1>2, <3>1, <3>2
  <2>13. ASSUME NEW i \in 1..n, NEW j \in 1..n, i < j PROVE tx'.staged[i].id < tx'.staged[j].id
    <3>1. i \in 1..(n - 1) /\ tx'.staged[i] = tx.staged[i]
      BY <1>2, <2>6, <2>13
    <3>2. CASE j = n
      BY <2>4, <2>6, <2>11, <3>1, <3>2
    <3>3. CASE j \in 1..(n - 1)
      BY <2>6, <2>9, <2>13, <3>1, <3>3
    <3> QED
      BY <1>2, <3>2, <3>3
  <2>14. StagedKept'
    BY <1>1, <1>2, <2>5, <2>6, <2>9, <2>12, <2>13 DEF StagedKept
  <2> QED
    BY <1>5, <2>7, <2>8, <2>14 DEF ImportInv
<1> QED
  BY <1>0, <1>00, <1>6, <1>7 DEF InsertRow

\* A commit adds one device for each row and takes none away.
LEMMA CommitImportKeeps == ImportInv /\ CommitImport => ImportInv'
<1> SUFFICES ASSUME ImportInv, CommitImport PROVE ImportInv'
  OBVIOUS
<1> USE ImportConstants
<1> DEFINE n == Len(tx.staged)
           new == {tx.staged[i] : i \in 1..n}
           ids == {tx.staged[i].id : i \in 1..n}
<1>1. /\ tx.pc = "insert" /\ tx.next > Len(tx.rows) /\ batches' = batches + 1 /\ tx' = NoTx /\ disturbed'
      /\ UNCHANGED <<csv, preview, nextDevice, importChanges>>
  BY DEF CommitImport
<1>2. /\ tx.staged \in Seq(Inserted) /\ n \in Nat /\ batches \in Nat /\ nextDevice \in Nat
      /\ DOMAIN tx.staged = 1..n /\ \A i \in 1..n : tx.staged[i] \in Inserted
      /\ Len(tx.rows) \in Nat /\ tx.next \in Nat
  BY DEF ImportInv, ImportTyped
<1>3. /\ n = Len(tx.rows)
      /\ \A i \in 1..n : StagedFor(i, tx.staged[i])
      /\ \A i, j \in 1..n : i < j => tx.staged[i].id < tx.staged[j].id
      /\ \A i \in 1..n : tx.rows[i].host \notin BarredHosts
  <2>1. n = tx.next - 1 /\ n <= Len(tx.rows)
    BY <1>1 DEF ImportInv, StagedKept
  <2>2. n = Len(tx.rows)
    BY <1>1, <1>2, <2>1
  <2> QED
    BY <1>1, <2>2 DEF ImportInv, StagedKept
<1>4. \A i, j \in 1..n : tx.staged[i].id = tx.staged[j].id => i = j
  <2> SUFFICES ASSUME NEW i \in 1..n, NEW j \in 1..n, i # j PROVE tx.staged[i].id # tx.staged[j].id
    OBVIOUS
  <2>1. i < j \/ j < i
    BY <1>2
  <2>2. tx.staged[i].id \in Nat /\ tx.staged[j].id \in Nat
    BY <1>2 DEF Inserted, DeviceIds
  <2> QED
    BY <1>3, <2>1, <2>2
<1>5. devices' = [id \in DOMAIN devices \cup ids |->
                    IF Staged(id) THEN (CHOOSE s \in new : s.id = id).row ELSE devices[id]]
  BY <1>2 DEF CommitImport
<1>6. DOMAIN devices' = DOMAIN devices \cup ids
  BY <1>5
<1>7. ASSUME NEW id \in DOMAIN devices PROVE devices'[id] = devices[id] /\ id \notin ids
  <2>1. ~Staged(id) /\ id \notin ids
    BY <1>2, <1>3 DEF Staged, StagedFor
  <2> QED
    BY <1>5, <2>1
<1>8. ASSUME NEW i \in 1..n PROVE devices'[tx.staged[i].id] = tx.staged[i].row
  <2>1. Staged(tx.staged[i].id)
    BY <1>2 DEF Staged
  <2>2. tx.staged[i] \in new /\ \A s \in new : s.id = tx.staged[i].id => s = tx.staged[i]
    BY <1>4
  <2>3. (CHOOSE s \in new : s.id = tx.staged[i].id) = tx.staged[i]
    BY <2>2
  <2>4. tx.staged[i].id \in ids
    OBVIOUS
  <2> QED
    BY <1>5, <2>1, <2>3, <2>4
<1> HIDE DEF new
<1>9. \A i \in 1..n : tx.staged[i].row \in Kept /\ tx.staged[i].id \in DeviceIds
  BY <1>2 DEF Inserted
<1>10. ImportTyped'
  <2>1. tx' \in [pc : {"none", "check", "insert"}, next : Nat, staged : Seq(Inserted), rows : Seq(Row)]
    BY <1>1 DEF NoTx
  <2>2. DOMAIN devices' \subseteq DeviceIds /\ \A id \in DOMAIN devices' : devices'[id] \in Kept
    <3>1. DOMAIN devices \subseteq DeviceIds /\ \A id \in DOMAIN devices : devices[id] \in Kept
      BY DEF ImportInv, ImportTyped
    <3>2. ids \subseteq DeviceIds
      BY <1>9
    <3>3. ASSUME NEW id \in ids PROVE devices'[id] \in Kept
      <4>1. PICK i \in 1..n : id = tx.staged[i].id
        OBVIOUS
      <4> QED
        BY <1>8, <1>9, <4>1
    <3> HIDE DEF ids
    <3> QED
      BY <1>6, <1>7, <3>1, <3>2, <3>3
  <2> QED
    BY <1>1, <2>1, <2>2 DEF ImportInv, ImportTyped
<1>11. RowsFromPreview' /\ StagedKept'
  BY <1>1 DEF NoTx, RowsFromPreview, StagedKept
<1>12. PreviewKept'
  <2> SUFFICES ASSUME preview # << >>, NEW i \in 1..MaxLines PROVE PreviewOf(i, preview[i])'
    BY <1>1 DEF PreviewKept
  <2>1. PreviewOf(i, preview[i])
    BY DEF ImportInv, PreviewKept
  <2>2. preview[i].parent \notin ids
    BY <1>3 DEF StagedFor
  <2>3. /\ preview'[i] = preview[i] /\ csv' = csv /\ nextDevice' = nextDevice
        /\ preview[i].parent \in DOMAIN devices' =>
              /\ preview[i].parent \in DOMAIN devices
              /\ devices'[preview[i].parent] = devices[preview[i].parent]
    BY <1>1, <1>6, <1>7, <2>2
  <2> QED
    BY <1>1, <2>1, <2>3 DEF PreviewOf
<1>13. \A id \in DOMAIN devices : devices[id].batch <= batches /\ devices[id].batch \in Nat
  BY DEF ImportInv, ImportTyped, DevicesKept, Kept
<1>14. {x \in DOMAIN devices' : devices'[x].batch = batches + 1} = ids
  <2>1. \A i \in 1..n : devices'[tx.staged[i].id].batch = batches + 1
    BY <1>3, <1>8 DEF StagedFor
  <2>2. \A id \in ids : devices'[id].batch = batches + 1
    BY <2>1
  <2>3. \A id \in DOMAIN devices : devices'[id].batch # batches + 1
    BY <1>2, <1>7, <1>13
  <2> HIDE DEF ids
  <2> QED
    BY <1>6, <2>2, <2>3
<1>15. Cardinality(ids) = n
  <2> DEFINE f == [i \in 1..n |-> tx.staged[i].id]
  <2>1. f \in Bijection(1..n, ids)
    BY <1>4 DEF Bijection, Injection, Surjection, IsInjective
  <2>2. IsFiniteSet(1..n) /\ Cardinality(1..n) = n
    <3>1. n >= 1 \/ 1..n = {}
      BY <1>2
    <3> QED
      BY <1>2, <3>1, FS_Interval, FS_EmptySet
  <2>3. ExistsBijection(1..n, ids)
    BY <2>1 DEF ExistsBijection
  <2> HIDE DEF ids
  <2> QED
    BY <2>2, <2>3, FS_Bijection
<1>16. ASSUME NEW id \in DOMAIN devices
       PROVE  {x \in DOMAIN devices' : devices'[x].batch = devices[id].batch} = Imported(devices[id].batch)
  <2>1. \A x \in ids : devices'[x].batch = batches + 1
    BY <1>14
  <2>2. devices[id].batch # batches + 1
    BY <1>2, <1>13
  <2> HIDE DEF ids
  <2> QED
    BY <1>6, <1>7, <2>1, <2>2 DEF Imported
<1>17. ASSUME NEW id \in DOMAIN devices PROVE
         /\ id < nextDevice /\ devices'[id].batch <= batches + 1
         /\ devices'[id].parent \in DOMAIN devices' \cup {NoId}
         /\ devices'[id].batch > 0 =>
               /\ Cardinality({x \in DOMAIN devices' : devices'[x].batch = devices'[id].batch}) = devices'[id].of
               /\ devices'[id].host \notin BarredHosts
               /\ devices'[id].parent # NoId =>
                    \E i \in 1..MaxLines : csv[i].host = devices'[id].host
                                           /\ csv[i].parentHost = devices'[devices'[id].parent].host
  <2>1. /\ id < nextDevice /\ devices[id].batch <= batches
        /\ devices[id].parent \in DOMAIN devices \cup {NoId}
        /\ devices[id].batch > 0 =>
              /\ Cardinality(Imported(devices[id].batch)) = devices[id].of
              /\ devices[id].host \notin BarredHosts
              /\ devices[id].parent # NoId =>
                    \E i \in 1..MaxLines : csv[i].host = devices[id].host
                                           /\ csv[i].parentHost = devices[devices[id].parent].host
    BY DEF ImportInv, DevicesKept
  <2>2. devices'[id] = devices[id]
    BY <1>7
  <2>3. devices[id].parent # NoId => devices'[devices[id].parent] = devices[devices[id].parent]
    BY <1>7, <2>1
  <2>4. devices[id].batch \in Nat /\ devices[id].batch <= batches + 1
    BY <1>2, <1>13
  <2> QED
    BY <1>6, <1>16, <2>1, <2>2, <2>3, <2>4
<1>18. ASSUME NEW i \in 1..n PROVE
         LET id == tx.staged[i].id IN
         /\ id < nextDevice /\ devices'[id].batch = batches + 1 /\ devices'[id].of = n
         /\ devices'[id].parent \in DOMAIN devices \cup {NoId}
         /\ devices'[id].host \notin BarredHosts
         /\ devices'[id].parent # NoId =>
              \E k \in 1..MaxLines : csv[k].host = devices'[id].host
                                     /\ csv[k].parentHost = devices'[devices'[id].parent].host
  <2>1. PICK row : row = tx.staged[i].row
    OBVIOUS
  <2>2. devices'[tx.staged[i].id] = row
    BY <1>8, <2>1
  <2>3. /\ tx.staged[i].id < nextDevice /\ row.host = tx.rows[i].host /\ row.parent = tx.rows[i].parent
        /\ row.parent \in DOMAIN devices \cup {NoId} /\ row.batch = batches + 1 /\ row.of = n
        /\ row.host \notin BarredHosts
    BY <1>3, <2>1 DEF StagedFor
  <2>4. PICK line \in [1..n -> 1..MaxLines] : InOrder(tx.rows, line)
    BY <1>1, <1>3 DEF ImportInv, RowsFromPreview
  <2>5. line[i] \in 1..MaxLines /\ tx.rows[i] = preview[line[i]]
    BY <1>3, <2>4 DEF InOrder
  <2>6. PreviewOf(line[i], preview[line[i]])
    BY <1>1, <2>5 DEF ImportInv, PreviewKept, RowsFromPreview
  <2>7. csv[line[i]].host = row.host
    BY <2>3, <2>5, <2>6 DEF PreviewOf
  <2>8. row.parent # NoId => csv[line[i]].parentHost = devices[row.parent].host /\ devices'[row.parent] = devices[row.parent]
    BY <1>7, <2>3, <2>5, <2>6 DEF PreviewOf
  <2> QED
    BY <2>2, <2>3, <2>5, <2>7, <2>8
<1>19. DevicesKept'
  <2> SUFFICES ASSUME NEW id \in DOMAIN devices' PROVE
         /\ id < nextDevice /\ devices'[id].batch <= batches + 1
         /\ devices'[id].parent \in DOMAIN devices' \cup {NoId}
         /\ devices'[id].batch > 0 =>
               /\ Cardinality({x \in DOMAIN devices' : devices'[x].batch = devices'[id].batch}) = devices'[id].of
               /\ devices'[id].host \notin BarredHosts
               /\ devices'[id].parent # NoId =>
                    \E i \in 1..MaxLines : csv[i].host = devices'[id].host
                                           /\ csv[i].parentHost = devices'[devices'[id].parent].host
    BY <1>1 DEF DevicesKept, Imported
  <2>1. CASE id \in DOMAIN devices
    BY <1>17, <2>1
  <2>2. CASE id \in ids
    <3>1. PICK i \in 1..n : id = tx.staged[i].id
      BY <2>2
    <3>2. /\ id < nextDevice /\ devices'[id].batch = batches + 1 /\ devices'[id].of = n
          /\ devices'[id].parent \in DOMAIN devices \cup {NoId}
          /\ devices'[id].host \notin BarredHosts
          /\ devices'[id].parent # NoId =>
               \E k \in 1..MaxLines : csv[k].host = devices'[id].host
                                      /\ csv[k].parentHost = devices'[devices'[id].parent].host
      BY <1>18, <3>1
    <3>3. Cardinality({x \in DOMAIN devices' : devices'[x].batch = devices'[id].batch}) = devices'[id].of
      BY <1>14, <1>15, <3>2
    <3> QED
      BY <1>2, <1>6, <3>2, <3>3
  <2> QED
    BY <1>6, <2>1, <2>2
<1> QED
  BY <1>10, <1>11, <1>12, <1>19 DEF ImportInv

\* A device added by hand has an identifier of its own.
LEMMA AddKeeps == ASSUME ImportInv, NEW h \in ImportHosts \ BarredHosts, AddByHand(h) PROVE ImportInv'
<1> USE ImportConstants
<1>1. PICK d : d = [host |-> h, parent |-> NoId, batch |-> 0, of |-> 0, line |-> 0]
  OBVIOUS
<1>2. d \in Kept /\ d.parent = NoId /\ d.batch = 0
  BY <1>1 DEF Kept, Ids
<1>3. /\ nextDevice \in DeviceIds /\ nextDevice' = nextDevice + 1 /\ disturbed'
      /\ importChanges' = importChanges + 1 /\ importChanges < MaxImportChanges
      /\ UNCHANGED <<csv, preview, tx, batches>>
      /\ devices' = [id \in DOMAIN devices \cup {nextDevice} |-> IF id = nextDevice THEN d ELSE devices[id]]
  BY <1>1 DEF AddByHand, ByOthers
<1>4. nextDevice \in 1..MaxDeviceId /\ nextDevice' \in 1..(MaxDeviceId + 1) /\ batches \in Nat
  BY <1>3 DEF DeviceIds, ImportInv, ImportTyped
<1>5. \A id \in DOMAIN devices : id < nextDevice /\ id \in Nat
  BY DEF ImportInv, ImportTyped, DevicesKept, DeviceIds
<1>6. nextDevice \notin DOMAIN devices
  BY <1>4, <1>5
<1>7. /\ DOMAIN devices' = DOMAIN devices \cup {nextDevice} /\ devices'[nextDevice] = d
      /\ \A id \in DOMAIN devices : devices'[id] = devices[id]
  BY <1>3, <1>6
<1>8. ImportTyped'
  BY <1>2, <1>3, <1>4, <1>7 DEF ImportInv, ImportTyped
<1>9. PreviewKept'
  <2> SUFFICES ASSUME preview # << >>, NEW i \in 1..MaxLines PROVE PreviewOf(i, preview[i])'
    BY <1>3 DEF PreviewKept
  <2>1. PreviewOf(i, preview[i]) /\ preview \in [1..MaxLines -> Row]
    BY DEF ImportInv, PreviewKept, ImportTyped
  <2>2. preview[i].parent \in Nat
    BY <2>1 DEF Row, Ids, DeviceIds, NoId
  <2>3. preview[i].parent # NoId => preview[i].parent < nextDevice
    BY <2>1 DEF PreviewOf
  <2> QED
    BY <1>3, <1>4, <1>7, <2>1, <2>2, <2>3 DEF PreviewOf
<1>10. RowsFromPreview'
  BY <1>3 DEF ImportInv, RowsFromPreview, InOrder
<1>11. StagedKept'
  <2>1. CASE tx.pc = "insert"
    <3>1. ASSUME NEW i \in 1..Len(tx.staged) PROVE StagedFor(i, tx.staged[i])'
      <4>1. StagedFor(i, tx.staged[i]) /\ tx.staged[i] \in Inserted
        BY <2>1 DEF ImportInv, StagedKept, ImportTyped
      <4>2. tx.staged[i].id \in Nat
        BY <4>1 DEF Inserted, DeviceIds
      <4> QED
        BY <1>3, <1>4, <1>7, <4>1, <4>2 DEF StagedFor
    <3> QED
      BY <1>3, <2>1, <3>1 DEF ImportInv, StagedKept
  <2>2. CASE tx.pc # "insert"
    BY <1>3, <2>2 DEF ImportInv, StagedKept
  <2> QED
    BY <2>1, <2>2
<1>12. DevicesKept'
  <2> SUFFICES ASSUME NEW id \in DOMAIN devices' PROVE
         /\ id < nextDevice + 1 /\ devices'[id].batch <= batches
         /\ devices'[id].parent \in DOMAIN devices' \cup {NoId}
         /\ devices'[id].batch > 0 =>
               /\ Cardinality({x \in DOMAIN devices' : devices'[x].batch = devices'[id].batch}) = devices'[id].of
               /\ devices'[id].host \notin BarredHosts
               /\ devices'[id].parent # NoId =>
                    \E i \in 1..MaxLines : csv[i].host = devices'[id].host
                                           /\ csv[i].parentHost = devices'[devices'[id].parent].host
    <3>1. csv' = csv /\ batches' = batches /\ nextDevice' = nextDevice + 1
      BY <1>3
    <3> QED
      BY <3>1 DEF DevicesKept, Imported
  <2>1. CASE id = nextDevice
    BY <1>2, <1>4, <1>7, <2>1
  <2>2. CASE id \in DOMAIN devices
    <3>1. /\ id < nextDevice /\ devices[id].batch <= batches
          /\ devices[id].parent \in DOMAIN devices \cup {NoId}
          /\ devices[id].batch > 0 =>
                /\ Cardinality(Imported(devices[id].batch)) = devices[id].of
                /\ devices[id].host \notin BarredHosts
                /\ devices[id].parent # NoId =>
                      \E i \in 1..MaxLines : csv[i].host = devices[id].host
                                             /\ csv[i].parentHost = devices[devices[id].parent].host
      BY <2>2 DEF ImportInv, DevicesKept
    <3>2. devices'[id] = devices[id] /\ id < nextDevice + 1
      BY <1>4, <1>5, <1>7, <2>2
    <3>3. devices[id].parent # NoId => devices'[devices[id].parent] = devices[devices[id].parent]
      BY <1>7, <3>1
    <3>4. devices[id].batch > 0 =>
            {x \in DOMAIN devices' : devices'[x].batch = devices[id].batch} = Imported(devices[id].batch)
      BY <1>2, <1>7 DEF Imported
    <3> QED
      BY <1>7, <3>1, <3>2, <3>3, <3>4
  <2> QED
    BY <1>7, <2>1, <2>2
<1> QED
  BY <1>8, <1>9, <1>10, <1>11, <1>12 DEF ImportInv

\* A device that goes takes its children's link with it.
LEMMA DeleteByIdKeeps == ASSUME ImportInv, NEW d \in DeviceIds, DeleteById(d) PROVE ImportInv'
<1> USE ImportConstants
<1>1. /\ d \in DOMAIN devices /\ devices[d].batch = 0 /\ disturbed'
      /\ \A i \in DOMAIN tx.staged : tx.staged[i].row.parent # d
      /\ importChanges' = importChanges + 1 /\ importChanges < MaxImportChanges
      /\ UNCHANGED <<csv, preview, tx, batches, nextDevice>>
      /\ devices' = [id \in DOMAIN devices \ {d} |->
                       IF devices[id].parent = d THEN [devices[id] EXCEPT !.parent = NoId] ELSE devices[id]]
  BY DEF DeleteById, ByOthers
<1>2. DOMAIN devices' = DOMAIN devices \ {d}
  BY <1>1
<1>3. ASSUME NEW id \in DOMAIN devices'
      PROVE  /\ id \in DOMAIN devices /\ id # d /\ devices'[id] \in Kept
             /\ devices'[id].host = devices[id].host /\ devices'[id].batch = devices[id].batch
             /\ devices'[id].of = devices[id].of
             /\ devices'[id].parent = IF devices[id].parent = d THEN NoId ELSE devices[id].parent
  <2>1. id \in DOMAIN devices /\ id # d /\ devices[id] \in Kept
    BY <1>2 DEF ImportInv, ImportTyped
  <2>2. CASE devices[id].parent = d
    <3>1. PICK x : x = [devices[id] EXCEPT !.parent = NoId]
      OBVIOUS
    <3>2. /\ x \in Kept /\ x.host = devices[id].host /\ x.batch = devices[id].batch
          /\ x.of = devices[id].of /\ x.parent = NoId
      BY <2>1, <3>1 DEF Kept, Ids
    <3> QED
      BY <1>1, <1>2, <2>1, <2>2, <3>1, <3>2
  <2>3. CASE devices[id].parent # d
    BY <1>1, <1>2, <2>1, <2>3
  <2> QED
    BY <2>2, <2>3
<1>4. /\ d \in DOMAIN devices /\ devices[d].batch = 0 /\ disturbed'
      /\ \A i \in DOMAIN tx.staged : tx.staged[i].row.parent # d
      /\ importChanges' = importChanges + 1 /\ importChanges < MaxImportChanges
      /\ UNCHANGED <<csv, preview, tx, batches, nextDevice>>
  BY <1>1
<1>5. ImportTyped'
  BY <1>2, <1>3, <1>4 DEF ImportInv, ImportTyped
<1>6. PreviewKept'
  <2> SUFFICES ASSUME preview # << >>, NEW i \in 1..MaxLines PROVE PreviewOf(i, preview[i])'
    BY <1>4 DEF PreviewKept
  <2>1. PreviewOf(i, preview[i])
    BY DEF ImportInv, PreviewKept
  <2> QED
    BY <1>3, <1>4, <2>1 DEF PreviewOf
<1>7. RowsFromPreview'
  BY <1>4 DEF ImportInv, RowsFromPreview, InOrder
<1>8. StagedKept'
  <2>1. CASE tx.pc = "insert"
    <3>1. ASSUME NEW i \in 1..Len(tx.staged) PROVE StagedFor(i, tx.staged[i])'
      <4>1. StagedFor(i, tx.staged[i]) /\ tx.staged[i].row.parent # d
        BY <1>4, <2>1 DEF ImportInv, StagedKept, ImportTyped
      <4> QED
        BY <1>2, <1>4, <4>1 DEF StagedFor
    <3> QED
      BY <1>4, <2>1, <3>1 DEF ImportInv, StagedKept
  <2>2. CASE tx.pc # "insert"
    BY <1>4, <2>2 DEF ImportInv, StagedKept
  <2> QED
    BY <2>1, <2>2
<1>9. ASSUME NEW id \in DOMAIN devices', devices'[id].batch > 0
      PROVE  {x \in DOMAIN devices' : devices'[x].batch = devices'[id].batch} = Imported(devices[id].batch)
  <2>1. devices[id].batch # 0 /\ devices'[id].batch = devices[id].batch
    BY <1>3, <1>9
  <2> QED
    BY <1>2, <1>3, <1>4, <2>1 DEF Imported
<1>10. DevicesKept'
  <2> SUFFICES ASSUME NEW id \in DOMAIN devices' PROVE
         /\ id < nextDevice /\ devices'[id].batch <= batches
         /\ devices'[id].parent \in DOMAIN devices' \cup {NoId}
         /\ devices'[id].batch > 0 =>
               /\ Cardinality({x \in DOMAIN devices' : devices'[x].batch = devices'[id].batch}) = devices'[id].of
               /\ devices'[id].host \notin BarredHosts
               /\ devices'[id].parent # NoId =>
                    \E i \in 1..MaxLines : csv[i].host = devices'[id].host
                                           /\ csv[i].parentHost = devices'[devices'[id].parent].host
    BY <1>4 DEF DevicesKept, Imported
  <2>1. /\ id < nextDevice /\ devices[id].batch <= batches
        /\ devices[id].parent \in DOMAIN devices \cup {NoId}
        /\ devices[id].batch > 0 =>
              /\ Cardinality(Imported(devices[id].batch)) = devices[id].of
              /\ devices[id].host \notin BarredHosts
              /\ devices[id].parent # NoId =>
                    \E i \in 1..MaxLines : csv[i].host = devices[id].host
                                           /\ csv[i].parentHost = devices[devices[id].parent].host
    BY <1>3 DEF ImportInv, DevicesKept
  <2>2. devices'[id].parent # NoId => /\ devices'[id].parent = devices[id].parent
                                      /\ devices[id].parent \in DOMAIN devices'
                                      /\ devices'[devices[id].parent].host = devices[devices[id].parent].host
    BY <1>2, <1>3, <2>1
  <2> QED
    BY <1>3, <1>9, <2>1, <2>2
<1> QED
  BY <1>5, <1>6, <1>7, <1>8, <1>10 DEF ImportInv

\* An import is all or nothing, links a device only to the parent its line names,
\* and its preview flags every duplicate (csv_importer.go).
THEOREM CsvImportSafeAlways == CsvImportSpec => []CsvImportSafe
<1>1. ImportInv /\ [CsvImportNext]_importVars => ImportInv'
  <2> SUFFICES ASSUME ImportInv, [CsvImportNext]_importVars PROVE ImportInv'
    OBVIOUS
  <2>1. CASE ImportPreview
    BY <2>1, PreviewKeeps
  <2>2. CASE \E wanted \in SUBSET DOMAIN preview : ImportExecute(wanted)
    BY <2>2, ExecuteKeeps
  <2>3. CASE CheckHosts \/ AbortImport
    BY <2>3, CheckKeeps
  <2>4. CASE InsertRow
    BY <2>4, InsertKeeps
  <2>5. CASE CommitImport
    BY <2>5, CommitImportKeeps
  <2>6. CASE \E h \in ImportHosts \ BarredHosts : AddByHand(h)
    BY <2>6, AddKeeps
  <2>7. CASE \E d \in DeviceIds : DeleteById(d)
    BY <2>7, DeleteByIdKeeps
  <2>8. CASE UNCHANGED importVars
    <3>1. UNCHANGED <<csv, preview, tx, devices, nextDevice, batches, disturbed, importChanges>>
      BY <2>8 DEF importVars
    <3>2. ImportTyped'
      BY <3>1 DEF ImportInv, ImportTyped
    <3>3. PreviewKept' /\ DevicesKept'
      BY <3>1, DevicesUntouched, ImportConstants DEF ImportInv, ImportTyped
    <3>4. RowsFromPreview'
      BY <3>1 DEF ImportInv, RowsFromPreview, InOrder
    <3>5. StagedKept'
      BY <3>1 DEF ImportInv, StagedKept, StagedFor
    <3> QED
      BY <3>2, <3>3, <3>4, <3>5 DEF ImportInv
  <2> QED
    BY <2>1, <2>2, <2>3, <2>4, <2>5, <2>6, <2>7, <2>8 DEF CsvImportNext
<1> QED
  BY <1>1, InitImport, ImportInvImplies, PTL DEF CsvImportSpec
=============================================================================
