------------------------------- MODULE MCData -------------------------------
(***************************************************************************)
(* Cached, imported and derived data, in one run for TLC: each             *)
(* behaviour moves one component and leaves the others in their initial    *)
(* state, and the properties of all of them are checked.                   *)
(***************************************************************************)
EXTENDS Caches, DeviceAccess, FlowRecords, CsvImport, TLC

CONSTANT Components   \* the components this run moves
VARIABLE component    \* the one that moves in this behaviour

CONSTANTS q1, q2, h1, h2

\* The concurrent requests of every component are interchangeable, and the hosts
\* that may be imported.
Symmetric == Permutations({q1, q2}) \cup Permutations({h1, h2})

allVars == <<component, cacheAsideVars, ruleCacheVars, deviceVars,
             flowRecordVars, importVars>>

DataInit ==
    /\ component \in Components
    /\ component # "CacheAside" => focus = CHOOSE k \in CacheKeys : TRUE
    /\ CacheAsideInit
    /\ RuleCacheInit
    /\ DeviceAccessInit
    /\ component # "FlowRecords" => datagram = CHOOSE d \in Datagrams : TRUE
    /\ FlowRecordsInit
    /\ component # "CsvImport" => csv = CHOOSE c \in [1..MaxLines -> Lines] : TRUE
    /\ CsvImportInit

Rest ==
    /\ UNCHANGED component
    /\ IF component = "CacheAside" THEN TRUE ELSE UNCHANGED cacheAsideVars
    /\ IF component = "RuleCache" THEN TRUE ELSE UNCHANGED ruleCacheVars
    /\ IF component = "DeviceAccess" THEN TRUE ELSE UNCHANGED deviceVars
    /\ IF component = "FlowRecords" THEN TRUE ELSE UNCHANGED flowRecordVars
    /\ IF component = "CsvImport" THEN TRUE ELSE UNCHANGED importVars

DataNext ==
    \/ component = "CacheAside" /\ CacheAsideNext /\ Rest
    \/ component = "RuleCache" /\ RuleCacheNext /\ Rest
    \/ component = "DeviceAccess" /\ DeviceAccessNext /\ Rest
    \/ component = "FlowRecords" /\ FlowRecordsNext /\ Rest
    \/ component = "CsvImport" /\ CsvImportNext /\ Rest

DataSpec == DataInit /\ [][DataNext]_allVars
=============================================================================
