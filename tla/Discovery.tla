----------------------------- MODULE Discovery -----------------------------
(***************************************************************************)
(* Subnet scans and the review of their results: discovery/scanner.go and  *)
(* discovery/handlers.go, over the tables discovery_jobs,                  *)
(* discovery_results and devices.                                          *)
(***************************************************************************)
EXTENDS Integers, FiniteSets

CONSTANTS
    Jobs,             \* scans requested
    Addresses4,       \* addresses of the subnet
    Concurrency,      \* defaultConcurrency (64): hosts probed at a time
    MaxScanErrors,    \* bound: failures of a database statement
    MaxScanCrashes,   \* bound: crashes of the server
    MaxAdded          \* bound: devices an administrator adds meanwhile

ASSUME DiscoveryAssumption ==
    /\ Concurrency \in Nat \ {0} /\ {MaxScanErrors, MaxScanCrashes, MaxAdded} \subseteq Nat

VARIABLES
    job,        \* rows of discovery_jobs and the goroutine that scans
    results,    \* rows of discovery_results: <<job, address, status>>
    monitored,  \* addresses in devices
    refused,    \* results whose approval was answered with an error (history)
    scanErrors, scanCrashes, added \* (history)

discoveryVars == <<job, results, monitored, refused, scanErrors, scanCrashes, added>>

NoJob == [status |-> "none", pc |-> "none", exclude |-> TRUE, todo |-> {}, probing |-> {}, found |-> {},
          store |-> {}, foundCount |-> 0, newCount |-> 0, knownCount |-> 0]

DiscoveryTypeOK ==
    /\ \A j \in Jobs : /\ job[j].status \in {"none", "pending", "running", "completed", "failed"}
                       /\ job[j].pc \in {"none", "start", "known", "total", "probe", "store", "finish", "fail", "end"}
                       /\ UNION {job[j].todo, job[j].probing, job[j].found, job[j].store} \subseteq Addresses4
    /\ results \subseteq Jobs \X Addresses4 \X {"pending", "rejected"}
    /\ monitored \subseteq Addresses4 /\ refused \subseteq Jobs \X Addresses4
    /\ scanErrors \in 0..MaxScanErrors /\ scanCrashes \in 0..MaxScanCrashes /\ added \in 0..MaxAdded

DiscoveryInit ==
    /\ job = [j \in Jobs |-> NoJob] /\ results = {} /\ monitored = {} /\ refused = {}
    /\ scanErrors = 0 /\ scanCrashes = 0 /\ added = 0

Update(j, r) ==
    /\ job' = [job EXCEPT ![j] = r]
    /\ UNCHANGED <<monitored, refused, scanCrashes, added>>

DbOk == UNCHANGED scanErrors
DbFails == scanErrors < MaxScanErrors /\ scanErrors' = scanErrors + 1

-----------------------------------------------------------------------------
\* StartScan: Validate bounds the subnet, the row is inserted and a goroutine
\* scans under a context nobody ends.
StartScan(j, exclude) ==
    /\ job[j].pc = "none"
    /\ Update(j, [NoJob EXCEPT !.status = "pending", !.pc = "start", !.exclude = exclude])
    /\ DbOk /\ UNCHANGED results

\* updateJobStatus(running): its error is ignored.  Then expandCIDR: a subnet
\* of more than two addresses loses its first and last, which Addresses4 leaves out.
BeginScan(j) ==
    /\ job[j].pc = "start"
    /\ LET r == [job[j] EXCEPT !.pc = IF job[j].exclude THEN "known" ELSE "total", !.todo = Addresses4]
       IN \/ Update(j, [r EXCEPT !.status = "running"]) /\ DbOk
          \/ Update(j, r) /\ DbFails
    /\ UNCHANGED results

\* getKnownIPs and excludeIPs.
ExcludeKnown(j) ==
    /\ job[j].pc = "known"
    /\ \/ Update(j, [job[j] EXCEPT !.pc = "total", !.todo = @ \ monitored]) /\ DbOk
       \/ Update(j, [job[j] EXCEPT !.pc = "fail"]) /\ DbFails
    /\ UNCHANGED results

StoreTotal(j) ==
    /\ job[j].pc = "total"
    /\ \/ Update(j, [job[j] EXCEPT !.pc = "probe"]) /\ DbOk
       \/ Update(j, [job[j] EXCEPT !.pc = "fail"]) /\ DbFails
    /\ UNCHANGED results

\* One goroutine per address waits for the semaphore of its scan.
AcquireProbe(j, a) ==
    /\ job[j].pc = "probe" /\ a \in job[j].todo /\ Cardinality(job[j].probing) < Concurrency
    /\ Update(j, [job[j] EXCEPT !.todo = @ \ {a}, !.probing = @ \cup {a}])
    /\ DbOk /\ UNCHANGED results

\* pingHost: a host that does not answer gives no result; the probes of one
\* that does (ports, HTTP, SSH, TLS, SNMP) fill in its description.
Probe(j, a) ==
    /\ job[j].pc = "probe" /\ a \in job[j].probing
    /\ \E up \in BOOLEAN :
         Update(j, [job[j] EXCEPT !.probing = @ \ {a}, !.found = IF up THEN @ \cup {a} ELSE @])
    /\ DbOk /\ UNCHANGED results

\* wg.Wait.
ProbesDone(j) ==
    /\ job[j].pc = "probe" /\ job[j].todo = {} /\ job[j].probing = {}
    /\ Update(j, [job[j] EXCEPT !.pc = "store", !.store = job[j].found])
    /\ DbOk /\ UNCHANGED results

\* insertResult: known if a device has the address by now, or new; a failure to
\* look that up counts as new, a failure to insert is logged and not counted.
InsertResult(j, a) ==
    /\ job[j].pc = "store" /\ a \in job[j].store
    /\ LET r == [job[j] EXCEPT !.store = @ \ {a}]
           new == [r EXCEPT !.newCount = @ + 1]
           stored == results' = results \cup {<<j, a, "pending">>}
       IN \/ Update(j, IF a \in monitored THEN [r EXCEPT !.knownCount = @ + 1] ELSE new) /\ stored /\ DbOk
          \/ Update(j, new) /\ stored /\ DbFails
          \/ Update(j, r) /\ UNCHANGED results /\ DbFails

StoredAll(j) ==
    /\ job[j].pc = "store" /\ job[j].store = {}
    /\ Update(j, [job[j] EXCEPT !.pc = "finish"])
    /\ DbOk /\ UNCHANGED results

\* Seeded fault: a failed last update is only returned.
FinishQuietly(j) ==
    /\ job[j].pc = "finish"
    /\ \/ Update(j, [job[j] EXCEPT !.pc = "end", !.status = "completed", !.foundCount = Cardinality(job[j].found)]) /\ DbOk
       \/ Update(j, [job[j] EXCEPT !.pc = "end"]) /\ DbFails
    /\ UNCHANGED results

\* The counts and the status, in one statement.
FinishScan(j) ==
    /\ job[j].pc = "finish"
    /\ \/ Update(j, [job[j] EXCEPT !.pc = "end", !.status = "completed", !.foundCount = Cardinality(job[j].found)]) /\ DbOk
       \/ Update(j, [job[j] EXCEPT !.pc = "fail"]) /\ DbFails
    /\ UNCHANGED results

\* updateJobStatus(failed): its error is ignored.
UpdateJobStatus(j) ==
    /\ job[j].pc = "fail"
    /\ \/ Update(j, [job[j] EXCEPT !.pc = "end", !.status = "failed"]) /\ DbOk
       \/ Update(j, [job[j] EXCEPT !.pc = "end"]) /\ DbFails
    /\ UNCHANGED results

-----------------------------------------------------------------------------
\* An administrator adds a device with this address.
AddDevice(a) ==
    /\ added < MaxAdded /\ added' = added + 1
    /\ monitored' = monitored \cup {a}
    /\ UNCHANGED <<job, results, refused, scanErrors, scanCrashes>>

\* The columns of discovery_results, and those the two approvals select.
ResultColumns ==
    {"id", "job_id", "ip_address", "mac_address", "manufacturer", "hostname", "device_description",
     "guessed_category", "guessed_os", "open_ports", "snmp_reachable", "response_time_ms", "status",
     "approved_device_id", "discovered_at", "http_title", "ssh_banner", "tls_cert_cn", "snmp_name",
     "snmp_description", "snmp_sys_object_id"}
ApprovalColumns ==
    {"id", "job_id", "ip_address", "mac_address", "manufacturer", "hostname", "device_description",
     "guessed_category", "guessed_os", "open_ports", "snmp_reachable", "response_time_ms", "status",
     "location_id"}

\* ApproveResult and BulkApprove read the result first; a statement that names
\* a column the table does not have is answered with an internal error.
ApproveResult(j, a) ==
    /\ <<j, a, "pending">> \in results /\ ~(ApprovalColumns \subseteq ResultColumns)
    /\ refused' = refused \cup {<<j, a>>}
    /\ UNCHANGED <<job, results, monitored, scanErrors, scanCrashes, added>>

BulkApprove(rows) ==
    /\ rows # {} /\ ~(ApprovalColumns \subseteq ResultColumns)
    /\ refused' = refused \cup {<<r[1], r[2]>> : r \in rows}
    /\ UNCHANGED <<job, results, monitored, scanErrors, scanCrashes, added>>

\* RejectResult: only a pending result.
RejectResult(j, a) ==
    /\ <<j, a, "pending">> \in results
    /\ results' = (results \ {<<j, a, "pending">>}) \cup {<<j, a, "rejected">>}
    /\ UNCHANGED <<job, monitored, refused, scanErrors, scanCrashes, added>>

\* The server dies; nothing takes its scans up again or marks their rows.
CrashScans ==
    /\ scanCrashes < MaxScanCrashes /\ scanCrashes' = scanCrashes + 1
    /\ job' = [j \in Jobs |-> IF job[j].pc = "none" THEN job[j] ELSE [job[j] EXCEPT !.pc = "end"]]
    /\ UNCHANGED <<results, monitored, refused, scanErrors, added>>

ScanStep(j) ==
    \/ BeginScan(j) \/ ExcludeKnown(j) \/ StoreTotal(j) \/ ProbesDone(j) \/ StoredAll(j)
    \/ FinishScan(j) \/ UpdateJobStatus(j)
    \/ \E a \in Addresses4 : AcquireProbe(j, a) \/ Probe(j, a) \/ InsertResult(j, a)

DiscoveryNext ==
    \/ CrashScans
    \/ \E a \in Addresses4 : AddDevice(a)
    \/ \E rows \in SUBSET results : BulkApprove(rows)
    \/ \E j \in Jobs : \/ ScanStep(j) \/ (\E x \in BOOLEAN : StartScan(j, x))
                       \/ \E a \in Addresses4 : ApproveResult(j, a) \/ RejectResult(j, a)

DiscoveryFairness == \A j \in Jobs : WF_discoveryVars(ScanStep(j))

DiscoverySpec == DiscoveryInit /\ [][DiscoveryNext]_discoveryVars /\ DiscoveryFairness

-----------------------------------------------------------------------------
\* scanner.go:684-716: the counts of a completed scan are those of its stored
\* results, and no more were stored than hosts were found.
CountsMatchResults ==
    \A j \in Jobs :
      LET rows == {r \in results : r[1] = j}
      IN job[j].status = "completed"
         => /\ job[j].newCount + job[j].knownCount = Cardinality(rows)
            /\ Cardinality(rows) <= job[j].foundCount

\* scanner.go:574-728: one failing statement does not leave a scan unfinished:
\* its row says completed or failed, unless the server died.  (Two failures,
\* or a crash, leave it running for ever.)
ScanSettles ==
    \A j \in Jobs : (job[j].pc = "start")
                    ~> (job[j].status \in {"completed", "failed"} \/ scanCrashes > 0)

\* The counts of a scan are those of its results, and a scan settles in spite of
\* a failing statement (scanner.go).
DiscoveryCorrect ==
    /\ [](DiscoveryTypeOK /\ CountsMatchResults)
    /\ ScanSettles
=============================================================================
