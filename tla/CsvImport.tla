----------------------------- MODULE CsvImport -----------------------------
(***************************************************************************)
(* The bulk import of devices (importer/csv_importer.go, ImportPreview and *)
(* ImportExecute of handlers/campus.go): the file is parsed and validated  *)
(* against the database as it is then; later the client sends the rows it  *)
(* wants back, with what was resolved for them, and they are inserted with *)
(* a sensor each in one transaction.  Devices come and go in between.      *)
(***************************************************************************)
EXTENDS Naturals, Sequences, FiniteSets

CONSTANTS ImportHosts, NoHost, MaxDeviceId,
          BarredHosts,      \* hosts the host policy does not allow
          MaxLines,         \* bound: lines of the file
          MaxLookupErrors,  \* bound: lines of a preview that fail to be looked up
          MaxImportChanges  \* bound: confirmations, devices added and removed by others

ASSUME ImportBounds ==
    {MaxLines, MaxDeviceId, MaxLookupErrors, MaxImportChanges} \subseteq Nat /\ BarredHosts \subseteq ImportHosts

NoId == 0
DeviceIds == 1..MaxDeviceId

VARIABLES csv,        \* the file: [host, parentHost] per line
          preview,    \* the validated lines: [host, parentHost, parent, duplicate, looked]
          tx,         \* [pc, next, staged, rows]: the transaction of a confirmation
          devices,    \* committed devices: id -> [host, parent, batch, of, line]
          nextDevice, batches,
          disturbed,  \* history: the devices changed since the preview
          importChanges

importVars == <<csv, preview, tx, devices, nextDevice, batches, disturbed, importChanges>>

Lines == [host: ImportHosts, parentHost: (ImportHosts \ BarredHosts) \cup {NoHost}]
NoTx == [pc |-> "none", next |-> 1, staged |-> << >>, rows |-> << >>]
Empty == [id \in {} |-> NoId]

CsvImportInit ==
    /\ csv \in [1..MaxLines -> Lines]
    /\ preview = << >> /\ tx = NoTx
    /\ devices = Empty /\ nextDevice = 1 /\ batches = 0
    /\ disturbed = FALSE /\ importChanges = 0

-----------------------------------------------------------------------------
\* SELECT id FROM devices WHERE ip_address = $1 LIMIT 1: any of them.
WithHost(h) == {id \in DOMAIN devices : devices[id].host = h}

\* A host that an earlier line has, or a device, if the database answers (looked).
IsDuplicate(lines, i, looked) ==
    (looked /\ WithHost(lines[i].host) # {}) \/ \E j \in 1..(i - 1) : lines[j].host = lines[i].host

\* None when there is no such device, or when the database does not answer.
ResolveParent(line, looked) ==
    IF looked /\ line.parentHost # NoHost /\ WithHost(line.parentHost) # {}
    THEN WithHost(line.parentHost) ELSE {NoId}

\* ImportPreview: Validate fills in what it finds; nothing is created.
ImportPreview ==
    /\ tx.pc = "none"
    /\ \E parents \in [DOMAIN csv -> DeviceIds \cup {NoId}], looked \in SUBSET DOMAIN csv :
        /\ Cardinality(DOMAIN csv \ looked) <= MaxLookupErrors
        /\ \A i \in DOMAIN csv : parents[i] \in ResolveParent(csv[i], i \in looked)
        /\ preview' = [i \in DOMAIN csv |-> [host |-> csv[i].host, parentHost |-> csv[i].parentHost,
                                             parent |-> parents[i], looked |-> i \in looked,
                                             duplicate |-> IsDuplicate(csv, i, i \in looked)]]
    /\ disturbed' = FALSE
    /\ UNCHANGED <<csv, tx, devices, nextDevice, batches, importChanges>>

\* ImportExecute: the lines the client wants, in their order; begin.
ImportExecute(wanted) ==
    /\ preview # << >> /\ tx.pc = "none" /\ importChanges < MaxImportChanges
    /\ importChanges' = importChanges + 1
    /\ \E line \in [1..Cardinality(wanted) -> wanted] :
        /\ \A j, k \in DOMAIN line : j < k => line[j] < line[k]
        /\ tx' = [NoTx EXCEPT !.pc = "check", !.rows = [k \in DOMAIN line |-> preview[line[k]]]]
    /\ UNCHANGED <<csv, preview, devices, nextDevice, batches, disturbed>>

\* Execute checks every host before the first insert.
CheckHosts ==
    /\ tx.pc = "check"
    /\ tx' = IF \E i \in DOMAIN tx.rows : tx.rows[i].host \in BarredHosts THEN NoTx ELSE [tx EXCEPT !.pc = "insert"]
    /\ UNCHANGED <<csv, preview, devices, nextDevice, batches, disturbed, importChanges>>

Device(r, line) == [host |-> r.host, parent |-> r.parent, batch |-> batches + 1, of |-> Len(tx.rows), line |-> line]
Staged(id) == \E i \in DOMAIN tx.staged : tx.staged[i].id = id

\* One line: the device and its sensor.  A parent that is gone violates the
\* foreign key and rolls everything back.
InsertRow ==
    LET r == tx.rows[tx.next] IN
    /\ tx.pc = "insert" /\ tx.next <= Len(tx.rows) /\ nextDevice \in DeviceIds
    /\ IF r.parent # NoId /\ r.parent \notin DOMAIN devices
       THEN tx' = NoTx
       ELSE tx' = [tx EXCEPT !.next = @ + 1,
                             !.staged = Append(@, [id |-> nextDevice, row |-> Device(r, tx.next)])]
    /\ nextDevice' = nextDevice + 1
    /\ UNCHANGED <<csv, preview, devices, batches, disturbed, importChanges>>

\* Seeded fault: what was inserted before an error stays.
CommitPrefix ==
    /\ tx.pc = "insert" /\ tx.next > 1
    /\ devices' = [id \in DOMAIN devices \cup {tx.staged[i].id : i \in DOMAIN tx.staged} |->
                     IF Staged(id) THEN (CHOOSE s \in {tx.staged[i] : i \in DOMAIN tx.staged} : s.id = id).row
                     ELSE devices[id]]
    /\ batches' = batches + 1 /\ tx' = NoTx /\ disturbed' = TRUE
    /\ UNCHANGED <<csv, preview, nextDevice, importChanges>>

CommitImport ==
    /\ tx.pc = "insert" /\ tx.next > Len(tx.rows)
    /\ devices' = [id \in DOMAIN devices \cup {tx.staged[i].id : i \in DOMAIN tx.staged} |->
                     IF Staged(id) THEN (CHOOSE s \in {tx.staged[i] : i \in DOMAIN tx.staged} : s.id = id).row
                     ELSE devices[id]]
    /\ batches' = batches + 1 /\ tx' = NoTx /\ disturbed' = TRUE
    /\ UNCHANGED <<csv, preview, nextDevice, importChanges>>

\* An error of the database, a cancelled request or a crash.
AbortImport ==
    /\ tx.pc \in {"check", "insert"} /\ tx' = NoTx
    /\ UNCHANGED <<csv, preview, devices, nextDevice, batches, disturbed, importChanges>>

-----------------------------------------------------------------------------
(* Others: a device is added by hand, or removed; its children lose it     *)
(* (ON DELETE SET NULL), and a staged child holds a lock on it.            *)

ByOthers ==
    /\ importChanges < MaxImportChanges /\ importChanges' = importChanges + 1
    /\ disturbed' = TRUE
    /\ UNCHANGED <<csv, preview, tx, batches>>

AddByHand(h) ==
    /\ nextDevice \in DeviceIds /\ ByOthers
    /\ devices' = [id \in DOMAIN devices \cup {nextDevice} |->
                     IF id = nextDevice THEN [host |-> h, parent |-> NoId, batch |-> 0, of |-> 0, line |-> 0]
                     ELSE devices[id]]
    /\ nextDevice' = nextDevice + 1

DeleteById(d) ==
    /\ d \in DOMAIN devices /\ devices[d].batch = 0 /\ ByOthers
    /\ \A i \in DOMAIN tx.staged : tx.staged[i].row.parent # d
    /\ devices' = [id \in DOMAIN devices \ {d} |->
                     IF devices[id].parent = d THEN [devices[id] EXCEPT !.parent = NoId] ELSE devices[id]]
    /\ UNCHANGED nextDevice

CsvImportNext ==
    \/ ImportPreview \/ (\E wanted \in SUBSET DOMAIN preview : ImportExecute(wanted))
    \/ CheckHosts \/ InsertRow \/ CommitImport \/ AbortImport
    \/ \E h \in ImportHosts \ BarredHosts : AddByHand(h)
    \/ \E d \in DeviceIds : DeleteById(d)

CsvImportSpec == CsvImportInit /\ [][CsvImportNext]_importVars

-----------------------------------------------------------------------------
Imported(b) == {id \in DOMAIN devices : devices[id].batch = b}

\* Type correctness of the import.
CsvImportTypeOK ==
    /\ tx.pc \in {"none", "check", "insert"} /\ tx.next \in 1..(MaxLines + 1)
    /\ DOMAIN devices \subseteq DeviceIds /\ nextDevice \in 1..(MaxDeviceId + 1)
    /\ \A id \in DOMAIN devices : devices[id].parent \in DOMAIN devices \cup {NoId}
    /\ importChanges \in 0..MaxImportChanges

\* "If any insert fails the entire transaction is rolled back": the devices
\* of a confirmation are all there or none is, whatever was aborted, removed
\* or confirmed again meanwhile, and no barred host is among them (Execute).
WholeImports ==
    \A id \in DOMAIN devices : devices[id].batch > 0 =>
        /\ Cardinality(Imported(devices[id].batch)) = devices[id].of
        /\ devices[id].host \notin BarredHosts

\* A device is linked to a parent with the host its line names, or to none,
\* also when devices were removed and added after the preview.
LinkedToNamedParent ==
    \A b \in 1..batches : \A id \in Imported(b) :
        devices[id].parent # NoId =>
            \E i \in DOMAIN csv : csv[i].host = devices[id].host /\ csv[i].parentHost = devices[devices[id].parent].host

\* A line the preview did not flag brings no second device with its host, as
\* long as the devices are those of the preview and it could look them up
\* (duplicate detection).
UnflaggedIsNew ==
    (~disturbed /\ tx.pc = "insert") =>
        \A i \in DOMAIN tx.staged : ~tx.rows[i].duplicate =>
            /\ tx.rows[i].looked => WithHost(tx.staged[i].row.host) = {}
            /\ \A j \in 1..(i - 1) : tx.staged[j].row.host # tx.staged[i].row.host

\* An import is all or nothing, links a device only to the parent its line
\* names, and its preview flags every duplicate (csv_importer.go).
CsvImportSafe ==
    /\ CsvImportTypeOK
    /\ WholeImports
    /\ LinkedToNamedParent
    /\ UnflaggedIsNew
=============================================================================
