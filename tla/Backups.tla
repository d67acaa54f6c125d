------------------------------ MODULE Backups ------------------------------
(***************************************************************************)
(* Database backups and restores (backup/backup.go, restore_guard.go and   *)
(* the handlers over them).  CreateBackup inserts a row and starts a       *)
(* goroutine that runs pg_dump into a file named after the second of the   *)
(* request; the mutex of the manager covers the insertion only.  The       *)
(* backups table is part of the database, so a dump contains it and a      *)
(* restore puts it back, identifier sequence included.  pg_dump keeps a    *)
(* share lock on every table, so a restore (which drops them) commits only *)
(* when no dump is under way.                                              *)
(***************************************************************************)
EXTENDS Naturals, FiniteSets

CONSTANTS Dumps,          \* goroutines running runDump, one per request
          BackupRequests, \* HTTP requests that delete or restore a backup
          MaxSecond,      \* bound: seconds the clock shows
          MaxBackupCrashes

ASSUME BackupBounds == IsFiniteSet(Dumps) /\ MaxSecond \in Nat \ {0} /\ MaxBackupCrashes \in Nat

VARIABLES db,        \* [part, table, seq]: the database; part of a dump only?
          disk,      \* the file of each name (second), or NoFile
          dump,      \* the goroutines
          backupReq, \* the requests
          second,
          takers,    \* history: who was given each name, each identifier
          backupCrashes

backupVars == <<db, disk, dump, backupReq, second, takers, backupCrashes>>

BackupIds == 1..Cardinality(Dumps)
Seconds == 1..MaxSecond
NoBackup == [status |-> "none", name |-> 0]
Emptied == [part |-> TRUE, table |-> [i \in BackupIds |-> NoBackup], seq |-> 0]
NoFile == [present |-> FALSE, open |-> {}, touched |-> {}, whole |-> FALSE, snap |-> Emptied]

Statuses == {"none", "pending", "running", "completed", "failed"}
Databases == [part: BOOLEAN,
              table: [BackupIds -> [status: Statuses, name: 0..MaxSecond]], seq: 0..Cardinality(Dumps)]

\* Type correctness of the backup state.
BackupsTypeOK ==
    /\ db \in Databases
    /\ \A n \in Seconds :
         /\ disk[n].present \in BOOLEAN /\ disk[n].whole \in BOOLEAN
         /\ disk[n].open \subseteq disk[n].touched /\ disk[n].touched \subseteq Dumps
         /\ disk[n].snap \in Databases
    /\ \A g \in Dumps :
         /\ dump[g].pc \in {"idle", "start", "open", "dump", "record", "done"}
         /\ dump[g].id \in 0..Cardinality(Dumps) /\ dump[g].name \in 0..MaxSecond
    /\ backupReq \in [BackupRequests -> [pc: {"idle", "unlink", "erase", "check", "psql", "note", "done"},
                                         id: 0..Cardinality(Dumps), name: 0..MaxSecond]]
    /\ second \in Seconds
    /\ backupCrashes \in 0..MaxBackupCrashes

BackupsInit ==
    /\ db = [part |-> FALSE, table |-> [i \in BackupIds |-> NoBackup], seq |-> 0]
    /\ disk = [n \in Seconds |-> NoFile]
    /\ dump = [g \in Dumps |-> [pc |-> "idle", id |-> 0, name |-> 0, snap |-> Emptied]]
    /\ backupReq = [q \in BackupRequests |-> [pc |-> "idle", id |-> 0, name |-> 0]]
    /\ second = 1
    /\ takers = [name |-> [n \in Seconds |-> {}], id |-> [i \in BackupIds |-> {}]]
    /\ backupCrashes = 0

-----------------------------------------------------------------------------
(* runDump.  An UPDATE of a row that a restore removed changes nothing.    *)

SetBackupStatus(id, s) ==
    IF db.table[id].status = "none" THEN db ELSE [db EXCEPT !.table[id].status = s]

GoOn(g, pc) == dump' = [dump EXCEPT ![g].pc = pc]

\* CreateBackup: the name is the second, the identifier the next of the sequence.
CreateBackup(g) ==
    LET id == db.seq + 1 IN
    /\ dump[g].pc = "idle" /\ id \in BackupIds
    /\ db' = [db EXCEPT !.seq = id, !.table[id] = [status |-> "pending", name |-> second]]
    /\ dump' = [dump EXCEPT ![g].pc = "start", ![g].id = id, ![g].name = second]
    /\ takers' = [takers EXCEPT !.name[second] = @ \cup {g}, !.id[id] = @ \cup {g}]
    /\ UNCHANGED <<disk, backupReq, second, backupCrashes>>

StatusRunning(g) ==
    /\ dump[g].pc = "start"
    /\ db' = SetBackupStatus(dump[g].id, "running")
    /\ GoOn(g, "open")
    /\ UNCHANGED <<disk, backupReq, second, takers, backupCrashes>>

\* The file is created or truncated, and pg_dump takes its snapshot.
StartDump(g) ==
    LET n == dump[g].name  writers == disk[n].open \cup {g} IN
    /\ dump[g].pc = "open"
    /\ disk' = [disk EXCEPT ![n] = [present |-> TRUE, open |-> writers, touched |-> writers,
                                    whole |-> FALSE, snap |-> Emptied]]
    /\ dump' = [dump EXCEPT ![g].pc = "dump", ![g].snap = db]
    /\ UNCHANGED <<db, backupReq, second, takers, backupCrashes>>

\* pg_dump ends well.  Bytes of another writer of the same file may be in it.
DumpSucceeds(g) ==
    LET n == dump[g].name IN
    /\ dump[g].pc = "dump"
    /\ \E w \in IF disk[n].touched = {g} THEN {TRUE} ELSE BOOLEAN :
         disk' = IF g \notin disk[n].open THEN disk
                 ELSE [disk EXCEPT ![n].open = @ \ {g}, ![n].whole = w,
                                   ![n].snap = IF w THEN dump[g].snap ELSE Emptied]
    /\ GoOn(g, "record")
    /\ UNCHANGED <<db, backupReq, second, takers, backupCrashes>>

CloseFile(g) == disk' = [disk EXCEPT ![dump[g].name].open = @ \ {g}]

\* Seeded fault: the exit status of pg_dump is not looked at.
FailBackupUnseen(g) ==
    /\ dump[g].pc = "dump"
    /\ CloseFile(g)
    /\ GoOn(g, "record")
    /\ UNCHANGED <<db, backupReq, second, takers, backupCrashes>>

\* pg_dump fails, or the thirty minutes end: then failBackup's own update fails too.
FailBackup(g) ==
    /\ dump[g].pc = "dump"
    /\ \E expired \in BOOLEAN :
         db' = IF expired THEN db ELSE SetBackupStatus(dump[g].id, "failed")
    /\ CloseFile(g)
    /\ GoOn(g, "done")
    /\ UNCHANGED <<backupReq, second, takers, backupCrashes>>

\* Stat, checksum and the final UPDATE (whose error leaves the row running).
RecordDump(g) ==
    /\ dump[g].pc = "record"
    /\ \/ db' = SetBackupStatus(dump[g].id, IF disk[dump[g].name].present THEN "completed" ELSE "failed")
       \/ db' = db
    /\ GoOn(g, "done")
    /\ UNCHANGED <<disk, backupReq, second, takers, backupCrashes>>

-----------------------------------------------------------------------------
(* The requests of administrators.                                         *)

Ask(q, id, pc) ==
    /\ backupReq[q].pc = "idle"
    /\ backupReq' = [backupReq EXCEPT ![q] = [pc |-> pc, id |-> id, name |-> db.table[id].name]]
    /\ UNCHANGED <<db, disk, dump, second, takers, backupCrashes>>

Proceed(q, pc) == backupReq' = [backupReq EXCEPT ![q].pc = pc]

\* DeleteBackup: read the path, remove the file, delete the row.
ReadPath(q, id) == db.table[id].status # "none" /\ Ask(q, id, "unlink")

RemoveFile(q) ==
    /\ backupReq[q].pc = "unlink"
    /\ disk' = [disk EXCEPT ![backupReq[q].name] = NoFile]
    /\ Proceed(q, "erase")
    /\ UNCHANGED <<db, dump, second, takers, backupCrashes>>

DeleteBackup(q) ==
    /\ backupReq[q].pc = "erase"
    /\ db' = [db EXCEPT !.table[backupReq[q].id] = NoBackup]
    /\ Proceed(q, "done")
    /\ UNCHANGED <<disk, dump, second, takers, backupCrashes>>

\* GetBackupPath and RestoreBackup name completed backups only.
Named(id) == db.table[id].status = "completed"

GetBackupPath(q, id) == Named(id) /\ Ask(q, id, "check")

\* Stat and checkRestoreScript: a file that is gone ends the request.
CheckRestoreScript(q) ==
    /\ backupReq[q].pc = "check"
    /\ Proceed(q, IF disk[backupReq[q].name].present THEN "psql" ELSE "done")
    /\ UNCHANGED <<db, disk, dump, second, takers, backupCrashes>>

\* psql --single-transaction: everything or nothing of what the file holds.
\* A file that stops short may still be a script without errors.
RestoreBackup(q) ==
    LET f == disk[backupReq[q].name] IN
    /\ backupReq[q].pc = "psql"
    /\ \A g \in Dumps : dump[g].pc # "dump"
    /\ \/ f.present /\ db' = f.snap /\ Proceed(q, "note")
       \/ ~f.whole /\ UNCHANGED db /\ Proceed(q, "done")
    /\ UNCHANGED <<disk, dump, second, takers, backupCrashes>>

\* restored_at and restored_by are set on the row, if the restored table has it.
RecordRestore(q) ==
    /\ backupReq[q].pc = "note"
    /\ Proceed(q, "done")
    /\ UNCHANGED <<db, disk, dump, second, takers, backupCrashes>>

-----------------------------------------------------------------------------
(* The surroundings: time passes, the server may stop.                     *)

NextSecond ==
    /\ second < MaxSecond
    /\ second' = second + 1
    /\ UNCHANGED <<db, disk, dump, backupReq, takers, backupCrashes>>

\* Goroutines and requests are gone; rows and files stay as they are.
CrashBackups ==
    /\ backupCrashes < MaxBackupCrashes
    /\ backupCrashes' = backupCrashes + 1
    /\ disk' = [n \in Seconds |-> [disk[n] EXCEPT !.open = {}]]
    /\ dump' = [g \in Dumps |-> [dump[g] EXCEPT !.pc = IF @ = "idle" THEN @ ELSE "done"]]
    /\ backupReq' = [q \in BackupRequests |->
                       [backupReq[q] EXCEPT !.pc = IF @ = "idle" THEN @ ELSE "done"]]
    /\ UNCHANGED <<db, second, takers>>

RunDump(g) ==
    \/ CreateBackup(g) \/ StatusRunning(g) \/ StartDump(g)
    \/ DumpSucceeds(g) \/ FailBackup(g) \/ RecordDump(g)

ServeBackup(q) ==
    \/ \E id \in BackupIds : ReadPath(q, id) \/ GetBackupPath(q, id)
    \/ RemoveFile(q) \/ DeleteBackup(q)
    \/ CheckRestoreScript(q) \/ RestoreBackup(q) \/ RecordRestore(q)

BackupsNext ==
    \/ \E g \in Dumps : RunDump(g)
    \/ \E q \in BackupRequests : ServeBackup(q)
    \/ NextSecond \/ CrashBackups

BackupsSpec == BackupsInit /\ [][BackupsNext]_backupVars

-----------------------------------------------------------------------------
Alone(S) == Cardinality(S) <= 1
Shared == (\E n \in Seconds : ~Alone(takers.name[n])) \/ (\E i \in BackupIds : ~Alone(takers.id[i]))

\* A backup shown as completed that was alone to have its second and its
\* identifier is a whole dump on disk, unless its file has been removed: a
\* dump that failed, timed out, died with the server or lost its file is
\* never taken for one (runDump).
CompletedIsWhole ==
    \A i \in BackupIds : LET n == db.table[i].name IN
        (db.table[i].status = "completed" /\ Alone(takers.name[n]) /\ Alone(takers.id[i]))
        => (disk[n].whole \/ ~disk[n].present)

\* A restore puts back a whole dump: the database is left with part of one
\* only where two backups shared a second or, after a restore had set the
\* sequence back, an identifier.  Nothing else, a delete or a crash between
\* the check and psql included, can do it (RestoreBackup).
PartOnlyWhenShared == db.part => Shared

\* What is shown as completed is whole, and what is restored is whole, through
\* failed, overlapping and interrupted dumps and restores (backup.go).
BackupsSafe ==
    /\ BackupsTypeOK
    /\ CompletedIsWhole
    /\ PartOnlyWhenShared
=============================================================================
