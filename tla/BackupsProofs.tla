--------------------------- MODULE BackupsProofs ----------------------------
(***************************************************************************)
(* Proof that BackupsSafe is an invariant of backups and restores, for any *)
(* number of dumps, requests, seconds and crashes.                         *)
(*                                                                         *)
(* A database, the present one, one in a whole file or one a dump is       *)
(* writing, calls a backup completed only if a dump of that name and       *)
(* identifier is over and its file whole, or another shares the name or    *)
(* the identifier.  A restore puts an old database in place of the present *)
(* one, so the claim must hold of all of them with the files of now.       *)
(*                                                                         *)
(* And proofs about Retention, for any days, windows, tables and rows: the *)
(* rollups outlive their sources, because a source that a refresh still    *)
(* looks at has as much as the rollup; and a sweep prunes what was due,    *)
(* because a due row stays prunable until it is pruned.                    *)
(***************************************************************************)
EXTENDS Backups, Retention, FiniteSetTheorems, WellFoundedInduction, TLAPS

File == [present : BOOLEAN, open : SUBSET Dumps, touched : SUBSET Dumps, whole : BOOLEAN, snap : Databases]
DumpJob == [pc : {"idle", "start", "open", "dump", "record", "done"},
            id : 0..Cardinality(Dumps), name : 0..MaxSecond, snap : Databases]
BackupRequest == [pc : {"idle", "unlink", "erase", "check", "psql", "note", "done"},
                  id : 0..Cardinality(Dumps), name : 0..MaxSecond]

BackupTypes ==
    /\ db \in Databases /\ disk \in [Seconds -> File] /\ dump \in [Dumps -> DumpJob]
    /\ backupReq \in [BackupRequests -> BackupRequest]
    /\ second \in Seconds /\ backupCrashes \in 0..MaxBackupCrashes
    /\ takers \in [name : [Seconds -> SUBSET Dumps], id : [BackupIds -> SUBSET Dumps]]

\* At most one, without counting.
One(S) == \A x, y \in S : x = y

\* Who has begun is known to have its name and its identifier, for good.
TakersOK ==
    \A g \in Dumps : dump[g].pc # "idle" =>
        /\ dump[g].id \in BackupIds /\ dump[g].name \in Seconds
        /\ g \in takers.name[dump[g].name] /\ g \in takers.id[dump[g].id]

\* A file that cannot be taken for what it is not.
KeptFile(n) == disk[n].whole \/ ~disk[n].present

\* A backup i in file n that some dump has begun; and if it is the only one of
\* that name and identifier, it is over and left a whole file.
Begun(i, n) == n \in Seconds /\ \E g \in Dumps : dump[g].pc # "idle" /\ dump[g].id = i /\ dump[g].name = n

Finished(i, n) ==
    /\ Begun(i, n)
    /\ (One(takers.name[n]) /\ One(takers.id[i])) =>
          /\ \A g \in Dumps : (dump[g].pc # "idle" /\ dump[g].name = n) => dump[g].pc = "done"
          /\ KeptFile(n)

TwoTakers == \/ \E n \in Seconds : ~One(takers.name[n])
             \/ \E i \in BackupIds : ~One(takers.id[i])

\* A database, present or dumped, is whole and does not claim too much.
GoodDb(d) ==
    /\ d \in Databases
    /\ d.part => TwoTakers
    /\ \A i \in BackupIds :
          /\ d.table[i].status # "none" => Begun(i, d.table[i].name)
          /\ d.table[i].status = "completed" => Finished(i, d.table[i].name)

FileOK(n) ==
    /\ disk[n].open \subseteq takers.name[n] /\ disk[n].open \subseteq disk[n].touched
    /\ disk[n].whole => disk[n].present /\ GoodDb(disk[n].snap)
    /\ ~disk[n].whole => disk[n].snap = Emptied
    /\ ~disk[n].present => disk[n].open = {}

\* A dump that has its name for itself is the only writer of its file.
Writes(g) ==
    (One(takers.name[dump[g].name]) /\ disk[dump[g].name].present) =>
        disk[dump[g].name].touched = {g} /\ g \in disk[dump[g].name].open

DumpOK(g) ==
    /\ dump[g].pc = "dump" => GoodDb(dump[g].snap) /\ Writes(g)
    /\ (dump[g].pc = "record" /\ One(takers.name[dump[g].name])) => KeptFile(dump[g].name)

\* Who is about to restore has found the backup completed.
AskOK(q) ==
    /\ backupReq[q].pc \in {"unlink", "erase"} => backupReq[q].id \in BackupIds /\ backupReq[q].name \in Seconds
    /\ backupReq[q].pc \in {"check", "psql"} =>
          backupReq[q].id \in BackupIds /\ Finished(backupReq[q].id, backupReq[q].name)

FilesOK == \A n \in Seconds : FileOK(n)
DumpsOK == \A g \in Dumps : DumpOK(g)
AsksOK == \A q \in BackupRequests : AskOK(q)

BackupInv == BackupTypes /\ TakersOK /\ FilesOK /\ DumpsOK /\ AsksOK /\ GoodDb(db)

-----------------------------------------------------------------------------
LEMMA BackupNumbers ==
    /\ Cardinality(Dumps) \in Nat /\ MaxSecond \in Nat /\ 1 \in Seconds
    /\ BackupIds \subseteq 0..Cardinality(Dumps) /\ Seconds \subseteq 0..MaxSecond
    /\ 0 \in 0..Cardinality(Dumps) /\ 0 \in 0..MaxSecond
  <1>1. Cardinality(Dumps) \in Nat
    BY BackupBounds, FS_CardinalityType
  <1> QED
    BY <1>1, BackupBounds DEF BackupIds, Seconds

LEMMA AloneIsOne ==
    ASSUME NEW S \in SUBSET Dumps
    PROVE  Alone(S) <=> One(S)
  <1>1. IsFiniteSet(S) /\ Cardinality(S) \in Nat
    BY BackupBounds, FS_Subset, FS_CardinalityType
  <1>2. CASE S = {}
    BY <1>2, FS_EmptySet DEF Alone, One
  <1>3. CASE S # {}
    <2>1. Cardinality(S) # 0
      BY <1>1, <1>3, FS_EmptySet
    <2>2. Alone(S) <=> Cardinality(S) = 1
      BY <1>1, <2>1 DEF Alone
    <2>3. Alone(S) <=> \E x : S = {x}
      BY <1>1, <2>2, FS_Singleton
    <2> QED
      BY <1>3, <2>3 DEF One
  <1> QED
    BY <1>2, <1>3

LEMMA BackupInvSafe == BackupInv => BackupsSafe
  <1> SUFFICES ASSUME BackupInv PROVE BackupsSafe
    OBVIOUS
  <1>1. BackupsTypeOK
    BY DEF BackupInv, BackupTypes, FilesOK, FileOK, File, DumpJob, BackupRequest, BackupsTypeOK
  <1>2. \A n \in Seconds : Alone(takers.name[n]) <=> One(takers.name[n])
    BY AloneIsOne DEF BackupInv, BackupTypes
  <1>3. \A i \in BackupIds : Alone(takers.id[i]) <=> One(takers.id[i])
    BY AloneIsOne DEF BackupInv, BackupTypes
  <1>4. CompletedIsWhole
    BY <1>2, <1>3 DEF BackupInv, GoodDb, Begun, Finished, KeptFile, CompletedIsWhole
  <1>5. PartOnlyWhenShared
    BY <1>2, <1>3 DEF BackupInv, GoodDb, TwoTakers, PartOnlyWhenShared, Shared
  <1> QED
    BY <1>1, <1>4, <1>5 DEF BackupsSafe

LEMMA EmptiedType == Emptied \in Databases /\ \A i \in BackupIds : Emptied.table[i].status = "none"
  <1>1. PICK b \in BOOLEAN : b = TRUE
    OBVIOUS
  <1>2. NoBackup \in [status : Statuses, name : 0..MaxSecond]
    BY BackupNumbers DEF NoBackup, Statuses
  <1>3. Emptied = [part |-> b, table |-> [i \in BackupIds |-> NoBackup], seq |-> 0]
    BY <1>1 DEF Emptied
  <1> QED
    BY <1>2, <1>3, BackupNumbers DEF Databases, NoBackup

LEMMA NoFileType == /\ NoFile \in File /\ ~NoFile.present /\ ~NoFile.whole
                    /\ NoFile.open = {} /\ NoFile.touched = {} /\ NoFile.snap = Emptied
  <1>1. PICK b \in BOOLEAN : b = FALSE
    OBVIOUS
  <1>2. NoFile = [present |-> b, open |-> {}, touched |-> {}, whole |-> b, snap |-> Emptied]
    BY <1>1 DEF NoFile
  <1> QED
    BY <1>1, <1>2, EmptiedType DEF File

LEMMA BackupInvInit == BackupsInit => BackupInv
  <1> SUFFICES ASSUME BackupsInit PROVE BackupInv
    OBVIOUS
  <1>0. PICK b \in BOOLEAN : b = FALSE
    OBVIOUS
  <1>1. db \in Databases /\ ~db.part /\ \A i \in BackupIds : db.table[i].status = "none"
    <2>1. NoBackup \in [status : Statuses, name : 0..MaxSecond]
      BY BackupNumbers DEF NoBackup, Statuses
    <2>2. db = [part |-> b, table |-> [i \in BackupIds |-> NoBackup], seq |-> 0]
      BY <1>0 DEF BackupsInit
    <2> QED
      BY <1>0, <2>1, <2>2, BackupNumbers DEF Databases, NoBackup
  <1>2. \A g \in Dumps : dump[g] \in DumpJob /\ dump[g].pc = "idle"
    BY EmptiedType, BackupNumbers DEF BackupsInit, DumpJob
  <1>3. \A q \in BackupRequests : backupReq[q] \in BackupRequest /\ backupReq[q].pc = "idle"
    BY BackupNumbers DEF BackupsInit, BackupRequest
  <1>4. BackupTypes
    <2>1. disk \in [Seconds -> File]
      BY NoFileType DEF BackupsInit
    <2>2. dump \in [Dumps -> DumpJob]
      BY <1>2 DEF BackupsInit
    <2>3. backupReq \in [BackupRequests -> BackupRequest]
      BY <1>3 DEF BackupsInit
    <2>4. second \in Seconds /\ backupCrashes \in 0..MaxBackupCrashes
      BY BackupNumbers, BackupBounds DEF BackupsInit
    <2>5. takers \in [name : [Seconds -> SUBSET Dumps], id : [BackupIds -> SUBSET Dumps]]
      BY DEF BackupsInit
    <2> QED
      BY <1>1, <2>1, <2>2, <2>3, <2>4, <2>5 DEF BackupTypes
  <1>5. TakersOK /\ DumpsOK
    BY <1>2 DEF TakersOK, DumpsOK, DumpOK
  <1>6. FilesOK
    BY NoFileType DEF BackupsInit, FilesOK, FileOK
  <1>7. AsksOK
    BY <1>3 DEF AsksOK, AskOK
  <1>8. GoodDb(db)
    BY <1>1 DEF GoodDb
  <1> QED
    BY <1>4, <1>5, <1>6, <1>7, <1>8 DEF BackupInv

-----------------------------------------------------------------------------
(* What no step undoes. *)

\* Takers only come, a dump keeps its name and identifier and stays done, and a
\* file is spoilt only by a dump of its name that is under way.
Steady ==
    /\ \A n \in Seconds : takers.name[n] \subseteq takers.name'[n]
    /\ \A i \in BackupIds : takers.id[i] \subseteq takers.id'[i]
    /\ \A g \in Dumps : dump[g].pc # "idle" =>
          /\ dump'[g].pc # "idle" /\ dump'[g].id = dump[g].id /\ dump'[g].name = dump[g].name
          /\ dump[g].pc = "done" => dump'[g].pc = "done"
    /\ \A n \in Seconds : KeptFile(n) =>
          \/ KeptFile(n)'
          \/ \E g \in Dumps : dump[g].pc \notin {"idle", "done"} /\ dump[g].name = n

LEMMA BegunStays ==
    ASSUME Steady, NEW i, NEW n, Begun(i, n)
    PROVE  Begun(i, n)'
  BY DEF Steady, Begun

LEMMA FinishedStays ==
    ASSUME TakersOK, TakersOK', Steady, NEW i \in BackupIds, NEW n, Finished(i, n)
    PROVE  Finished(i, n)'
  <1>1. Begun(i, n)' /\ n \in Seconds
    BY BegunStays DEF Finished, Begun
  <1>2. ASSUME One(takers.name[n])', One(takers.id[i])'
        PROVE  /\ \A g \in Dumps : (dump'[g].pc # "idle" /\ dump'[g].name = n) => dump'[g].pc = "done"
               /\ KeptFile(n)'
    <2>1. takers.name[n] \subseteq takers.name'[n] /\ takers.id[i] \subseteq takers.id'[i]
      BY <1>1 DEF Steady
    <2>2. One(takers.name[n]) /\ One(takers.id[i])
      BY <1>2, <2>1 DEF One
    <2>3. KeptFile(n) /\ \A g \in Dumps : (dump[g].pc # "idle" /\ dump[g].name = n) => dump[g].pc = "done"
      BY <2>2 DEF Finished
    <2>4. KeptFile(n)'
      BY <1>1, <2>3 DEF Steady
    <2>5. PICK o \in Dumps : dump[o].pc # "idle" /\ dump[o].id = i /\ dump[o].name = n
      BY DEF Finished, Begun
    <2>6. o \in takers.name'[n] /\ dump'[o].pc = "done"
      BY <2>1, <2>3, <2>5 DEF TakersOK, Steady
    <2>7. ASSUME NEW g \in Dumps, dump'[g].pc # "idle", dump'[g].name = n PROVE dump'[g].pc = "done"
      <3>1. g \in takers.name'[n]
        BY <2>7 DEF TakersOK
      <3> QED
        BY <3>1, <2>6, <1>2 DEF One
    <2> QED
      BY <2>4, <2>7
  <1> QED
    BY <1>1, <1>2 DEF Finished, KeptFile

LEMMA TwoStay ==
    ASSUME Steady, TwoTakers
    PROVE  TwoTakers'
  BY DEF Steady, TwoTakers, One

LEMMA GoodStays ==
    ASSUME TakersOK, TakersOK', Steady, NEW d, GoodDb(d)
    PROVE  GoodDb(d)'
  BY BegunStays, FinishedStays, TwoStay DEF GoodDb

LEMMA AskStays ==
    ASSUME TakersOK, TakersOK', Steady, NEW q \in BackupRequests, NEW r, AskOK(q), backupReq[q] = r, backupReq'[q] = r
    PROVE  AskOK(q)'
  <1>1. PICK i, n : i = r.id /\ n = r.name
    OBVIOUS
  <1>2. (i \in BackupIds /\ Finished(i, n)) => Finished(i, n)'
    BY FinishedStays
  <1>3. Finished(backupReq[q].id, backupReq[q].name)' <=> Finished(i, n)'
    BY <1>1 DEF Finished, Begun, KeptFile
  <1> QED
    BY <1>1, <1>2, <1>3 DEF AskOK

LEMMA FileStays ==
    ASSUME TakersOK, TakersOK', Steady, NEW n \in Seconds, NEW f, FileOK(n), disk[n] = f, disk'[n] = f
    PROVE  FileOK(n)'
  <1>1. PICK d : d = f.snap
    OBVIOUS
  <1>2. GoodDb(d) => GoodDb(d)'
    BY GoodStays
  <1>3. GoodDb(disk[n].snap)' <=> GoodDb(d)'
    BY <1>1 DEF GoodDb, Finished, Begun, KeptFile, TwoTakers
  <1>4. takers.name[n] \subseteq takers.name'[n]
    BY DEF Steady
  <1> QED
    BY <1>1, <1>2, <1>3, <1>4 DEF FileOK

\* A dump that did not move, nor did its file unless it was removed or is
\* another's, too.
LEMMA DumpStays ==
    ASSUME TakersOK, TakersOK', Steady, NEW g \in Dumps, NEW h, DumpOK(g), dump[g] = h, dump'[g] = h,
           h.pc \in {"dump", "record"} =>
               \/ disk'[h.name] = disk[h.name] \/ ~disk'[h.name].present \/ ~One(takers.name'[h.name])
    PROVE  DumpOK(g)'
  <1>1. PICK d, n : d = h.snap /\ n = h.name
    OBVIOUS
  <1>2. GoodDb(d) => GoodDb(d)'
    BY GoodStays
  <1>3. GoodDb(dump[g].snap)' <=> GoodDb(d)'
    BY <1>1 DEF GoodDb, Finished, Begun, KeptFile, TwoTakers
  <1>4. h.pc \in {"dump", "record"} => (n \in Seconds /\ (One(takers.name'[n]) => One(takers.name[n])))
    BY <1>1 DEF TakersOK, Steady, One
  <1>5. h.pc = "dump" => Writes(g)'
    BY <1>1, <1>4 DEF DumpOK, Writes
  <1>6. (h.pc = "record" /\ One(takers.name'[n])) => (disk'[n].whole \/ ~disk'[n].present)
    BY <1>1, <1>4 DEF DumpOK, KeptFile
  <1> QED
    BY <1>1, <1>2, <1>3, <1>5, <1>6 DEF DumpOK, KeptFile

LEMMA DbStays ==
    ASSUME TakersOK, TakersOK', Steady, GoodDb(db), UNCHANGED db
    PROVE  GoodDb(db)'
  <1>1. PICK d : d = db
    OBVIOUS
  <1>2. GoodDb(d)'
    BY <1>1, GoodStays
  <1> QED
    BY <1>1, <1>2 DEF GoodDb, Finished, Begun, KeptFile, TwoTakers

LEMMA DbBecomes ==
    ASSUME NEW d, GoodDb(d)', db' = d
    PROVE  GoodDb(db)'
  BY DEF GoodDb, Finished, Begun, KeptFile, TwoTakers

\* An UPDATE of a row that says no more than what is so.
LEMMA StatusSet ==
    ASSUME TakersOK, TakersOK', Steady, GoodDb(db), NEW id \in BackupIds, NEW s \in Statuses \ {"none"},
           NEW n, n = db.table[id].name, (s = "completed" /\ db.table[id].status # "none") => Finished(id, n)',
           db' = SetBackupStatus(id, s)
    PROVE  GoodDb(db)'
  <1>1. CASE db.table[id].status = "none"
    BY <1>1, DbStays DEF SetBackupStatus
  <1>2. CASE db.table[id].status # "none"
    <2>1. PICK d : d = [db EXCEPT !.table[id].status = s]
      OBVIOUS
    <2>2. db \in Databases
      BY DEF GoodDb
    <2>3. /\ d \in Databases /\ d.part = db.part /\ d.table[id].status = s /\ d.table[id].name = n
          /\ \A i \in BackupIds : i # id => d.table[i] = db.table[i]
      BY <2>1, <2>2 DEF Databases
    <2>4. db' = d
      BY <1>2, <2>1 DEF SetBackupStatus
    <2>5. PICK e : e = db
      OBVIOUS
    <2>6. GoodDb(e)'
      BY <2>5, GoodStays
    <2>7. GoodDb(d)'
      BY <1>2, <2>3, <2>5, <2>6, BegunStays DEF GoodDb
    <2> QED
      BY <2>4, <2>7, DbBecomes
  <1> QED
    BY <1>1, <1>2

LEMMA DumpMoves ==
    ASSUME BackupTypes, NEW g \in Dumps, NEW h \in DumpJob, dump' = [dump EXCEPT ![g] = h]
    PROVE  dump' \in [Dumps -> DumpJob] /\ dump'[g] = h /\ \A o \in Dumps : o # g => dump'[o] = dump[o]
  BY DEF BackupTypes

LEMMA RequestMoves ==
    ASSUME BackupTypes, NEW q \in BackupRequests, NEW r \in BackupRequest, backupReq' = [backupReq EXCEPT ![q] = r]
    PROVE  backupReq' \in [BackupRequests -> BackupRequest] /\ backupReq'[q] = r
           /\ \A o \in BackupRequests : o # q => backupReq'[o] = backupReq[o]
  BY DEF BackupTypes

-----------------------------------------------------------------------------
(* Dumps. *)

\* A step of a dump that is under way: it and its file change, and the database.
DumpMove(g, h, n, f) ==
    /\ dump[g].pc \notin {"idle", "done"} /\ n = dump[g].name
    /\ h.pc # "idle" /\ h.id = dump[g].id /\ h.name = n
    /\ dump' = [dump EXCEPT ![g] = h] /\ disk' = [disk EXCEPT ![n] = f]
    /\ db' \in Databases /\ UNCHANGED <<backupReq, second, takers, backupCrashes>>

LEMMA DumpStep ==
    ASSUME BackupInv, NEW g \in Dumps, NEW h \in DumpJob, NEW f \in File, NEW n, DumpMove(g, h, n, f)
    PROVE  /\ BackupTypes' /\ TakersOK' /\ Steady /\ AsksOK'
           /\ dump'[g] = h /\ disk'[n] = f
           /\ \A o \in Dumps : o # g => DumpOK(o)'
           /\ \A m \in Seconds : m # n => FileOK(m)'
  <1> USE DEF DumpMove
  <1>1. dump' \in [Dumps -> DumpJob] /\ dump'[g] = h /\ \A o \in Dumps : o # g => dump'[o] = dump[o]
    BY DumpMoves DEF BackupInv
  <1>2. n \in Seconds /\ g \in takers.name[n]
    BY DEF BackupInv, TakersOK
  <1>3. disk' \in [Seconds -> File] /\ disk'[n] = f /\ \A m \in Seconds : m # n => disk'[m] = disk[m]
    BY <1>2 DEF BackupInv, BackupTypes
  <1>4. BackupTypes'
    BY <1>1, <1>3 DEF BackupInv, BackupTypes
  <1>5. TakersOK'
    BY <1>1 DEF BackupInv, TakersOK
  <1>6. Steady
    <2>1. \A m \in Seconds : KeptFile(m) =>
              KeptFile(m)' \/ \E o \in Dumps : dump[o].pc \notin {"idle", "done"} /\ dump[o].name = m
      BY <1>3 DEF KeptFile
    <2> QED
      BY <2>1, <1>1 DEF Steady
  <1>7. AsksOK'
    BY <1>5, <1>6, AskStays DEF BackupInv, AsksOK
  <1>8. ASSUME NEW o \in Dumps, o # g PROVE DumpOK(o)'
    <2>1. dump[o].pc \in {"dump", "record"} => dump[o].name \in Seconds /\ o \in takers.name[dump[o].name]
      BY DEF BackupInv, TakersOK
    <2>2. (dump[o].pc \in {"dump", "record"} /\ dump[o].name = n) => ~One(takers.name'[n])
      BY <2>1, <1>2, <1>8 DEF One
    <2>3. PICK k : k = dump[o]
      OBVIOUS
    <2>4. dump'[o] = k /\ DumpOK(o) /\ TakersOK
      BY <2>3, <1>1, <1>8 DEF BackupInv, DumpsOK
    <2>5. k.pc \in {"dump", "record"} =>
             disk'[k.name] = disk[k.name] \/ ~disk'[k.name].present \/ ~One(takers.name'[k.name])
      BY <2>1, <2>2, <2>3, <1>3
    <2> QED
      BY <2>3, <2>4, <2>5, <1>5, <1>6, DumpStays
  <1>9. ASSUME NEW m \in Seconds, m # n PROVE FileOK(m)'
    BY <1>3, <1>5, <1>6, <1>9, FileStays DEF BackupInv, FilesOK
  <1> QED
    BY <1>1, <1>3, <1>4, <1>5, <1>6, <1>7, <1>8, <1>9

LEMMA SameDump ==
    ASSUME NEW g, NEW o, o = g, DumpOK(g)'
    PROVE  DumpOK(o)'
  BY SMTT(30) DEF DumpOK, Writes, KeptFile, GoodDb, Finished, Begun, TwoTakers

LEMMA SameFile ==
    ASSUME NEW m, NEW n, m = n, FileOK(n)'
    PROVE  FileOK(m)'
  BY SMTT(30) DEF FileOK, KeptFile, GoodDb, Finished, Begun, TwoTakers

LEMMA BackupInvFrom ==
    ASSUME BackupTypes', TakersOK', AsksOK', GoodDb(db)', NEW g \in Dumps, NEW n,
           \A o \in Dumps : o # g => DumpOK(o)', \A m \in Seconds : m # n => FileOK(m)',
           DumpOK(g)', n \in Seconds => FileOK(n)'
    PROVE  BackupInv'
  <1>1. ASSUME NEW o \in Dumps PROVE DumpOK(o)'
    <2>1. CASE o = g
      BY <2>1, SameDump
    <2>2. CASE o # g
      BY <2>2, Zenon
    <2> QED
      BY <2>1, <2>2, Zenon
  <1>2. ASSUME NEW m \in Seconds PROVE FileOK(m)'
    <2>1. CASE m = n
      BY <2>1, SameFile
    <2>2. CASE m # n
      BY <2>2, Zenon
    <2> QED
      BY <2>1, <2>2, Zenon
  <1>3. DumpsOK' /\ FilesOK'
    BY <1>1, <1>2, Zenon DEF FilesOK, DumpsOK
  <1> QED
    BY <1>3, Zenon DEF BackupInv

LEMMA SetStatusType ==
    ASSUME db \in Databases, NEW id \in BackupIds, NEW s \in Statuses
    PROVE  SetBackupStatus(id, s) \in Databases
  BY DEF SetBackupStatus, Databases

LEMMA UnderWay ==
    ASSUME BackupInv, NEW g \in Dumps, dump[g].pc # "idle"
    PROVE  /\ dump[g] \in DumpJob /\ dump[g].id \in BackupIds /\ dump[g].name \in Seconds
           /\ disk[dump[g].name] \in File /\ FileOK(dump[g].name) /\ DumpOK(g)
           /\ g \in takers.name[dump[g].name] /\ db \in Databases
           /\ disk = [disk EXCEPT ![dump[g].name] = disk[dump[g].name]]
  BY DEF BackupInv, BackupTypes, TakersOK, FilesOK, DumpsOK

LEMMA StatusRunningKeeps ==
    ASSUME BackupInv, NEW g \in Dumps, StatusRunning(g)
    PROVE  BackupInv'
  <1>0. dump[g].pc = "start"
    BY DEF StatusRunning
  <1>1. PICK h, n, id, f : h = [dump[g] EXCEPT !.pc = "open"] /\ n = dump[g].name /\ id = dump[g].id /\ f = disk[n]
    OBVIOUS
  <1>2. h \in DumpJob /\ h.pc = "open" /\ h.id = dump[g].id /\ h.name = n /\ id \in BackupIds /\ n \in Seconds
        /\ f \in File /\ disk = [disk EXCEPT ![n] = f] /\ FileOK(n) /\ db \in Databases
    BY <1>0, <1>1, UnderWay DEF DumpJob
  <1>3. dump' = [dump EXCEPT ![g] = h] /\ db' = SetBackupStatus(id, "running") /\ disk' = [disk EXCEPT ![n] = f]
        /\ UNCHANGED <<disk, backupReq, second, takers, backupCrashes>>
    BY <1>1, <1>2 DEF StatusRunning, GoOn
  <1>4. db' \in Databases
    BY <1>2, <1>3, SetStatusType DEF Statuses
  <1>5. /\ BackupTypes' /\ TakersOK' /\ Steady /\ AsksOK' /\ dump'[g] = h /\ disk'[n] = f
        /\ (\A o \in Dumps : o # g => DumpOK(o)') /\ \A m \in Seconds : m # n => FileOK(m)'
    <2>1. DumpMove(g, h, n, f)
      BY <1>0, <1>1, <1>2, <1>3, <1>4 DEF DumpMove
    <2> QED
      BY <2>1, <1>2, DumpStep
  <1>6. GoodDb(db)'
    BY <1>2, <1>3, <1>5, StatusSet DEF BackupInv, Statuses
  <1>7. FileOK(n)'
    BY <1>1, <1>2, <1>5, FileStays DEF BackupInv
  <1>8. DumpOK(g)'
    BY <1>2, <1>5 DEF DumpOK
  <1> QED
    BY <1>2, <1>5, <1>6, <1>7, <1>8, BackupInvFrom

LEMMA StartDumpKeeps ==
    ASSUME BackupInv, NEW g \in Dumps, StartDump(g)
    PROVE  BackupInv'
  <1>0. dump[g].pc = "open"
    BY DEF StartDump
  <1>1. PICK n, d, w : n = dump[g].name /\ d = db /\ w = disk[n].open \cup {g}
    OBVIOUS
  <1>2. PICK yes \in BOOLEAN : yes = TRUE
    OBVIOUS
  <1>3. PICK no \in BOOLEAN : no = FALSE
    OBVIOUS
  <1>4. PICK h, f : h = [dump[g] EXCEPT !.pc = "dump", !.snap = d]
                    /\ f = [present |-> yes, open |-> w, touched |-> w, whole |-> no, snap |-> Emptied]
    OBVIOUS
  <1>5. n \in Seconds /\ d \in Databases /\ GoodDb(d) /\ w \in SUBSET Dumps /\ g \in takers.name[n]
        /\ w \subseteq takers.name[n]
    BY <1>0, <1>1, UnderWay DEF BackupInv, File, FileOK
  <1>6. h \in DumpJob /\ h.pc = "dump" /\ h.id = dump[g].id /\ h.name = n /\ h.snap = d
    BY <1>0, <1>1, <1>4, <1>5, UnderWay DEF DumpJob
  <1>7. f \in File /\ f.present /\ f.open = w /\ f.touched = w /\ ~f.whole /\ f.snap = Emptied
    BY <1>2, <1>3, <1>4, <1>5, EmptiedType DEF File
  <1>8. dump' = [dump EXCEPT ![g] = h] /\ disk' = [disk EXCEPT ![n] = f]
        /\ UNCHANGED <<db, backupReq, second, takers, backupCrashes>>
    BY <1>1, <1>2, <1>3, <1>4 DEF StartDump
  <1>9. /\ BackupTypes' /\ TakersOK' /\ Steady /\ AsksOK' /\ dump'[g] = h /\ disk'[n] = f
        /\ (\A o \in Dumps : o # g => DumpOK(o)') /\ \A m \in Seconds : m # n => FileOK(m)'
    <2>1. DumpMove(g, h, n, f)
      BY <1>0, <1>1, <1>5, <1>6, <1>7, <1>8 DEF DumpMove
    <2> QED
      BY <2>1, <1>6, <1>7, DumpStep
  <1>10. GoodDb(d)' /\ GoodDb(db)'
    BY <1>5, <1>8, <1>9, GoodStays, DbStays DEF BackupInv
  <1>11. FileOK(n)'
    BY <1>5, <1>7, <1>8, <1>9 DEF FileOK
  <1>12. DumpOK(g)'
    <2>1. GoodDb(dump[g].snap)'
      BY <1>6, <1>9, <1>10 DEF GoodDb, Finished, Begun, KeptFile, TwoTakers
    <2>2. One(takers.name[n]) => w = {g}
      BY <1>1, <1>5 DEF One
    <2>3. Writes(g)'
      BY <1>6, <1>7, <1>8, <1>9, <2>2 DEF Writes
    <2> QED
      BY <1>6, <1>9, <2>1, <2>3 DEF DumpOK
  <1> QED
    BY <1>9, <1>10, <1>11, <1>12, BackupInvFrom

LEMMA DumpSucceedsKeeps ==
    ASSUME BackupInv, NEW g \in Dumps, DumpSucceeds(g)
    PROVE  BackupInv'
  <1>0. dump[g].pc = "dump"
    BY DEF DumpSucceeds
  <1>1. PICK n, e, d : n = dump[g].name /\ e = disk[n] /\ d = dump[g].snap
    OBVIOUS
  <1>2. PICK h : h = [dump[g] EXCEPT !.pc = "record"]
    OBVIOUS
  <1>3. /\ n \in Seconds /\ e \in File /\ d \in Databases /\ GoodDb(d) /\ disk = [disk EXCEPT ![n] = e]
        /\ g \in takers.name[n] /\ FileOK(n) /\ Writes(g) /\ db \in Databases
    BY <1>0, <1>1, UnderWay DEF DumpOK, GoodDb
  <1>4. h \in DumpJob /\ h.pc = "record" /\ h.id = dump[g].id /\ h.name = n
    BY <1>0, <1>1, <1>2, UnderWay DEF DumpJob
  <1>5. PICK w \in BOOLEAN : (e.touched = {g} => w) /\
           disk' = IF g \notin e.open THEN disk
                   ELSE [disk EXCEPT ![n].open = @ \ {g}, ![n].whole = w, ![n].snap = IF w THEN d ELSE Emptied]
    <2>1. PICK w \in IF e.touched = {g} THEN {TRUE} ELSE BOOLEAN :
           disk' = IF g \notin e.open THEN disk
                   ELSE [disk EXCEPT ![n].open = @ \ {g}, ![n].whole = w, ![n].snap = IF w THEN d ELSE Emptied]
      BY <1>1 DEF DumpSucceeds
    <2> QED
      BY <2>1
  <1>6. PICK f \in File : disk' = [disk EXCEPT ![n] = f]
           /\ (g \notin e.open => f = e)
           /\ (g \in e.open => /\ f.present = e.present /\ f.open = e.open \ {g} /\ f.touched = e.touched
                               /\ f.whole = w /\ f.snap = IF w THEN d ELSE Emptied)
    <2>1. CASE g \notin e.open
      BY <2>1, <1>3, <1>5
    <2>2. CASE g \in e.open
      <3>1. PICK s \in Databases : s = IF w THEN d ELSE Emptied
        BY <1>3, EmptiedType
      <3>2. PICK f : f = [e EXCEPT !.open = @ \ {g}, !.whole = w, !.snap = s]
        OBVIOUS
      <3>3. f \in File /\ f.present = e.present /\ f.open = e.open \ {g} /\ f.touched = e.touched
            /\ f.whole = w /\ f.snap = s
        BY <1>3, <1>5, <3>1, <3>2 DEF File
      <3>4. disk' = [disk EXCEPT ![n] = f]
        BY <1>1, <1>3, <1>5, <2>2, <3>1, <3>2 DEF BackupInv, BackupTypes
      <3> QED
        BY <2>2, <3>1, <3>3, <3>4
    <2> QED
      BY <2>1, <2>2
  <1>8. dump' = [dump EXCEPT ![g] = h] /\ UNCHANGED <<db, backupReq, second, takers, backupCrashes>>
    BY <1>2 DEF DumpSucceeds, GoOn
  <1>9. /\ BackupTypes' /\ TakersOK' /\ Steady /\ AsksOK' /\ dump'[g] = h /\ disk'[n] = f
        /\ (\A o \in Dumps : o # g => DumpOK(o)') /\ \A m \in Seconds : m # n => FileOK(m)'
    <2>1. DumpMove(g, h, n, f)
      BY <1>0, <1>1, <1>3, <1>4, <1>6, <1>8 DEF DumpMove
    <2> QED
      BY <2>1, <1>4, <1>6, DumpStep
  <1>10. GoodDb(d)' /\ GoodDb(db)'
    BY <1>3, <1>8, <1>9, GoodStays, DbStays DEF BackupInv
  <1>11. FileOK(n)'
    <2>1. CASE g \notin e.open
      BY <2>1, <1>1, <1>3, <1>6, <1>9, FileStays DEF BackupInv
    <2>2. CASE g \in e.open
      <3>1. w => GoodDb(disk[n].snap)'
        <4>1. w => disk'[n].snap = d
          BY <2>2, <1>6, <1>9
        <4> QED
          BY <4>1, <1>10 DEF GoodDb, Finished, Begun, KeptFile, TwoTakers
      <3>2. e.open \subseteq takers.name[n] /\ e.open \subseteq e.touched /\ e.present
        BY <2>2, <1>1, <1>3 DEF FileOK, File
      <3> QED
        BY <2>2, <3>1, <3>2, <1>6, <1>8, <1>9 DEF FileOK
    <2> QED
      BY <2>1, <2>2
  <1>12. DumpOK(g)'
    <2>1. ASSUME One(takers.name[n]) PROVE f.whole \/ ~f.present
      <3>1. CASE ~e.present
        BY <3>1, <1>1, <1>3, <1>6 DEF FileOK
      <3>2. CASE e.present
        BY <3>2, <2>1, <1>1, <1>3, <1>5, <1>6 DEF Writes
      <3> QED
        BY <3>1, <3>2
    <2> QED
      BY <2>1, <1>4, <1>8, <1>9 DEF DumpOK, KeptFile
  <1> QED
    BY <1>9, <1>10, <1>11, <1>12, BackupInvFrom

LEMMA FailBackupKeeps ==
    ASSUME BackupInv, NEW g \in Dumps, FailBackup(g)
    PROVE  BackupInv'
  <1>0. dump[g].pc = "dump"
    BY DEF FailBackup
  <1>1. PICK n, e, id : n = dump[g].name /\ e = disk[n] /\ id = dump[g].id
    OBVIOUS
  <1>2. PICK h, f : h = [dump[g] EXCEPT !.pc = "done"] /\ f = [e EXCEPT !.open = @ \ {g}]
    OBVIOUS
  <1>3. n \in Seconds /\ e \in File /\ FileOK(n) /\ id \in BackupIds /\ db \in Databases
    BY <1>0, <1>1, UnderWay
  <1>4. h \in DumpJob /\ h.pc = "done" /\ h.id = dump[g].id /\ h.name = n
    BY <1>0, <1>1, <1>2, UnderWay DEF DumpJob
  <1>5. f \in File /\ f.open = e.open \ {g} /\ f.touched = e.touched /\ f.present = e.present
        /\ f.whole = e.whole /\ f.snap = e.snap
    BY <1>2, <1>3 DEF File
  <1>6. dump' = [dump EXCEPT ![g] = h] /\ disk' = [disk EXCEPT ![n] = f]
        /\ UNCHANGED <<backupReq, second, takers, backupCrashes>>
    BY <1>1, <1>2 DEF FailBackup, CloseFile, GoOn
  <1>7. db' = db \/ db' = SetBackupStatus(id, "failed")
    BY <1>1 DEF FailBackup
  <1>8. db' \in Databases
    BY <1>3, <1>7, SetStatusType DEF Statuses
  <1>9. /\ BackupTypes' /\ TakersOK' /\ Steady /\ AsksOK' /\ dump'[g] = h /\ disk'[n] = f
        /\ (\A o \in Dumps : o # g => DumpOK(o)') /\ \A m \in Seconds : m # n => FileOK(m)'
    <2>1. DumpMove(g, h, n, f)
      BY <1>0, <1>1, <1>4, <1>5, <1>6, <1>8 DEF DumpMove
    <2> QED
      BY <2>1, <1>4, <1>5, DumpStep
  <1>10. GoodDb(db)'
    BY <1>3, <1>7, <1>9, StatusSet, DbStays DEF BackupInv, Statuses
  <1>11. FileOK(n)'
    <2>1. PICK d : d = e.snap
      OBVIOUS
    <2>2. GoodDb(d) => GoodDb(d)'
      BY <1>9, GoodStays DEF BackupInv
    <2>3. GoodDb(disk[n].snap)' <=> GoodDb(d)'
      BY <2>1, <1>5, <1>9 DEF GoodDb, Finished, Begun, KeptFile, TwoTakers
    <2> QED
      BY <2>1, <2>2, <2>3, <1>1, <1>3, <1>5, <1>6, <1>9 DEF FileOK
  <1>12. DumpOK(g)'
    BY <1>4, <1>9 DEF DumpOK
  <1> QED
    BY <1>9, <1>10, <1>11, <1>12, BackupInvFrom

LEMMA RecordDumpKeeps ==
    ASSUME BackupInv, NEW g \in Dumps, RecordDump(g)
    PROVE  BackupInv'
  <1>0. dump[g].pc = "record"
    BY DEF RecordDump
  <1>1. PICK n, f, id, h : n = dump[g].name /\ f = disk[n] /\ id = dump[g].id /\ h = [dump[g] EXCEPT !.pc = "done"]
    OBVIOUS
  <1>2. n \in Seconds /\ f \in File /\ FileOK(n) /\ id \in BackupIds /\ db \in Databases /\ DumpOK(g)
        /\ disk = [disk EXCEPT ![n] = f] /\ g \in takers.name[n] /\ g \in takers.id[id]
    BY <1>0, <1>1, UnderWay DEF BackupInv, TakersOK
  <1>3. h \in DumpJob /\ h.pc = "done" /\ h.id = id /\ h.name = n
    BY <1>0, <1>1, UnderWay DEF DumpJob
  <1>4. dump' = [dump EXCEPT ![g] = h] /\ disk' = [disk EXCEPT ![n] = f]
        /\ UNCHANGED <<disk, backupReq, second, takers, backupCrashes>>
    BY <1>1, <1>2 DEF RecordDump, GoOn
  <1>5. PICK s \in {"completed", "failed"} : db' = db \/ db' = SetBackupStatus(id, s)
    BY <1>1 DEF RecordDump
  <1>6. db' \in Databases
    BY <1>2, <1>5, SetStatusType DEF Statuses
  <1>7. /\ BackupTypes' /\ TakersOK' /\ Steady /\ AsksOK' /\ dump'[g] = h /\ disk'[n] = f
        /\ (\A o \in Dumps : o # g => DumpOK(o)') /\ \A m \in Seconds : m # n => FileOK(m)'
    <2>1. DumpMove(g, h, n, f)
      BY <1>0, <1>1, <1>2, <1>3, <1>4, <1>6 DEF DumpMove
    <2> QED
      BY <2>1, <1>2, <1>3, DumpStep
  <1>8. PICK m : m = db.table[id].name
    OBVIOUS
  <1>9. db.table[id].status # "none" => Finished(id, m)'
    <2> SUFFICES ASSUME db.table[id].status # "none" PROVE Finished(id, m)'
      OBVIOUS
    <2>1. Begun(id, m)
      BY <1>2, <1>8 DEF BackupInv, GoodDb
    <2>2. Begun(id, m)' /\ m \in Seconds
      BY <2>1, <1>7, BegunStays DEF Begun
    <2>3. PICK o \in Dumps : dump[o].pc # "idle" /\ dump[o].id = id /\ dump[o].name = m
      BY <2>1 DEF Begun
    <2>4. ASSUME One(takers.name[m]), One(takers.id[id])
          PROVE  /\ \A k \in Dumps : (dump'[k].pc # "idle" /\ dump'[k].name = m) => dump'[k].pc = "done"
                 /\ disk'[m].whole \/ ~disk'[m].present
      <3>1. o = g /\ m = n
        BY <2>3, <2>4, <1>1, <1>2 DEF BackupInv, TakersOK, One
      <3>2. f.whole \/ ~f.present
        BY <3>1, <2>4, <1>0, <1>1, <1>2 DEF DumpOK, KeptFile
      <3>3. ASSUME NEW k \in Dumps, dump'[k].pc # "idle", dump'[k].name = m PROVE k = g
        <4>1. k \in takers.name[m]
          BY <3>3, <1>4, <1>7 DEF TakersOK
        <4> QED
          BY <4>1, <3>1, <2>4, <1>2 DEF One
      <3> QED
        BY <3>1, <3>2, <3>3, <1>3, <1>7
    <2> QED
      BY <2>2, <2>4, <1>4 DEF Finished, KeptFile
  <1>10. GoodDb(db)'
    BY <1>2, <1>5, <1>7, <1>8, <1>9, StatusSet, DbStays DEF BackupInv, Statuses
  <1>11. FileOK(n)'
    BY <1>1, <1>2, <1>7, FileStays DEF BackupInv
  <1>12. DumpOK(g)'
    BY <1>3, <1>7 DEF DumpOK
  <1> QED
    BY <1>7, <1>10, <1>11, <1>12, BackupInvFrom

LEMMA CreateBackupKeeps ==
    ASSUME BackupInv, NEW g \in Dumps, CreateBackup(g)
    PROVE  BackupInv'
  <1>1. PICK id, n : id = db.seq + 1 /\ n = second
    OBVIOUS
  <1>2. PICK h, d : /\ h = [dump[g] EXCEPT !.pc = "start", !.id = id, !.name = n]
                    /\ d = [db EXCEPT !.seq = id, !.table[id] = [status |-> "pending", name |-> n]]
    OBVIOUS
  <1>3. dump[g].pc = "idle" /\ id \in BackupIds /\ n \in Seconds /\ db \in Databases /\ dump[g] \in DumpJob
    BY <1>1 DEF CreateBackup, BackupInv, BackupTypes
  <1>4. h \in DumpJob /\ h.pc = "start" /\ h.id = id /\ h.name = n
    BY <1>2, <1>3, BackupNumbers DEF DumpJob
  <1>5. /\ d \in Databases /\ d.part = db.part /\ d.table[id].status = "pending" /\ d.table[id].name = n
        /\ \A i \in BackupIds : i # id => d.table[i] = db.table[i]
    BY <1>2, <1>3, BackupNumbers DEF Databases, Statuses
  <1>6. /\ db' = d /\ dump' = [dump EXCEPT ![g] = h]
        /\ takers' = [takers EXCEPT !.name[n] = @ \cup {g}, !.id[id] = @ \cup {g}]
        /\ UNCHANGED <<disk, backupReq, second, backupCrashes>>
    BY <1>1, <1>2 DEF CreateBackup
  <1>7. dump' \in [Dumps -> DumpJob] /\ dump'[g] = h /\ \A o \in Dumps : o # g => dump'[o] = dump[o]
    BY <1>4, <1>6, DumpMoves DEF BackupInv
  <1>8. takers \in [name : [Seconds -> SUBSET Dumps], id : [BackupIds -> SUBSET Dumps]]
    BY DEF BackupInv, BackupTypes
  <1>9. takers' \in [name : [Seconds -> SUBSET Dumps], id : [BackupIds -> SUBSET Dumps]]
    BY <1>3, <1>6, <1>8
  <1>10. /\ \A m \in Seconds : takers.name[m] \subseteq takers.name'[m]
         /\ \A i \in BackupIds : takers.id[i] \subseteq takers.id'[i]
         /\ g \in takers.name'[n] /\ g \in takers.id'[id]
    BY <1>3, <1>6, <1>8
  <1>11. BackupTypes'
    BY <1>5, <1>6, <1>7, <1>9 DEF BackupInv, BackupTypes
  <1>12. TakersOK'
    BY <1>3, <1>4, <1>7, <1>10 DEF BackupInv, TakersOK
  <1>13. Steady
    <2>1. \A m \in Seconds : KeptFile(m) => KeptFile(m)'
      BY <1>6 DEF KeptFile
    <2> QED
      BY <2>1, <1>3, <1>7, <1>10 DEF Steady
  <1>14. AsksOK'
    BY <1>6, <1>12, <1>13, AskStays DEF BackupInv, AsksOK
  <1>15. FilesOK'
    BY <1>6, <1>12, <1>13, FileStays DEF BackupInv, FilesOK
  <1>16. ASSUME NEW o \in Dumps PROVE DumpOK(o)'
    <2>1. CASE o = g
      BY <2>1, <1>4, <1>7 DEF DumpOK
    <2>2. CASE o # g
      BY <2>2, <1>6, <1>7, <1>12, <1>13, DumpStays DEF BackupInv, DumpsOK
    <2> QED
      BY <2>1, <2>2
  <1>17. GoodDb(db)'
    <2>1. PICK e : e = db
      OBVIOUS
    <2>2. GoodDb(e)'
      BY <2>1, <1>12, <1>13, GoodStays DEF BackupInv
    <2>3. Begun(id, n)'
      BY <1>3, <1>4, <1>7 DEF Begun
    <2>4. GoodDb(d)'
      BY <2>1, <2>2, <2>3, <1>5 DEF GoodDb
    <2> QED
      BY <1>6, <2>4, DbBecomes
  <1> QED
    BY <1>11, <1>12, <1>14, <1>15, <1>16, <1>17 DEF BackupInv, DumpsOK

-----------------------------------------------------------------------------
(* Requests. *)

\* A step of a request: it changes, files may go, and the database may change.
AskMove(q, r) ==
    /\ backupReq' = [backupReq EXCEPT ![q] = r]
    /\ disk' \in [Seconds -> File] /\ \A n \in Seconds : disk'[n] = disk[n] \/ disk'[n] = NoFile
    /\ db' \in Databases /\ UNCHANGED <<dump, second, takers, backupCrashes>>

LEMMA AskStep ==
    ASSUME BackupInv, NEW q \in BackupRequests, NEW r \in BackupRequest, AskMove(q, r)
    PROVE  /\ BackupTypes' /\ TakersOK' /\ Steady /\ FilesOK' /\ DumpsOK' /\ backupReq'[q] = r
           /\ \A o \in BackupRequests : o # q => AskOK(o)'
  <1> USE DEF AskMove
  <1>1. backupReq' \in [BackupRequests -> BackupRequest] /\ backupReq'[q] = r
        /\ \A o \in BackupRequests : o # q => backupReq'[o] = backupReq[o]
    BY RequestMoves DEF BackupInv
  <1>2. BackupTypes'
    BY <1>1 DEF BackupInv, BackupTypes
  <1>3. TakersOK'
    BY DEF BackupInv, TakersOK
  <1>4. Steady
    <2>1. \A m \in Seconds : KeptFile(m) => KeptFile(m)'
      BY NoFileType DEF KeptFile
    <2> QED
      BY <2>1 DEF Steady
  <1>5. ASSUME NEW n \in Seconds PROVE FileOK(n)'
    <2>1. CASE disk'[n] = disk[n]
      BY <2>1, <1>3, <1>4, FileStays DEF BackupInv, FilesOK
    <2>2. CASE disk'[n] = NoFile
      BY <2>2, NoFileType DEF FileOK
    <2> QED
      BY <2>1, <2>2
  <1>6. ASSUME NEW g \in Dumps PROVE DumpOK(g)'
    <2>1. dump[g].pc \in {"dump", "record"} => dump[g].name \in Seconds
      BY DEF BackupInv, TakersOK
    <2>2. dump[g].pc \in {"dump", "record"} =>
             disk'[dump[g].name] = disk[dump[g].name] \/ ~disk'[dump[g].name].present
      BY <2>1, NoFileType
    <2> QED
      BY <2>2, <1>3, <1>4, DumpStays DEF BackupInv, DumpsOK
  <1>7. ASSUME NEW o \in BackupRequests, o # q PROVE AskOK(o)'
    BY <1>1, <1>3, <1>4, <1>7, AskStays DEF BackupInv, AsksOK
  <1> QED
    BY <1>1, <1>2, <1>3, <1>4, <1>5, <1>6, <1>7 DEF FilesOK, DumpsOK

LEMMA AskKeeps ==
    ASSUME BackupInv, NEW q \in BackupRequests, NEW r \in BackupRequest, AskMove(q, r),
           Steady /\ TakersOK' => GoodDb(db)',
           r.pc \in {"unlink", "erase"} => r.id \in BackupIds /\ r.name \in Seconds,
           r.pc \in {"check", "psql"} => r.id \in BackupIds /\ Finished(r.id, r.name)
    PROVE  BackupInv'
  <1>1. /\ BackupTypes' /\ TakersOK' /\ Steady /\ FilesOK' /\ DumpsOK' /\ backupReq'[q] = r
        /\ \A o \in BackupRequests : o # q => AskOK(o)'
    BY AskStep
  <1>2. AskOK(q)'
    <2>1. PICK i, n : i = r.id /\ n = r.name
      OBVIOUS
    <2>2. (i \in BackupIds /\ Finished(i, n)) => Finished(i, n)'
      BY <1>1, FinishedStays DEF BackupInv
    <2>3. Finished(backupReq[q].id, backupReq[q].name)' <=> Finished(i, n)'
      BY <1>1, <2>1 DEF Finished, Begun, KeptFile
    <2> QED
      BY <1>1, <2>1, <2>2, <2>3 DEF AskOK
  <1>3. AsksOK'
    <2> SUFFICES ASSUME NEW o \in BackupRequests PROVE AskOK(o)'
      BY DEF AsksOK
    <2>1. CASE o = q
      BY <2>1, <1>2 DEF AskOK, Finished, Begun, KeptFile
    <2> QED
      BY <2>1, <1>1
  <1> QED
    BY <1>1, <1>3 DEF BackupInv

\* What the requests that leave the database alone have in common.
LEMMA AskReads ==
    ASSUME BackupInv, NEW q \in BackupRequests, NEW r \in BackupRequest, AskMove(q, r), UNCHANGED db,
           r.pc \in {"unlink", "erase"} => r.id \in BackupIds /\ r.name \in Seconds,
           r.pc \in {"check", "psql"} => r.id \in BackupIds /\ Finished(r.id, r.name)
    PROVE  BackupInv'
  <1>1. Steady /\ TakersOK' => GoodDb(db)'
    BY DbStays DEF BackupInv
  <1> QED
    BY <1>1, AskKeeps

LEMMA AskKeepsBackups ==
    ASSUME BackupInv, NEW q \in BackupRequests, NEW id \in BackupIds, NEW pc \in {"unlink", "check"},
           db.table[id].status # "none", pc = "check" => Named(id), Ask(q, id, pc)
    PROVE  BackupInv'
  <1>1. PICK n, r : n = db.table[id].name /\ r = [pc |-> pc, id |-> id, name |-> n]
    OBVIOUS
  <1>2. n \in Seconds /\ (pc = "check" => Finished(id, n))
    BY <1>1 DEF BackupInv, GoodDb, Begun, Named
  <1>3. r \in BackupRequest /\ r.pc = pc /\ r.id = id /\ r.name = n
    BY <1>1, <1>2, BackupNumbers DEF BackupRequest
  <1>4. AskMove(q, r) /\ UNCHANGED db
    BY <1>1 DEF Ask, AskMove, BackupInv, BackupTypes
  <1> QED
    BY <1>2, <1>3, <1>4, AskReads

\* The request q goes on to pc.
LEMMA RequestGoesOn ==
    ASSUME BackupInv, NEW q \in BackupRequests, NEW pc \in {"erase", "psql", "note", "done"}, Proceed(q, pc)
    PROVE  \E r \in BackupRequest : /\ r.pc = pc /\ r.id = backupReq[q].id /\ r.name = backupReq[q].name
                                    /\ backupReq' = [backupReq EXCEPT ![q] = r]
  <1>1. PICK r : r = [backupReq[q] EXCEPT !.pc = pc]
    OBVIOUS
  <1>2. backupReq[q] \in BackupRequest
    BY DEF BackupInv, BackupTypes
  <1>3. r \in BackupRequest /\ r.pc = pc /\ r.id = backupReq[q].id /\ r.name = backupReq[q].name
    BY <1>1, <1>2 DEF BackupRequest
  <1> QED
    BY <1>1, <1>3 DEF Proceed

LEMMA RemoveFileKeeps ==
    ASSUME BackupInv, NEW q \in BackupRequests, RemoveFile(q)
    PROVE  BackupInv'
  <1>1. backupReq[q].pc = "unlink" /\ Proceed(q, "erase")
    BY DEF RemoveFile
  <1>2. PICK r \in BackupRequest : /\ r.pc = "erase" /\ r.id = backupReq[q].id /\ r.name = backupReq[q].name
                                   /\ backupReq' = [backupReq EXCEPT ![q] = r]
    BY <1>1, RequestGoesOn
  <1>3. r.id \in BackupIds /\ r.name \in Seconds
    BY <1>1, <1>2 DEF BackupInv, AsksOK, AskOK
  <1>4. disk' \in [Seconds -> File] /\ \A n \in Seconds : disk'[n] = disk[n] \/ disk'[n] = NoFile
    BY <1>3, NoFileType DEF RemoveFile, BackupInv, BackupTypes
  <1>5. AskMove(q, r) /\ UNCHANGED db
    BY <1>2, <1>4 DEF RemoveFile, AskMove, BackupInv, BackupTypes
  <1> QED
    BY <1>2, <1>3, <1>5, AskReads

LEMMA CheckRestoreScriptKeeps ==
    ASSUME BackupInv, NEW q \in BackupRequests, CheckRestoreScript(q)
    PROVE  BackupInv'
  <1>1. PICK pc \in {"psql", "done"} : backupReq[q].pc = "check" /\ Proceed(q, pc)
    BY DEF CheckRestoreScript
  <1>2. PICK r \in BackupRequest : /\ r.pc = pc /\ r.id = backupReq[q].id /\ r.name = backupReq[q].name
                                   /\ backupReq' = [backupReq EXCEPT ![q] = r]
    BY <1>1, RequestGoesOn
  <1>3. r.id \in BackupIds /\ Finished(r.id, r.name)
    BY <1>1, <1>2 DEF BackupInv, AsksOK, AskOK
  <1>4. AskMove(q, r) /\ UNCHANGED db
    BY <1>2 DEF CheckRestoreScript, AskMove, BackupInv, BackupTypes
  <1> QED
    BY <1>1, <1>2, <1>3, <1>4, AskReads

LEMMA RecordRestoreKeeps ==
    ASSUME BackupInv, NEW q \in BackupRequests, RecordRestore(q)
    PROVE  BackupInv'
  <1>1. Proceed(q, "done")
    BY DEF RecordRestore
  <1>2. PICK r \in BackupRequest : r.pc = "done" /\ backupReq' = [backupReq EXCEPT ![q] = r]
    BY <1>1, RequestGoesOn
  <1>3. AskMove(q, r) /\ UNCHANGED db
    BY <1>2 DEF RecordRestore, AskMove, BackupInv, BackupTypes
  <1> QED
    BY <1>2, <1>3, AskReads

LEMMA DeleteBackupKeeps ==
    ASSUME BackupInv, NEW q \in BackupRequests, DeleteBackup(q)
    PROVE  BackupInv'
  <1>1. backupReq[q].pc = "erase" /\ Proceed(q, "done")
    BY DEF DeleteBackup
  <1>2. PICK r \in BackupRequest : r.pc = "done" /\ backupReq' = [backupReq EXCEPT ![q] = r]
    BY <1>1, RequestGoesOn
  <1>3. PICK id, d : id = backupReq[q].id /\ d = [db EXCEPT !.table[id] = NoBackup]
    OBVIOUS
  <1>4. id \in BackupIds /\ db \in Databases
    BY <1>1, <1>3 DEF BackupInv, AsksOK, AskOK, BackupTypes
  <1>5. NoBackup \in [status : Statuses, name : 0..MaxSecond] /\ NoBackup.status = "none"
    BY BackupNumbers DEF NoBackup, Statuses
  <1>6. /\ d \in Databases /\ d.part = db.part /\ d.table[id].status = "none"
        /\ \A i \in BackupIds : i # id => d.table[i] = db.table[i]
    BY <1>3, <1>4, <1>5 DEF Databases
  <1>7. db' = d
    BY <1>3 DEF DeleteBackup
  <1>8. AskMove(q, r)
    BY <1>2, <1>6, <1>7 DEF DeleteBackup, AskMove, BackupInv, BackupTypes
  <1>9. ASSUME Steady, TakersOK' PROVE GoodDb(db)'
    <2>1. PICK e : e = db
      OBVIOUS
    <2>2. GoodDb(e)'
      BY <2>1, <1>9, GoodStays DEF BackupInv
    <2>3. GoodDb(d)'
      BY <2>1, <2>2, <1>6 DEF GoodDb
    <2> QED
      BY <1>7, <2>3, DbBecomes
  <1> QED
    BY <1>2, <1>8, <1>9, AskKeeps

LEMMA RestoreBackupKeeps ==
    ASSUME BackupInv, NEW q \in BackupRequests, RestoreBackup(q)
    PROVE  BackupInv'
  <1>1. backupReq[q].pc = "psql"
    BY DEF RestoreBackup
  <1>2. PICK id, n, d : id = backupReq[q].id /\ n = backupReq[q].name /\ d = disk[n].snap
    OBVIOUS
  <1>3. id \in BackupIds /\ Finished(id, n) /\ n \in Seconds /\ FileOK(n)
    BY <1>1, <1>2 DEF BackupInv, AsksOK, AskOK, Finished, Begun, FilesOK
  <1>4. CASE disk[n].present /\ db' = d /\ Proceed(q, "note")
    <2>1. PICK r \in BackupRequest : r.pc = "note" /\ backupReq' = [backupReq EXCEPT ![q] = r]
      BY <1>4, RequestGoesOn
    <2>2. GoodDb(d)
      <3>1. CASE disk[n].whole
        BY <3>1, <1>2, <1>3 DEF FileOK
      <3>2. CASE ~disk[n].whole
        <4>1. d = Emptied /\ ~KeptFile(n)
          BY <3>2, <1>2, <1>3, <1>4 DEF FileOK, KeptFile
        <4>2. TwoTakers
          BY <4>1, <1>3 DEF Finished, TwoTakers
        <4> QED
          BY <4>1, <4>2, EmptiedType DEF GoodDb
      <3> QED
        BY <3>1, <3>2
    <2>3. AskMove(q, r)
      BY <2>1, <2>2, <1>4 DEF RestoreBackup, AskMove, BackupInv, BackupTypes, GoodDb
    <2>4. ASSUME Steady, TakersOK' PROVE GoodDb(db)'
      BY <2>2, <2>4, <1>4, GoodStays, DbBecomes DEF BackupInv
    <2> QED
      BY <2>1, <2>3, <2>4, AskKeeps
  <1>5. CASE UNCHANGED db /\ Proceed(q, "done")
    <2>1. PICK r \in BackupRequest : r.pc = "done" /\ backupReq' = [backupReq EXCEPT ![q] = r]
      BY <1>5, RequestGoesOn
    <2>2. AskMove(q, r)
      BY <2>1, <1>5 DEF RestoreBackup, AskMove, BackupInv, BackupTypes
    <2> QED
      BY <2>1, <2>2, <1>5, AskReads
  <1> QED
    BY <1>2, <1>4, <1>5 DEF RestoreBackup

-----------------------------------------------------------------------------
(* The surroundings. *)

\* Time passes, or nothing happens.
LEMMA ClockKeeps ==
    ASSUME BackupInv, second' \in Seconds, UNCHANGED <<db, disk, dump, backupReq, takers, backupCrashes>>
    PROVE  BackupInv'
  <1>1. BackupTypes' /\ TakersOK'
    BY DEF BackupInv, BackupTypes, TakersOK
  <1>2. Steady
    BY DEF Steady, KeptFile
  <1>3. FilesOK'
    BY <1>1, <1>2, FileStays DEF BackupInv, FilesOK
  <1>4. DumpsOK'
    BY <1>1, <1>2, DumpStays DEF BackupInv, DumpsOK
  <1>5. AsksOK'
    BY <1>1, <1>2, AskStays DEF BackupInv, AsksOK
  <1>6. GoodDb(db)'
    BY <1>1, <1>2, DbStays DEF BackupInv
  <1> QED
    BY <1>1, <1>3, <1>4, <1>5, <1>6 DEF BackupInv

LEMMA CrashBackupsKeeps ==
    ASSUME BackupInv, CrashBackups
    PROVE  BackupInv'
  <1>1. \A g \in Dumps : /\ dump[g] \in DumpJob /\ dump'[g] \in DumpJob
                         /\ dump'[g].pc = (IF dump[g].pc = "idle" THEN "idle" ELSE "done")
                         /\ dump'[g].id = dump[g].id /\ dump'[g].name = dump[g].name
    BY DEF CrashBackups, BackupInv, BackupTypes, DumpJob
  <1>2. \A n \in Seconds : /\ disk'[n] \in File /\ disk'[n].open = {}
                           /\ disk'[n].whole = disk[n].whole /\ disk'[n].present = disk[n].present
                           /\ disk'[n].snap = disk[n].snap
    BY DEF CrashBackups, BackupInv, BackupTypes, File
  <1>3. \A q \in BackupRequests : backupReq'[q] \in BackupRequest /\ backupReq'[q].pc \in {"idle", "done"}
    BY DEF CrashBackups, BackupInv, BackupTypes, BackupRequest
  <1>4. BackupTypes'
    <2>1. disk' \in [Seconds -> File] /\ dump' \in [Dumps -> DumpJob]
          /\ backupReq' \in [BackupRequests -> BackupRequest]
      BY <1>1, <1>2, <1>3 DEF CrashBackups
    <2>2. backupCrashes' \in 0..MaxBackupCrashes
      BY BackupBounds DEF CrashBackups, BackupInv, BackupTypes
    <2> QED
      BY <2>1, <2>2 DEF CrashBackups, BackupInv, BackupTypes
  <1>5. TakersOK'
    BY <1>1 DEF CrashBackups, BackupInv, TakersOK
  <1>6. Steady
    <2>1. \A n \in Seconds : KeptFile(n) => KeptFile(n)'
      BY <1>2 DEF KeptFile
    <2>2. takers' = takers
      BY DEF CrashBackups
    <2>3. \A g \in Dumps : dump[g].pc # "idle" =>
              /\ dump'[g].pc # "idle" /\ dump'[g].id = dump[g].id /\ dump'[g].name = dump[g].name
              /\ dump[g].pc = "done" => dump'[g].pc = "done"
      BY <1>1
    <2> QED
      BY <2>1, <2>2, <2>3 DEF Steady
  <1>7. ASSUME NEW n \in Seconds PROVE FileOK(n)'
    <2>1. PICK d : d = disk[n].snap
      OBVIOUS
    <2>2. GoodDb(d) => GoodDb(d)'
      BY <1>5, <1>6, GoodStays DEF BackupInv
    <2>3. disk'[n].snap = d
      BY <2>1, <1>2
    <2>4. GoodDb(disk[n].snap)' <=> GoodDb(d)'
      BY <2>3 DEF GoodDb, Finished, Begun, KeptFile, TwoTakers
    <2>5. FileOK(n)
      BY DEF BackupInv, FilesOK
    <2> QED
      BY <2>1, <2>2, <2>3, <2>4, <2>5, <1>2 DEF FileOK
  <1>8. DumpsOK' /\ AsksOK'
    BY <1>1, <1>3 DEF DumpsOK, DumpOK, AsksOK, AskOK
  <1>9. GoodDb(db)'
    BY <1>5, <1>6, DbStays DEF BackupInv, CrashBackups
  <1> QED
    BY <1>4, <1>5, <1>7, <1>8, <1>9 DEF BackupInv, FilesOK

-----------------------------------------------------------------------------
LEMMA BackupInvStep == BackupInv /\ [BackupsNext]_backupVars => BackupInv'
  <1> SUFFICES ASSUME BackupInv, [BackupsNext]_backupVars PROVE BackupInv'
    OBVIOUS
  <1>1. CASE UNCHANGED backupVars
    <2>1. second' \in Seconds /\ UNCHANGED <<db, disk, dump, backupReq, takers, backupCrashes>>
      BY <1>1 DEF backupVars, BackupInv, BackupTypes
    <2> QED
      BY <2>1, ClockKeeps
  <1>2. CASE NextSecond
    <2>1. second' \in Seconds
      BY <1>2, BackupBounds DEF NextSecond, BackupInv, BackupTypes, Seconds
    <2>2. UNCHANGED <<db, disk, dump, backupReq, takers, backupCrashes>>
      BY <1>2 DEF NextSecond
    <2> QED
      BY <2>1, <2>2, ClockKeeps
  <1>3. CASE CrashBackups
    BY <1>3, CrashBackupsKeeps
  <1>4. ASSUME NEW g \in Dumps, RunDump(g) PROVE BackupInv'
    BY <1>4, CreateBackupKeeps, StatusRunningKeeps, StartDumpKeeps, DumpSucceedsKeeps, FailBackupKeeps,
       RecordDumpKeeps DEF RunDump
  <1>5. ASSUME NEW q \in BackupRequests, ServeBackup(q) PROVE BackupInv'
    <2>1. ASSUME NEW id \in BackupIds, ReadPath(q, id) PROVE BackupInv'
      BY <2>1, AskKeepsBackups DEF ReadPath
    <2>2. ASSUME NEW id \in BackupIds, GetBackupPath(q, id) PROVE BackupInv'
      BY <2>2, AskKeepsBackups DEF GetBackupPath, Named
    <2> QED
      BY <1>5, <2>1, <2>2, RemoveFileKeeps, DeleteBackupKeeps, CheckRestoreScriptKeeps, RestoreBackupKeeps,
         RecordRestoreKeeps DEF ServeBackup
  <1> QED
    BY <1>1, <1>2, <1>3, <1>4, <1>5 DEF BackupsNext

\* What is shown as completed is a whole dump and what is restored is whole,
\* but for backups that shared a second or an identifier, for any number of
\* dumps, requests, seconds and crashes (backup.go).
THEOREM BackupsSafeAlways == BackupsSpec => []BackupsSafe
  <1>1. BackupsInit => BackupInv
    BY BackupInvInit
  <1>2. BackupInv /\ [BackupsNext]_backupVars => BackupInv'
    BY BackupInvStep
  <1>3. BackupInv => BackupsSafe
    BY BackupInvSafe
  <1> QED
    BY <1>1, <1>2, <1>3, PTL DEF BackupsSpec

-----------------------------------------------------------------------------
(* Retention: the rollups. *)

\* A day the next hourly refresh looks at has at least the raw samples its hourly
\* rollup counts, and the daily refresh finds the hourly rollups it once counted.
SourcesKept ==
    /\ \A d \in AllDays : d + HourlyWindow >= today => hourly[d] <= raw[d]
    /\ hourlyDays = 0 \/ hourlyDays >= DailyWindow =>
         \A d \in AllDays : d + DailyWindow >= today => daily[d] <= hourly[d]

RollupsTyped ==
    /\ today \in AllDays /\ configured \in MetricsDays /\ hourlyDays \in HourlyDays
    /\ raw \in [AllDays -> 0 .. MaxDaySamples] /\ hourly \in [AllDays -> 0 .. MaxDaySamples]
    /\ daily \in [AllDays -> 0 .. MaxDaySamples]

RollupsInv == RollupsTyped /\ SourcesKept

\* The bounds are numbers, and the raw rows outlive the hourly refresh window.
LEMMA RollupBounds ==
    /\ LastDay \in Nat /\ MaxDaySamples \in Nat /\ AllDays \subseteq Nat
    /\ MinRawDays \in Nat /\ HourlyWindow \in Nat /\ DailyWindow \in Nat
    /\ HourlyWindow < MinRawDays /\ MetricsDays \subseteq Nat /\ HourlyDays \subseteq Nat
<1>1. LastDay \in Nat
  BY RollupAssumption
<1> QED
  BY <1>1, RollupAssumption DEF AllDays

\* What the types say of one day.
LEMMA RollupTypes ==
    ASSUME RollupsTyped
    PROVE  /\ today \in Nat /\ hourlyDays \in Nat
           /\ \A d \in AllDays : raw[d] \in Nat /\ hourly[d] \in Nat /\ daily[d] \in Nat /\ d \in Nat
<1>1. ASSUME NEW d \in AllDays
      PROVE  raw[d] \in 0 .. MaxDaySamples /\ hourly[d] \in 0 .. MaxDaySamples /\ daily[d] \in 0 .. MaxDaySamples
  BY DEF RollupsTyped
<1> QED
  BY <1>1, RollupBounds DEF RollupsTyped

\* A retention job empties the days that are over, and only those.
LEMMA DroppedValue ==
    ASSUME NEW table \in [AllDays -> 0 .. MaxDaySamples], NEW days \in Nat, today \in AllDays
    PROVE  /\ Dropped(table, days) \in [AllDays -> 0 .. MaxDaySamples]
           /\ \A d \in AllDays : /\ Dropped(table, days)[d] <= table[d]
                                 /\ d + days >= today \/ days = 0 => Dropped(table, days)[d] = table[d]
<1> USE RollupBounds
<1>1. ASSUME NEW d \in AllDays
      PROVE  LET v == IF days > 0 /\ d + days < today THEN 0 ELSE table[d]
             IN v \in 0 .. MaxDaySamples /\ v <= table[d] /\ (d + days >= today \/ days = 0 => v = table[d])
  <2>1. PICK n \in 0 .. MaxDaySamples : n = table[d]
    OBVIOUS
  <2>2. PICK now \in Nat : now = today
    OBVIOUS
  <2>3. d \in Nat
    OBVIOUS
  <2> QED
    BY <2>1, <2>2, <2>3, SMT
<1> QED
  BY <1>1 DEF Dropped

\* A refresh takes nothing from a day whose source has at least as much.
LEMMA RefreshedValue ==
    ASSUME NEW rollup \in [AllDays -> 0 .. MaxDaySamples],
           NEW source \in [AllDays -> 0 .. MaxDaySamples], NEW window \in Nat, today \in AllDays
    PROVE  /\ Refreshed(rollup, source, window) \in [AllDays -> 0 .. MaxDaySamples]
           /\ \A d \in AllDays :
                /\ (d + window >= today => rollup[d] <= source[d]) =>
                     /\ rollup[d] <= Refreshed(rollup, source, window)[d]
                     /\ d + window >= today => Refreshed(rollup, source, window)[d] <= source[d]
<1> USE RollupBounds
<1>1. ASSUME NEW d \in AllDays
      PROVE  LET v == IF d + window >= today /\ d <= today THEN source[d] ELSE rollup[d]
             IN /\ v \in 0 .. MaxDaySamples
                /\ (d + window >= today => rollup[d] <= source[d]) =>
                     /\ rollup[d] <= v
                     /\ d + window >= today => v <= source[d]
  <2>1. PICK n \in 0 .. MaxDaySamples : n = rollup[d]
    OBVIOUS
  <2>2. PICK m \in 0 .. MaxDaySamples : m = source[d]
    OBVIOUS
  <2>3. PICK now \in Nat : now = today
    OBVIOUS
  <2>4. d \in Nat
    OBVIOUS
  <2> QED
    BY <2>1, <2>2, <2>3, <2>4, SMT
<1> QED
  BY <1>1 DEF Refreshed

\* retentionPolicies: raw rows are kept for ever, or longer than the window.
LEMMA RawDaysAmount ==
    ASSUME configured \in MetricsDays
    PROVE  RawDays \in Nat /\ (RawDays = 0 \/ RawDays > HourlyWindow)
<1>1. PICK c \in Nat : c = configured
  BY RollupBounds
<1> QED
  BY <1>1, RollupBounds, SMT DEF RawDays

\* At first every day is empty.
LEMMA RollupsInitOK == RollupsInit => RollupsInv
<1> SUFFICES ASSUME RollupsInit PROVE RollupsInv
  OBVIOUS
<1>1. 0 \in AllDays /\ 0 \in 0 .. MaxDaySamples
  BY RollupBounds DEF AllDays
<1>2. RollupsTyped
  BY <1>1 DEF RollupsInit, RollupsTyped
<1>3. \A d \in AllDays : hourly[d] = 0 /\ raw[d] = 0 /\ daily[d] = 0
  BY DEF RollupsInit
<1> QED
  BY <1>2, <1>3 DEF RollupsInv, SourcesKept

\* A step that leaves the days of the windows where they are, and in order, day by day.
LEMMA RollupsKept == RollupsInv /\ [RollupsNext]_rollupVars => RollupsInv'
<1> SUFFICES ASSUME RollupsInv, [RollupsNext]_rollupVars PROVE RollupsInv'
  OBVIOUS
<1>0. RollupsTyped /\ SourcesKept
  BY DEF RollupsInv
<1>t. /\ today \in Nat /\ hourlyDays \in Nat
      /\ \A d \in AllDays : raw[d] \in Nat /\ hourly[d] \in Nat /\ daily[d] \in Nat /\ d \in Nat
  BY <1>0, RollupTypes
<1>b. RawDays \in Nat /\ (RawDays = 0 \/ RawDays > HourlyWindow)
  BY <1>0, RawDaysAmount DEF RollupsTyped
<1>1. CASE RecordSample
  <2>1. raw[today] + 1 \in 0 .. MaxDaySamples
    <3>1. PICK n \in Nat : n = raw[today]
      BY <1>0, <1>t DEF RollupsTyped
    <3> QED
      BY <1>1, <3>1, RollupBounds DEF RecordSample
  <2>2. RollupsTyped'
    BY <1>0, <1>1, <2>1 DEF RecordSample, RollupsTyped
  <2>3. ASSUME NEW d \in AllDays PROVE raw'[d] \in Nat /\ raw[d] <= raw'[d]
    <3>1. PICK n \in Nat : n = raw[d]
      BY <1>t
    <3>2. raw'[d] = n \/ raw'[d] = n + 1
      BY <1>0, <1>1, <3>1 DEF RecordSample, RollupsTyped
    <3> QED
      BY <3>1, <3>2
  <2>4. ASSUME NEW d \in AllDays, d + HourlyWindow >= today PROVE hourly[d] <= raw'[d]
    <3>1. hourly[d] <= raw[d]
      BY <1>0, <2>4 DEF SourcesKept
    <3>2. PICK a \in Nat, b \in Nat, c \in Nat : a = hourly[d] /\ b = raw[d] /\ c = raw'[d]
      BY <1>t, <2>3
    <3> QED
      BY <2>3, <3>1, <3>2
  <2>5. SourcesKept'
    BY <1>0, <1>1, <2>4 DEF RecordSample, SourcesKept
  <2> QED
    BY <2>2, <2>5 DEF RollupsInv
<1>2. CASE Tomorrow
  <2>1. PICK now \in Nat : now = today' /\ now = today + 1
    BY <1>t, <1>2 DEF Tomorrow
  <2>2. now \in AllDays
    BY <1>t, <1>2, <2>1, RollupBounds DEF Tomorrow, AllDays
  <2>3. RollupsTyped'
    BY <1>0, <1>2, <2>1, <2>2 DEF Tomorrow, RollupsTyped
  <2>4. ASSUME NEW d \in AllDays, NEW w \in Nat, d + w >= now PROVE d + w >= today
    BY <1>t, <2>1, <2>4
  <2>5. SourcesKept'
    BY <1>0, <1>2, <2>1, <2>4, RollupBounds DEF Tomorrow, SourcesKept
  <2> QED
    BY <2>3, <2>5 DEF RollupsInv
<1>3. CASE RefreshHourly
  <2>1. /\ hourly' \in [AllDays -> 0 .. MaxDaySamples]
        /\ \A d \in AllDays : /\ hourly[d] <= hourly'[d]
                              /\ d + HourlyWindow >= today => hourly'[d] <= raw[d]
    BY <1>0, <1>3, RefreshedValue, RollupBounds DEF RollupsTyped, SourcesKept, RefreshHourly
  <2>2. RollupsTyped'
    BY <1>0, <1>3, <2>1 DEF RefreshHourly, RollupsTyped
  <2>3. ASSUME NEW d \in AllDays, daily[d] <= hourly[d] PROVE daily[d] <= hourly'[d]
    <3>1. PICK a \in Nat, b \in Nat, c \in 0 .. MaxDaySamples : a = daily[d] /\ b = hourly[d] /\ c = hourly'[d]
      BY <1>t, <2>1
    <3> QED
      BY <2>1, <2>3, <3>1, RollupBounds
  <2>4. SourcesKept'
    BY <1>0, <1>3, <2>1, <2>3 DEF RefreshHourly, SourcesKept
  <2> QED
    BY <2>2, <2>4 DEF RollupsInv
<1>4. CASE RefreshDaily
  <2>1. /\ daily' \in [AllDays -> 0 .. MaxDaySamples]
        /\ \A d \in AllDays :
             (d + DailyWindow >= today => daily[d] <= hourly[d]) =>
               (d + DailyWindow >= today => daily'[d] <= hourly[d])
    BY <1>0, <1>4, RefreshedValue, RollupBounds DEF RefreshDaily, RollupsTyped
  <2>2. RollupsTyped'
    BY <1>0, <1>4, <2>1 DEF RefreshDaily, RollupsTyped
  <2>3. SourcesKept'
    BY <1>0, <1>4, <2>1 DEF RefreshDaily, SourcesKept
  <2> QED
    BY <2>2, <2>3 DEF RollupsInv
<1>5. CASE DropRaw
  <2>1. /\ raw' \in [AllDays -> 0 .. MaxDaySamples]
        /\ \A d \in AllDays : d + RawDays >= today \/ RawDays = 0 => raw'[d] = raw[d]
    BY <1>0, <1>5, <1>b, DroppedValue DEF DropRaw, RollupsTyped
  <2>2. ASSUME NEW d \in AllDays, d + HourlyWindow >= today PROVE raw'[d] = raw[d]
    <3>1. d + RawDays >= today \/ RawDays = 0
      BY <1>b, <1>t, <2>2, RollupBounds
    <3> QED
      BY <2>1, <3>1
  <2>3. RollupsTyped'
    BY <1>0, <1>5, <2>1 DEF DropRaw, RollupsTyped
  <2>4. SourcesKept'
    BY <1>0, <1>5, <2>2 DEF DropRaw, SourcesKept
  <2> QED
    BY <2>3, <2>4 DEF RollupsInv
<1>6. CASE DropHourly
  <2>1. /\ hourly' \in [AllDays -> 0 .. MaxDaySamples]
        /\ \A d \in AllDays : /\ hourly'[d] <= hourly[d]
                              /\ d + hourlyDays >= today \/ hourlyDays = 0 => hourly'[d] = hourly[d]
    BY <1>0, <1>6, <1>t, DroppedValue DEF DropHourly, RollupsTyped
  <2>2. ASSUME NEW d \in AllDays, hourlyDays = 0 \/ hourlyDays >= DailyWindow, d + DailyWindow >= today
        PROVE  hourly'[d] = hourly[d]
    <3>1. d + hourlyDays >= today \/ hourlyDays = 0
      BY <1>t, <2>2, RollupBounds
    <3> QED
      BY <2>1, <3>1
  <2>3. RollupsTyped'
    BY <1>0, <1>6, <2>1 DEF DropHourly, RollupsTyped
  <2>4. ASSUME NEW d \in AllDays, hourly[d] <= raw[d] PROVE hourly'[d] <= raw[d]
    <3>1. PICK a \in Nat, b \in Nat, c \in 0 .. MaxDaySamples : a = raw[d] /\ b = hourly[d] /\ c = hourly'[d]
      BY <1>t, <2>1
    <3> QED
      BY <2>1, <2>4, <3>1, RollupBounds
  <2>5. SourcesKept'
    BY <1>0, <1>6, <2>2, <2>4 DEF DropHourly, SourcesKept
  <2> QED
    BY <2>3, <2>5 DEF RollupsInv
<1>7. CASE UNCHANGED rollupVars
  BY <1>7 DEF RollupsInv, RollupsTyped, SourcesKept, rollupVars
<1> QED
  BY <1>1, <1>2, <1>3, <1>4, <1>5, <1>6, <1>7 DEF RollupsNext

HourlyKeptNow ==
    \A d \in AllDays : hourly'[d] < hourly[d] => hourlyDays > 0 /\ d + hourlyDays < today

DailyKeptNow ==
    hourlyDays = 0 \/ hourlyDays >= DailyWindow => \A d \in AllDays : daily'[d] >= daily[d]

\* No job takes samples from a rollup but the retention of that rollup.
LEMMA RollupStepKeeps == RollupsInv /\ [RollupsNext]_rollupVars => HourlyKeptNow /\ DailyKeptNow
<1> SUFFICES ASSUME RollupsInv, [RollupsNext]_rollupVars PROVE HourlyKeptNow /\ DailyKeptNow
  OBVIOUS
<1>0. RollupsTyped /\ SourcesKept
  BY DEF RollupsInv
<1>t. /\ today \in Nat /\ hourlyDays \in Nat
      /\ \A d \in AllDays : raw[d] \in Nat /\ hourly[d] \in Nat /\ daily[d] \in Nat /\ d \in Nat
  BY <1>0, RollupTypes
<1>1. ASSUME \A d \in AllDays : hourly'[d] = hourly[d] PROVE HourlyKeptNow
  BY <1>t, <1>1 DEF HourlyKeptNow
<1>2. ASSUME \A d \in AllDays : daily'[d] = daily[d] PROVE DailyKeptNow
  BY <1>t, <1>2 DEF DailyKeptNow
<1>3. CASE UNCHANGED <<hourly, daily>>
  BY <1>1, <1>2, <1>3
<1>4. CASE RefreshHourly
  <2>1. /\ hourly' \in [AllDays -> 0 .. MaxDaySamples]
        /\ \A d \in AllDays : hourly[d] <= hourly'[d]
    BY <1>0, <1>4, RefreshedValue, RollupBounds DEF RollupsTyped, SourcesKept, RefreshHourly
  <2>2. ASSUME NEW d \in AllDays PROVE ~ (hourly'[d] < hourly[d])
    <3>1. PICK b \in Nat, c \in 0 .. MaxDaySamples : b = hourly[d] /\ c = hourly'[d]
      BY <1>t, <2>1
    <3> QED
      BY <2>1, <3>1, RollupBounds
  <2>3. HourlyKeptNow
    BY <2>2 DEF HourlyKeptNow
  <2> QED
    BY <1>2, <1>4, <2>3 DEF RefreshHourly
<1>5. CASE RefreshDaily
  <2>1. /\ daily' \in [AllDays -> 0 .. MaxDaySamples]
        /\ hourlyDays = 0 \/ hourlyDays >= DailyWindow => \A d \in AllDays : daily[d] <= daily'[d]
    BY <1>0, <1>5, RefreshedValue, RollupBounds DEF RollupsTyped, SourcesKept, RefreshDaily
  <2>2. ASSUME NEW d \in AllDays, daily[d] <= daily'[d] PROVE daily'[d] >= daily[d]
    <3>1. PICK b \in Nat, c \in 0 .. MaxDaySamples : b = daily[d] /\ c = daily'[d]
      BY <1>t, <2>1
    <3> QED
      BY <2>2, <3>1, RollupBounds
  <2>3. DailyKeptNow
    BY <2>1, <2>2 DEF DailyKeptNow
  <2> QED
    BY <1>1, <1>5, <2>3 DEF RefreshDaily
<1>6. CASE DropHourly
  <2>1. \A d \in AllDays : d + hourlyDays >= today \/ hourlyDays = 0 => hourly'[d] = hourly[d]
    BY <1>0, <1>6, <1>t, DroppedValue DEF DropHourly, RollupsTyped
  <2>2. ASSUME NEW d \in AllDays, hourly'[d] < hourly[d] PROVE hourlyDays > 0 /\ d + hourlyDays < today
    <3>1. hourly'[d] # hourly[d]
      BY <1>t, <2>2
    <3>2. ~ (d + hourlyDays >= today) /\ hourlyDays # 0
      BY <2>1, <3>1
    <3> QED
      BY <1>t, <3>2
  <2>3. HourlyKeptNow
    BY <2>2 DEF HourlyKeptNow
  <2> QED
    BY <1>2, <1>6, <2>3 DEF DropHourly
<1> QED
  BY <1>3, <1>4, <1>5, <1>6 DEF RollupsNext, RecordSample, Tomorrow, DropRaw, rollupVars

\* main.go:410-412: for every retention that may be configured, an hourly rollup
\* loses samples only to its own retention, and a daily rollup loses none when
\* the hourly ones are kept for the window of its refresh.
THEOREM RollupsKeptAlways == RollupsSpec => []RollupsTypeOK /\ HourlyRollupsKept /\ DailyRollupsKept
<1>1. RollupsSpec => []RollupsInv
  BY RollupsInitOK, RollupsKept, PTL DEF RollupsSpec
<1>2. RollupsInv /\ [RollupsNext]_rollupVars => [HourlyKeptNow]_rollupVars /\ [DailyKeptNow]_rollupVars
  BY RollupStepKeeps
<1>3. RollupsSpec => [][HourlyKeptNow]_rollupVars /\ [][DailyKeptNow]_rollupVars
  BY <1>1, <1>2, PTL DEF RollupsSpec
<1>4. RollupsInv => RollupsTypeOK
  BY DEF RollupsInv, RollupsTyped, RollupsTypeOK
<1>5. RollupsSpec => []RollupsTypeOK
  BY <1>1, <1>4, PTL
<1> QED
  BY <1>3, <1>5 DEF HourlyRollupsKept, DailyRollupsKept, HourlyKeptNow, DailyKeptNow

-----------------------------------------------------------------------------
(* Retention: the sweep of the plain tables. *)

\* What was due when the turn of the table came is still there to be pruned, or is
\* pruned.
DueKept ==
    \A c \in sweep.due : \/ rowState[c] = "pruned"
                         \/ sweep.at > 0 /\ c \in Prunable(sweep.at, sweep.cutoff)

SweepInv == RetentionSweepTypeOK /\ DueKept /\ SweepClears

\* A set of natural numbers that is not empty has a least element.
LEMMA LeastOfNaturals ==
    ASSUME NEW S, S \subseteq Nat, S # {}
    PROVE  \E x \in S : \A y \in S : x <= y
<1>1. PICK x \in S : \A y \in S : ~ (<<y, x>> \in OpToRel(<, Nat))
  BY NatLessThanWellFounded, WFMin
<1>2. \A y \in S : ~ (y < x)
  BY <1>1 DEF OpToRel
<1>3. \A y \in S : x <= y
  BY <1>2
<1> QED
  BY <1>3

\* The rows are finitely many, without which the size of a batch says nothing.
LEMMA CellsFinite == IsFiniteSet(Cells)
<1>1. Len(Tables) \in Nat
  BY SweepAssumption
<1>2. IsFiniteSet(1 .. Len(Tables))
  BY <1>1, FS_Interval
<1> QED
  BY <1>2, SweepAssumption, FS_Product DEF Cells

\* The state of a sweep at its next table: its rows are due, and prunable now.
LEMMA FromNext ==
    ASSUME RetentionSweepTypeOK, NEW t \in Nat \ {0}
    PROVE  /\ From(t) \in [at : 0 .. Len(Tables), cutoff : 0 .. MaxSweepDay, due : SUBSET Cells]
           /\ From(t).due # {} => /\ From(t).at >= t
                                  /\ From(t).due = Prunable(From(t).at, From(t).cutoff)
<1> DEFINE kept == {u \in t .. Len(Tables) : KeepDays[Tables[u]] > 0}
           first == CHOOSE x \in kept : \A y \in kept : x <= y
           cut == IF sweepDay > KeepDays[Tables[first]] THEN sweepDay - KeepDays[Tables[first]] ELSE 0
<1>1. Len(Tables) \in Nat /\ sweepDay \in 0 .. MaxSweepDay /\ MaxSweepDay \in Nat
  BY SweepAssumption DEF RetentionSweepTypeOK
<1>2. CASE kept = {}
  BY <1>1, <1>2 DEF From, NoSweep
<1>3. CASE kept # {}
  <2>1. \E x \in kept : \A y \in kept : x <= y
    <3>1. kept \subseteq Nat /\ kept # {}
      BY <1>1, <1>3
    <3> HIDE DEF kept
    <3> QED
      BY <3>1, LeastOfNaturals
  <2>2. first \in 1 .. Len(Tables) /\ first >= t
    BY <1>1, <2>1
  <2>3. KeepDays[Tables[first]] \in Nat
    BY <2>2, SweepAssumption
  <2>4. cut \in 0 .. MaxSweepDay
    <3> DEFINE k == KeepDays[Tables[first]]
    <3> HIDE DEF first
    <3> QED
      BY <1>1, <2>3, SMT
  <2>5. From(t) = [at |-> first, cutoff |-> cut, due |-> Prunable(first, cut)]
    BY <1>3 DEF From
  <2>6. Prunable(first, cut) \subseteq Cells
    BY DEF Prunable
  <2> HIDE DEF first, cut
  <2>7. From(t).at = first /\ From(t).cutoff = cut /\ From(t).due = Prunable(first, cut)
    BY <2>5
  <2>8. first \in 0 .. Len(Tables)
    BY <1>1, <2>2
  <2>9. [at |-> first, cutoff |-> cut, due |-> Prunable(first, cut)]
          \in [at : 0 .. Len(Tables), cutoff : 0 .. MaxSweepDay, due : SUBSET Cells]
    BY <2>4, <2>6, <2>8
  <2> QED
    BY <2>2, <2>5, <2>7, <2>9
<1> QED
  BY <1>2, <1>3

\* At first no sweep is under way.
LEMMA SweepInitOK == RetentionSweepInit => SweepInv
<1> SUFFICES ASSUME RetentionSweepInit PROVE SweepInv
  OBVIOUS
<1>1. Len(Tables) \in Nat /\ MaxSweepDay \in Nat
  BY SweepAssumption
<1>2. 0 \in 0 .. Len(Tables) /\ 0 \in 0 .. MaxSweepDay
  BY <1>1
<1>3. RetentionSweepTypeOK
  BY <1>2 DEF RetentionSweepInit, RetentionSweepTypeOK, NoSweep
<1> QED
  BY <1>3 DEF RetentionSweepInit, SweepInv, DueKept, SweepClears, NoSweep

\* A sweep that goes on to its next table: what is due there is prunable, and stays
\* so when rows of the tables before it are pruned.
LEMMA NextTableDue ==
    ASSUME RetentionSweepTypeOK, NEW t \in Nat \ {0}, sweep' = From(t),
           \A c \in Cells : c[1] >= t => rowState'[c] = rowState[c] /\ rowBorn'[c] = rowBorn[c]
    PROVE  /\ sweep' \in [at : 0 .. Len(Tables), cutoff : 0 .. MaxSweepDay, due : SUBSET Cells]
           /\ DueKept'
<1>1. /\ From(t) \in [at : 0 .. Len(Tables), cutoff : 0 .. MaxSweepDay, due : SUBSET Cells]
      /\ From(t).due # {} => From(t).at >= t /\ From(t).due = Prunable(From(t).at, From(t).cutoff)
  BY FromNext
<1>2. ASSUME NEW c \in sweep'.due
      PROVE  sweep'.at > 0 /\ c \in Prunable(sweep.at, sweep.cutoff)'
  <2>1. sweep'.at >= t /\ c \in Prunable(sweep'.at, sweep'.cutoff)
    BY <1>1, <1>2
  <2>2. c \in Cells /\ c[1] = sweep'.at /\ rowState[c] = "closed" /\ rowBorn[c] < sweep'.cutoff
    BY <2>1 DEF Prunable
  <2>3. sweep'.at \in Nat
    BY <1>1, SweepAssumption
  <2>4. rowState'[c] = "closed" /\ rowBorn'[c] < sweep'.cutoff
    BY <2>1, <2>2
  <2> QED
    BY <2>1, <2>2, <2>3, <2>4 DEF Prunable
<1> QED
  BY <1>1, <1>2 DEF DueKept

\* Rows come and close beside a sweep, and its steps keep the invariant.
LEMMA SweepKept == SweepInv /\ [RetentionSweepNext]_sweepVars => SweepInv'
<1> SUFFICES ASSUME SweepInv, [RetentionSweepNext]_sweepVars PROVE SweepInv'
  OBVIOUS
<1>0. RetentionSweepTypeOK /\ DueKept /\ SweepClears
  BY DEF SweepInv
<1>t. Len(Tables) \in Nat /\ MaxSweepDay \in Nat /\ PruneBatch \in Nat
  BY SweepAssumption
\* A row that is added or closed was not due, for what is due is closed.
<1>1. ASSUME NEW c \in Cells, AddRow(c) \/ CloseRow(c) PROVE SweepInv'
  <2>1. rowState[c] # "pruned" /\ rowState[c] # "closed"
    BY <1>1 DEF AddRow, CloseRow
  <2>2. /\ UNCHANGED <<sweep, leftOver, broken, sweepDay>>
        /\ \A d \in Cells \ {c} : rowState'[d] = rowState[d] /\ rowBorn'[d] = rowBorn[d]
    BY <1>0, <1>1 DEF AddRow, CloseRow, RetentionSweepTypeOK
  <2>3. RetentionSweepTypeOK'
    BY <1>0, <1>1 DEF AddRow, CloseRow, RetentionSweepTypeOK
  <2>4. ASSUME NEW d \in sweep.due
        PROVE  rowState'[d] = "pruned" \/ (sweep.at > 0 /\ d \in Prunable(sweep.at, sweep.cutoff)')
    <3>1. d \in Cells \ {c}
      BY <1>0, <2>1 DEF DueKept, Prunable, RetentionSweepTypeOK
    <3> QED
      BY <1>0, <2>2, <3>1 DEF DueKept, Prunable
  <2> QED
    BY <1>0, <2>2, <2>3, <2>4 DEF SweepInv, DueKept, SweepClears
<1>2. CASE NextDay
  <2>1. RetentionSweepTypeOK'
    <3>1. sweepDay' \in 0 .. MaxSweepDay
      BY <1>0, <1>2, <1>t DEF NextDay, RetentionSweepTypeOK
    <3> QED
      BY <1>0, <1>2, <3>1 DEF NextDay, RetentionSweepTypeOK
  <2> QED
    BY <1>0, <1>2, <2>1 DEF NextDay, SweepInv, DueKept, Prunable, SweepClears
<1>3. CASE StartSweep
  <2>1. 1 \in Nat \ {0}
    OBVIOUS
  <2>2. /\ sweep' \in [at : 0 .. Len(Tables), cutoff : 0 .. MaxSweepDay, due : SUBSET Cells]
        /\ DueKept'
    BY <1>0, <1>3, <2>1, NextTableDue DEF StartSweep
  <2> QED
    BY <1>0, <1>3, <2>2 DEF StartSweep, SweepInv, RetentionSweepTypeOK, SweepClears
<1>4. CASE PruneBatchOf
  <2> DEFINE old == Prunable(sweep.at, sweep.cutoff)
  <2>1. PICK batch \in SUBSET old :
          /\ Cardinality(batch) = (IF Cardinality(old) < PruneBatch THEN Cardinality(old) ELSE PruneBatch)
          /\ rowState' = [c \in Cells |-> IF c \in batch THEN "pruned" ELSE rowState[c]]
          /\ IF LastBatch(Cardinality(batch))
               THEN /\ sweep' = From(sweep.at + 1)
                    /\ leftOver' = leftOver \cup (sweep.due \ {c \in Cells : rowState'[c] = "pruned"})
               ELSE UNCHANGED <<sweep, leftOver>>
          /\ rowBorn' = [c \in Cells |-> IF c \in batch THEN 0 ELSE rowBorn[c]]
    BY <1>4 DEF PruneBatchOf
  <2>2. old \subseteq Cells /\ \A c \in old : c[1] = sweep.at
    BY DEF Prunable
  <2>3. sweep.at \in Nat /\ sweep.at > 0 /\ sweep.due \subseteq Cells
    BY <1>0, <1>4, <1>t DEF PruneBatchOf, RetentionSweepTypeOK
  <2>4. rowState' \in [Cells -> {"none", "open", "closed", "pruned"}] /\ rowBorn' \in [Cells -> 0 .. MaxSweepDay]
    <3>1. 0 \in 0 .. MaxSweepDay
      BY <1>t
    <3> QED
      BY <1>0, <2>1, <3>1 DEF RetentionSweepTypeOK
  <2>5. UNCHANGED <<sweepDay, broken, sweepStopped>>
    BY <1>4 DEF PruneBatchOf
  <2>6. CASE LastBatch(Cardinality(batch))
    <3>1. batch = old
      <4>1. IsFiniteSet(old)
        BY <2>2, CellsFinite, FS_Subset
      <4>2. Cardinality(old) \in Nat
        BY <4>1, FS_CardinalityType
      <4>3. Cardinality(batch) = Cardinality(old)
        BY <1>t, <2>1, <2>6, <4>2 DEF LastBatch
      <4> QED
        BY <4>1, <4>3, FS_Subset
    <3>2. sweep.due \subseteq {c \in Cells : rowState'[c] = "pruned"}
      BY <1>0, <2>1, <2>3, <3>1 DEF DueKept
    <3>3. leftOver' = {}
      BY <1>0, <2>1, <2>6, <3>2 DEF SweepClears
    <3>4. \A c \in Cells : c[1] >= sweep.at + 1 => rowState'[c] = rowState[c] /\ rowBorn'[c] = rowBorn[c]
      <4> TAKE c \in Cells
      <4>1. ASSUME c[1] >= sweep.at + 1 PROVE c \notin batch
        BY <2>2, <2>3, <3>1, <4>1
      <4> QED
        BY <2>1, <4>1
    <3>5. sweep' = From(sweep.at + 1) /\ sweep.at + 1 \in Nat \ {0}
      BY <2>1, <2>3, <2>6
    <3>6. /\ sweep' \in [at : 0 .. Len(Tables), cutoff : 0 .. MaxSweepDay, due : SUBSET Cells]
          /\ DueKept'
      BY <1>0, <3>4, <3>5, NextTableDue
    <3>7. RetentionSweepTypeOK'
      BY <1>0, <2>4, <2>5, <3>3, <3>6 DEF RetentionSweepTypeOK
    <3> QED
      BY <3>3, <3>6, <3>7 DEF SweepInv, SweepClears
  <2>7. CASE ~ LastBatch(Cardinality(batch))
    <3>1. UNCHANGED <<sweep, leftOver>>
      BY <2>1, <2>7
    <3>2. RetentionSweepTypeOK'
      BY <1>0, <2>4, <2>5, <3>1 DEF RetentionSweepTypeOK
    <3>3. ASSUME NEW c \in sweep.due
          PROVE  rowState'[c] = "pruned" \/ c \in Prunable(sweep.at, sweep.cutoff)'
      <4>1. CASE c \in batch
        BY <2>1, <2>3, <4>1
      <4>2. CASE c \notin batch
        <5>1. rowState'[c] = rowState[c] /\ rowBorn'[c] = rowBorn[c]
          BY <2>1, <2>3, <4>2
        <5> QED
          BY <1>0, <3>1, <5>1 DEF DueKept, Prunable
      <4> QED
        BY <4>1, <4>2
    <3> QED
      BY <1>0, <2>3, <3>1, <3>2, <3>3 DEF SweepInv, DueKept, SweepClears
  <2> QED
    BY <2>6, <2>7
<1>5. CASE PruneFails
  <2>1. sweep.at + 1 \in Nat \ {0}
    BY <1>0, <1>t DEF RetentionSweepTypeOK
  <2>2. /\ sweep' \in [at : 0 .. Len(Tables), cutoff : 0 .. MaxSweepDay, due : SUBSET Cells]
        /\ DueKept'
    BY <1>0, <1>5, <2>1, NextTableDue DEF PruneFails, AfterError
  <2> QED
    BY <1>0, <1>5, <2>2 DEF PruneFails, SweepInv, RetentionSweepTypeOK, SweepClears
<1>6. CASE StopSweeps
  <2>1. NoSweep \in [at : 0 .. Len(Tables), cutoff : 0 .. MaxSweepDay, due : SUBSET Cells]
    BY <1>t DEF NoSweep
  <2>2. NoSweep.due = {}
    BY DEF NoSweep
  <2> QED
    BY <1>0, <1>6, <2>1, <2>2 DEF StopSweeps, SweepInv, RetentionSweepTypeOK, DueKept, SweepClears
<1>7. CASE UNCHANGED sweepVars
  BY <1>0, <1>7 DEF SweepInv, RetentionSweepTypeOK, DueKept, Prunable, SweepClears, sweepVars
<1> QED
  BY <1>1, <1>2, <1>3, <1>4, <1>5, <1>6, <1>7 DEF RetentionSweepNext

\* postgres.go pruneBatched, retention.go: a table whose prune ended without an
\* error has lost every row that was due when its turn came, for any tables, rows,
\* days and batch size, while rows are added and closed.
THEOREM SweepClearsAlways == RetentionSweepSpec => [](RetentionSweepTypeOK /\ SweepClears)
<1>1. SweepInv => RetentionSweepTypeOK /\ SweepClears
  BY DEF SweepInv
<1> QED
  BY <1>1, SweepInitOK, SweepKept, PTL DEF RetentionSweepSpec
=============================================================================
