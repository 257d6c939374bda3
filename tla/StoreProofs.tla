---------------------------- MODULE StoreProofs ----------------------------
(***************************************************************************)
(* Theorems about Store, for any number of processes, collections, files   *)
(* and bodies.                                                             *)
(***************************************************************************)
EXTENDS Store, TLAPS

-----------------------------------------------------------------------------
(* Type correctness.                                                       *)

LEMMA InitType == Init => TypeOK
  BY StoreAssumption DEF Init, TypeOK, Location, Command

\* The files a reindex has still to read, and the one it is writing, are files
\* of its own collection, and it has read the latter.
ScanInv ==
  \A p \in Proc :
    /\ pc[p] \in {"scan", "body", "write"} => todo[p] \subseteq FilesOf(coll[p])
    /\ pc[p] \in {"body", "write"} =>
         file[p] \in FilesOf(coll[p]) /\ seen[p][file[p]] # None

LEMMA FileType ==
  ASSUME TypeOK, ScanInv, NEW p \in Proc, pc[p] \in {"body", "write"}
  PROVE  file[p] \in File /\ seen[p][file[p]] \in Hash
  BY DEF TypeOK, ScanInv, FilesOf

LEMMA ViewType ==
  ASSUME TypeOK, NEW p \in Proc, NEW f \in File
  PROVE  View(p, f) \in Row \cup {None}
  BY DEF TypeOK, View

LEMMA ReleaseType ==
  ASSUME TypeOK, NEW p \in Proc, Release(p)
  PROVE  /\ lock' \in [File -> Proc \cup {None}]
         /\ ins' \in [Proc -> SUBSET Hash] /\ del' \in [Proc -> SUBSET Hash]
         /\ share' \in [Proc -> SUBSET Hash]
         /\ cshare' \in SUBSET Proc /\ cdel' \in SUBSET Proc
         /\ todo' \in [Proc -> SUBSET File]
         /\ file' \in [Proc -> File \cup {None}]
         /\ found' \in [Proc -> Row \cup {None}]
         /\ seen' \in [Proc -> [File -> Hash \cup {None}]]
  BY DEF TypeOK, Release

LEMMA ForgetType ==
  ASSUME TypeOK, NEW p \in Proc, Forget(p)
  PROVE  /\ lock' \in [File -> Proc \cup {None}]
         /\ ins' \in [Proc -> SUBSET Hash] /\ del' \in [Proc -> SUBSET Hash]
         /\ share' \in [Proc -> SUBSET Hash]
         /\ cshare' \in SUBSET Proc /\ cdel' \in SUBSET Proc
         /\ todo' \in [Proc -> SUBSET File]
         /\ file' \in [Proc -> File \cup {None}]
         /\ found' \in [Proc -> Row \cup {None}]
         /\ seen' \in [Proc -> [File -> Hash \cup {None}]]
         /\ cur' \in [File -> Row \cup {None}]
         /\ stale' \in SUBSET Proc
         /\ rows' \in [Proc -> SUBSET File]
         /\ victims' \in [Proc -> SUBSET Hash]
         /\ disk' \in [File -> Hash \cup {None}]
         /\ held' \in [File -> SUBSET (Hash \cup {None})]
         /\ cstate' \in [Coll -> {"unused", "live", "removed"}]
         /\ doc' \in [File -> Row \cup {None}]
         /\ content' \in SUBSET Hash
  <1>1. Release(p)
    BY DEF Forget
  <1>2. UNCHANGED <<committed, disks>>
    BY DEF Forget
  <1> QED
    BY <1>1, <1>2, ReleaseType DEF TypeOK, Forget, committed, disks

LEMMA RollbackType ==
  ASSUME TypeOK, NEW p \in Proc, Rollback(p)
  PROVE  TypeOK'
  <1>1. Forget(p)
    BY DEF Rollback
  <1>2. pc' \in [Proc -> Location]
    BY DEF Rollback, TypeOK, Location
  <1>3. outcome' \in [Proc -> {"none", "running", "ok", "failed", "crashed"}]
    BY DEF Rollback, TypeOK
  <1> QED
    BY <1>1, <1>2, <1>3, ForgetType DEF Rollback, TypeOK, job

LEMMA IndexedRowType ==
  ASSUME NEW row \in Row \cup {None}, NEW newest \in Row \cup {None}, NEW h \in Hash,
         row # None => newest # None
  PROVE  IndexedRow(row, newest, h) \in Row
  BY StoreAssumption DEF IndexedRow, Row

LEMMA ChangedRowType ==
  ASSUME NEW o, NEW row \in Row
  PROVE  /\ ChangedRow(o, row) \in Row \cup {None}
         /\ ChangedRow(o, row) # None => ChangedRow(o, row).hash = row.hash
  BY StoreAssumption DEF ChangedRow, Row

\* The statements of a transaction, one at a time.
LEMMA StatementType ==
  ASSUME TypeOK, ScanInv, NEW p \in Proc, Statement(p)
  PROVE  TypeOK'
  <1> USE StoreAssumption
  <1>1. CASE Resolve(p)
    <2>1. CASE cstate[coll[p]] = "live"
      <3> PICK S \in SUBSET FilesOf(coll[p]) : todo' = [todo EXCEPT ![p] = S]
        BY <1>1, <2>1 DEF Resolve
      <3>1. todo' \in [Proc -> SUBSET File]
        BY DEF TypeOK, FilesOf
      <3>2. /\ pc' = [pc EXCEPT ![p] = "scan"]
            /\ seen' = [seen EXCEPT ![p] = [f \in File |-> None]]
            /\ UNCHANGED outcome
        BY <1>1, <2>1 DEF Resolve
      <3>3. pc' \in [Proc -> Location] /\ seen' \in [Proc -> [File -> Hash \cup {None}]]
        BY <3>2 DEF TypeOK, Location
      <3> QED
        BY <1>1, <3>1, <3>2, <3>3 DEF Resolve, TypeOK, disks, committed, locks, job
    <2>2. CASE cstate[coll[p]] # "live"
      <3>1. /\ pc' = [pc EXCEPT ![p] = "idle"]
            /\ outcome' = [outcome EXCEPT ![p] = "failed"]
            /\ UNCHANGED <<seen, todo>>
        BY <1>1, <2>2 DEF Resolve
      <3>2. /\ pc' \in [Proc -> Location]
            /\ outcome' \in [Proc -> {"none", "running", "ok", "failed", "crashed"}]
        BY <3>1 DEF TypeOK, Location
      <3> QED
        BY <1>1, <3>1, <3>2 DEF Resolve, TypeOK, disks, committed, locks, job
    <2> QED
      BY <2>1, <2>2
  <1>2. CASE \E f \in File : LookAt(p, f)
    <2> PICK f \in File : LookAt(p, f)
      BY <1>2
    <2>1. View(p, f) \in Row \cup {None}
      BY ViewType
    <2>2. todo' \in [Proc -> SUBSET File]
      BY DEF LookAt, TypeOK
    <2>3. CASE disk[f] = None
      BY <2>2, <2>3 DEF LookAt, Indexable, TypeOK, disks, committed, locks, job
    <2>4. CASE disk[f] # None
      <3>1. AfterLook(View(p, f), disk[f]) \in {"scan", "write", "body"}
        BY DEF AfterLook
      <3>2. /\ seen' = [seen EXCEPT ![p] = [@ EXCEPT ![f] = disk[f]]]
            /\ file' = [file EXCEPT ![p] = f]
            /\ found' = [found EXCEPT ![p] = View(p, f)]
            /\ stale' = stale \ {p}
            /\ pc' = [pc EXCEPT ![p] = AfterLook(View(p, f), disk[f])]
        BY <2>4 DEF LookAt, Indexable
      <3>3. pc' \in [Proc -> Location]
        BY <3>1, <3>2 DEF TypeOK, Location
      <3>4. seen' \in [Proc -> [File -> Hash \cup {None}]]
        BY <3>2 DEF TypeOK
      <3>5. /\ file' \in [Proc -> File \cup {None}]
            /\ found' \in [Proc -> Row \cup {None}]
            /\ stale' \in SUBSET Proc
        BY <2>1, <3>2 DEF TypeOK
      <3>6. UNCHANGED <<disks, committed, locks, job, rows, victims, outcome, mishaps>>
        BY DEF LookAt
      <3> QED
        BY <2>2, <3>3, <3>4, <3>5, <3>6 DEF TypeOK, disks, committed, locks, job
    <2> QED
      BY <2>3, <2>4
  <1>3. CASE InsertContent(p)
    <2>1. seen[p][file[p]] \in Hash
      BY <1>3, FileType DEF InsertContent
    <2> QED
      BY <1>3, <2>1 DEF InsertContent, TypeOK, Location, disks, committed, job, scanning
  <1>4. CASE WriteDocument(p)
    <2>1. CASE WriteRaises(p)
      BY <1>4, <2>1, RollbackType DEF WriteDocument
    <2>2. CASE ~WriteRaises(p)
      <3>1. file[p] \in File /\ seen[p][file[p]] \in Hash
        BY <1>4, FileType DEF WriteDocument
      <3>2. found[p] # None => doc[file[p]] # None
        BY <2>2 DEF WriteRaises
      <3>3. IndexedRow(found[p], doc[file[p]], seen[p][file[p]]) \in Row
        BY <3>1, <3>2, IndexedRowType DEF TypeOK
      <3>4. StoreRow(p)
        BY <1>4, <2>2 DEF WriteDocument
      <3>5. cur' \in [File -> Row \cup {None}] /\ lock' \in [File -> Proc \cup {None}]
        BY <3>1, <3>3, <3>4 DEF StoreRow, TypeOK
      <3>6. share' \in [Proc -> SUBSET Hash] /\ cshare' \in SUBSET Proc
        BY <3>1, <3>4 DEF StoreRow, TypeOK
      <3>7. pc' \in [Proc -> Location]
        BY <3>4 DEF StoreRow, TypeOK, Location
      <3> QED
        BY <3>4, <3>5, <3>6, <3>7
        DEF StoreRow, TypeOK, disks, committed, job, scanning
    <2> QED
      BY <2>1, <2>2
  <1>5. CASE ListActive(p)
    BY <1>5 DEF ListActive, NotRead, FilesOf, TypeOK, Location, disks, committed,
       locks, job, scanning
  <1>6. CASE \E f \in File : ChangeRow(p, f)
    <2> PICK f \in File : ChangeRow(p, f)
      BY <1>6
    <2>1. View(p, f) # None => ChangedRow(op[p], View(p, f)) \in Row \cup {None}
      BY ViewType, ChangedRowType
    <2>2. CASE ~Changes(p, f)
      BY <2>2 DEF ChangeRow, TypeOK, disks, committed, job, scanning
    <2>3. CASE Changes(p, f)
      <3>1. /\ cur' = [cur EXCEPT ![f] = ChangedRow(op[p], View(p, f))]
            /\ lock' = [lock EXCEPT ![f] = p]
        BY <2>3 DEF ChangeRow
      <3>2. cur' \in [File -> Row \cup {None}] /\ lock' \in [File -> Proc \cup {None}]
        BY <2>1, <2>3, <3>1 DEF Changes, TypeOK
      <3> QED
        BY <3>2 DEF ChangeRow, TypeOK, disks, committed, job, scanning
    <2> QED
      BY <2>2, <2>3
  <1>7. CASE RowsChanged(p)
    BY <1>7 DEF RowsChanged, TypeOK, Location, disks, committed, locks, job, scanning
  <1>8. CASE DropCollection(p)
    <2>1. CASE CollectionInUse(p)
      BY <1>8, <2>1, RollbackType DEF DropCollection
    <2>2. CASE ~CollectionInUse(p)
      <3>1. /\ cdel' \in {cdel, cdel \cup {p}}
            /\ pc' = [pc EXCEPT ![p] = "sweep"]
            /\ UNCHANGED <<disks, committed, cur, lock, ins, del, share, cshare,
                           job, scanning, rows, victims, outcome, mishaps>>
        BY <1>8, <2>2 DEF DropCollection
      <3>2. cdel' \in SUBSET Proc /\ pc' \in [Proc -> Location]
        BY <3>1 DEF TypeOK, Location
      <3> QED
        BY <3>1, <3>2 DEF TypeOK, disks, committed, job, scanning
    <2> QED
      BY <2>1, <2>2
  <1>9. CASE BeginSweep(p)
    BY <1>9 DEF BeginSweep, Orphans, TypeOK, Location, disks, committed,
       locks, job, scanning
  <1>10. CASE \E h \in Hash : SweepOne(p, h)
    BY <1>10 DEF SweepOne, TypeOK, disks, committed, job, scanning
  <1>11. CASE EndSweep(p)
    <2>1. CASE ContentInUse(p)
      BY <1>11, <2>1, RollbackType DEF EndSweep
    <2>2. CASE ~ContentInUse(p)
      <3>1. /\ pc' = [pc EXCEPT ![p] = "commit"]
            /\ UNCHANGED <<disks, committed, locks, job, scanning, rows, victims,
                           outcome, mishaps>>
        BY <1>11, <2>2 DEF EndSweep
      <3>2. pc' \in [Proc -> Location]
        BY <3>1 DEF TypeOK, Location
      <3> QED
        BY <3>1, <3>2 DEF TypeOK, disks, committed, locks, job, scanning
    <2> QED
      BY <2>1, <2>2
  <1>12. CASE Undo(p)
    <2>1. op' \in [Proc -> Command \cup {None}]
      BY <1>12 DEF Undo, TypeOK, Command
    <2>2. \/ /\ pc' = [pc EXCEPT ![p] = "rows"]
             /\ rows' = [rows EXCEPT ![p] = {f \in FilesOf(coll[p]) : doc[f] # None}]
             /\ UNCHANGED outcome
          \/ /\ pc' = [pc EXCEPT ![p] = "idle"]
             /\ outcome' = [outcome EXCEPT ![p] = "failed"]
             /\ UNCHANGED rows
      BY <1>12 DEF Undo
    <2>3. pc' \in [Proc -> Location]
      BY <2>2 DEF TypeOK, Location
    <2>4. rows' \in [Proc -> SUBSET File]
      <3>1. {f \in FilesOf(coll[p]) : doc[f] # None} \in SUBSET File
        BY DEF FilesOf
      <3>2. CASE UNCHANGED rows
        BY <3>2 DEF TypeOK
      <3>3. CASE rows' = [rows EXCEPT ![p] = {f \in FilesOf(coll[p]) : doc[f] # None}]
        BY <3>1, <3>3 DEF TypeOK
      <3> QED
        BY <2>2, <3>2, <3>3
    <2>5. outcome' \in [Proc -> {"none", "running", "ok", "failed", "crashed"}]
      BY <2>2 DEF TypeOK
    <2>6. UNCHANGED <<disks, committed, locks, coll, rivals, started, scanning,
                      victims, mishaps>>
      BY <1>12 DEF Undo
    <2> QED
      BY <2>1, <2>3, <2>4, <2>5, <2>6 DEF TypeOK, disks, committed, locks, scanning
  <1>13. CASE Commit(p)
    <2>1. doc' \in [File -> Row \cup {None}]
      BY <1>13, ViewType DEF Commit
    <2>2. content' \in SUBSET Hash
      BY <1>13 DEF Commit, TypeOK
    <2>3. cstate' \in [Coll -> {"unused", "live", "removed"}]
      BY <1>13 DEF Commit, TypeOK
    <2>4. stale' \in SUBSET Proc
      BY <1>13 DEF Commit, TypeOK
    <2>5. /\ pc' \in [Proc -> Location]
          /\ outcome' \in [Proc -> {"none", "running", "ok", "failed", "crashed"}]
      BY <1>13 DEF Commit, TypeOK, Location
    <2> QED
      BY <1>13, <2>1, <2>2, <2>3, <2>4, <2>5, ReleaseType DEF Commit, TypeOK, disks, job
  <1> QED
    BY <1>1, <1>2, <1>3, <1>4, <1>5, <1>6, <1>7, <1>8, <1>9, <1>10, <1>11, <1>12, <1>13
    DEF Statement

LEMMA StartType ==
  ASSUME TypeOK, NEW p \in Proc, NEW o \in Command, NEW c \in Coll \cup {None},
         Start(p, o, c)
  PROVE  /\ started' \in [Proc -> Nat]
         /\ op' \in [Proc -> Command \cup {None}]
         /\ coll' \in [Proc -> Coll \cup {None}]
         /\ outcome' \in [Proc -> {"none", "running", "ok", "failed", "crashed"}]
         /\ rivals' \in [Proc -> SUBSET (Coll \cup {None})]
         /\ UNCHANGED <<disks, locks, scanning, doc, content, victims, mishaps>>
  <1>1. /\ started' = [started EXCEPT ![p] = IF p \in Cron THEN @ ELSE @ + 1]
        /\ op' = [op EXCEPT ![p] = o]
        /\ coll' = [coll EXCEPT ![p] = c]
        /\ outcome' = [outcome EXCEPT ![p] = "running"]
        /\ rivals' = [q \in Proc |->
             IF q = p THEN {coll[r] : r \in {s \in Proc : Running(s)}}
             ELSE IF Running(q) THEN rivals[q] \cup {c} ELSE rivals[q]]
        /\ UNCHANGED <<disks, locks, scanning, doc, content, victims, mishaps>>
    BY DEF Start
  <1>2. started' \in [Proc -> Nat]
    BY <1>1 DEF TypeOK
  <1>3. rivals' \in [Proc -> SUBSET (Coll \cup {None})]
    BY <1>1 DEF TypeOK
  <1> QED
    BY <1>1, <1>2, <1>3 DEF TypeOK

LEMMA NextType ==
  ASSUME TypeOK, ScanInv, [Next]_vars
  PROVE  TypeOK'
  <1> USE StoreAssumption
  <1>1. ASSUME NEW p \in Proc, DeadlockAbort(p)
        PROVE  TypeOK'
    BY <1>1, RollbackType DEF DeadlockAbort
  <1>2. ASSUME NEW p \in Proc, Crash(p)
        PROVE  TypeOK'
    <2>1. /\ Forget(p)
          /\ mishaps' = mishaps + 1
          /\ pc' = [pc EXCEPT ![p] = "idle"]
          /\ outcome' = [outcome EXCEPT ![p] = "crashed"]
          /\ UNCHANGED job
      BY <1>2 DEF Crash
    <2>2. pc' \in [Proc -> Location] /\ mishaps' \in Nat
      BY <2>1 DEF TypeOK, Location
    <2>3. outcome' \in [Proc -> {"none", "running", "ok", "failed", "crashed"}]
      BY <2>1 DEF TypeOK
    <2> QED
      BY <2>1, <2>2, <2>3, ForgetType DEF TypeOK, job
  <1>3. ASSUME NEW p \in Proc, NEW c \in Coll, StartReindex(p, c)
        PROVE  TypeOK'
    <2>1. Start(p, "reindex", c) /\ "reindex" \in Command
      BY <1>3 DEF StartReindex, Command
    <2>2. pc' = [pc EXCEPT ![p] = "resolve"] /\ UNCHANGED <<cstate, rows>>
      BY <1>3 DEF StartReindex
    <2>3. pc' \in [Proc -> Location]
      BY <2>2 DEF TypeOK, Location
    <2> QED
      BY <2>1, <2>2, <2>3, StartType DEF TypeOK, disks, locks, scanning
  <1>4. ASSUME NEW p \in Proc, NEW c \in Coll, StartAdd(p, c)
        PROVE  TypeOK'
    <2>1. Start(p, "add", c) /\ "add" \in Command
      BY <1>4 DEF StartAdd, Command
    <2>2. /\ pc' = [pc EXCEPT ![p] = "resolve"] /\ UNCHANGED rows
          /\ cstate' = [cstate EXCEPT ![c] = "live"]
      BY <1>4 DEF StartAdd
    <2>3. pc' \in [Proc -> Location]
      BY <2>2 DEF TypeOK, Location
    <2>4. cstate' \in [Coll -> {"unused", "live", "removed"}]
      BY <2>2 DEF TypeOK
    <2> QED
      BY <2>1, <2>2, <2>3, <2>4, StartType DEF TypeOK, disks, locks, scanning
  <1>5. ASSUME NEW p \in Proc, NEW c \in Coll, StartRemove(p, c)
        PROVE  TypeOK'
    <2>1. Start(p, "remove", c) /\ "remove" \in Command
      BY <1>5 DEF StartRemove, Command
    <2>2. /\ pc' = [pc EXCEPT ![p] = "rows"] /\ UNCHANGED cstate
          /\ rows' = [rows EXCEPT ![p] = {f \in FilesOf(c) : doc[f] # None}]
      BY <1>5 DEF StartRemove
    <2>3. pc' \in [Proc -> Location]
      BY <2>2 DEF TypeOK, Location
    <2>4. rows' \in [Proc -> SUBSET File]
      BY <2>2 DEF TypeOK, FilesOf
    <2> QED
      BY <2>1, <2>2, <2>3, <2>4, StartType DEF TypeOK, disks, locks, scanning
  <1>6. ASSUME NEW p \in Proc, StartCleanup(p)
        PROVE  TypeOK'
    <2>1. Start(p, "cleanup", None) /\ "cleanup" \in Command
      BY <1>6 DEF StartCleanup, Command
    <2>2. /\ pc' = [pc EXCEPT ![p] = "rows"] /\ UNCHANGED cstate
          /\ rows' = [rows EXCEPT ![p] = {f \in File : doc[f] # None /\ ~doc[f].active}]
      BY <1>6 DEF StartCleanup
    <2>3. pc' \in [Proc -> Location]
      BY <2>2 DEF TypeOK, Location
    <2>4. rows' \in [Proc -> SUBSET File]
      BY <2>2 DEF TypeOK
    <2> QED
      BY <2>1, <2>2, <2>3, <2>4, StartType DEF TypeOK, disks, locks, scanning
  <1>7. ASSUME NEW f \in File, NEW v \in Hash \cup {None}, Edit(f, v)
        PROVE  TypeOK'
    <2>1. /\ mishaps' = mishaps + 1
          /\ disk' = [disk EXCEPT ![f] = v]
          /\ held' = [held EXCEPT ![f] = @ \cup {v}]
          /\ UNCHANGED <<committed, locks, job, scanning, pc, rows, victims, outcome>>
      BY <1>7 DEF Edit
    <2>2. mishaps' \in Nat
      BY <2>1 DEF TypeOK
    <2>3. disk' \in [File -> Hash \cup {None}]
      BY <2>1 DEF TypeOK
    <2>4. held' \in [File -> SUBSET (Hash \cup {None})]
      BY <2>1 DEF TypeOK
    <2> QED
      BY <2>1, <2>2, <2>3, <2>4 DEF TypeOK, committed, locks, job, scanning
  <1>8. CASE UNCHANGED vars
    BY <1>8 DEF vars, disks, committed, locks, job, scanning, TypeOK
  <1>9. CASE Next
    BY <1>1, <1>2, <1>3, <1>4, <1>5, <1>6, <1>7, <1>8, <1>9, StatementType DEF Next, Rest
  <1> QED
    BY <1>8, <1>9

\* What a step of p leaves alone of another process.
Others(p) ==
  \A q \in Proc \ {p} :
    /\ pc'[q] = pc[q] /\ coll'[q] = coll[q] /\ todo'[q] = todo[q]
    /\ file'[q] = file[q] /\ seen'[q] = seen[q]

LEMMA ReleaseOthers ==
  ASSUME TypeOK, NEW p \in Proc, Release(p)
  PROVE  \A q \in Proc \ {p} :
           todo'[q] = todo[q] /\ file'[q] = file[q] /\ seen'[q] = seen[q]
  BY DEF TypeOK, Release

LEMMA RollbackOthers ==
  ASSUME TypeOK, NEW p \in Proc, Rollback(p)
  PROVE  /\ Others(p)
         /\ pc'[p] \in {"idle", "undo"}
  <1>1. Release(p) /\ UNCHANGED job
    BY DEF Rollback, Forget
  <1>2. pc' \in {[pc EXCEPT ![p] = "undo"], [pc EXCEPT ![p] = "idle"]}
    BY DEF Rollback
  <1>3. pc'[p] \in {"idle", "undo"} /\ \A q \in Proc \ {p} : pc'[q] = pc[q]
    BY <1>2 DEF TypeOK
  <1> QED
    BY <1>1, <1>3, ReleaseOthers DEF Others, job

LEMMA StatementScan ==
  ASSUME TypeOK, ScanInv, NEW p \in Proc, Statement(p)
  PROVE  ScanInv'
  <1> USE StoreAssumption
  <1>1. CASE Resolve(p)
    <2>1. CASE pc' = [pc EXCEPT ![p] = "idle"] /\ UNCHANGED <<seen, todo>>
      BY <1>1, <2>1 DEF Resolve, TypeOK, ScanInv, FilesOf, job
    <2>2. CASE /\ pc' = [pc EXCEPT ![p] = "scan"]
               /\ seen' = [seen EXCEPT ![p] = [f \in File |-> None]]
               /\ \E S \in SUBSET FilesOf(coll[p]) : todo' = [todo EXCEPT ![p] = S]
      <3> PICK S \in SUBSET FilesOf(coll[p]) : todo' = [todo EXCEPT ![p] = S]
        BY <2>2
      <3>1. UNCHANGED <<coll, file>>
        BY <1>1 DEF Resolve, job
      <3>2. pc'[p] = "scan" /\ todo'[p] = S
        BY <2>2 DEF TypeOK
      <3>3. Others(p)
        BY <2>2, <3>1 DEF Others, TypeOK
      <3> QED
        BY <3>1, <3>2, <3>3 DEF ScanInv, Others, FilesOf
    <2> QED
      BY <1>1, <2>1, <2>2 DEF Resolve
  <1>2. CASE \E f \in File : LookAt(p, f)
    <2> PICK f \in File : LookAt(p, f)
      BY <1>2
    <2>1. UNCHANGED coll /\ todo' = [todo EXCEPT ![p] = @ \ {f}] /\ f \in todo[p]
          /\ pc[p] = "scan"
      BY DEF LookAt, job
    <2>2. f \in FilesOf(coll[p]) /\ todo'[p] \subseteq FilesOf(coll[p])
      BY <2>1 DEF ScanInv, TypeOK
    <2>3. CASE UNCHANGED <<pc, seen, file>>
      BY <2>1, <2>2, <2>3 DEF ScanInv, TypeOK, FilesOf
    <2>4. CASE /\ Indexable(f)
               /\ seen' = [seen EXCEPT ![p] = [@ EXCEPT ![f] = disk[f]]]
               /\ file' = [file EXCEPT ![p] = f]
               /\ pc' = [pc EXCEPT ![p] = AfterLook(View(p, f), disk[f])]
      <3>1. file'[p] = f /\ seen'[p][f] # None
        BY <2>4 DEF TypeOK, Indexable
      <3>2. Others(p)
        BY <2>1, <2>4 DEF Others, TypeOK
      <3> QED
        BY <2>1, <2>2, <3>1, <3>2 DEF ScanInv, Others, FilesOf
    <2> QED
      BY <2>3, <2>4 DEF LookAt
  <1>3. CASE InsertContent(p)
    BY <1>3 DEF InsertContent, TypeOK, ScanInv, FilesOf, job, scanning
  <1>4. CASE WriteDocument(p)
    <2>1. CASE Rollback(p)
      BY <2>1, RollbackOthers DEF ScanInv, Others, FilesOf
    <2>2. CASE StoreRow(p)
      BY <1>4, <2>2 DEF WriteDocument, StoreRow, TypeOK, ScanInv, FilesOf, job, scanning
    <2> QED
      BY <1>4, <2>1, <2>2 DEF WriteDocument
  <1>5. CASE ListActive(p)
    BY <1>5 DEF ListActive, TypeOK, ScanInv, FilesOf, job, scanning
  <1>6. CASE \E f \in File : ChangeRow(p, f)
    BY <1>6 DEF ChangeRow, ScanInv, FilesOf, job, scanning
  <1>7. CASE RowsChanged(p)
    BY <1>7 DEF RowsChanged, TypeOK, ScanInv, FilesOf, job, scanning
  <1>8. CASE DropCollection(p)
    <2>1. CASE Rollback(p)
      BY <2>1, RollbackOthers DEF ScanInv, Others, FilesOf
    <2>2. CASE pc' = [pc EXCEPT ![p] = "sweep"] /\ UNCHANGED <<job, scanning>>
      BY <2>2 DEF TypeOK, ScanInv, FilesOf, job, scanning
    <2> QED
      BY <1>8, <2>1, <2>2 DEF DropCollection
  <1>9. CASE BeginSweep(p)
    BY <1>9 DEF BeginSweep, TypeOK, ScanInv, FilesOf, job, scanning
  <1>10. CASE \E h \in Hash : SweepOne(p, h)
    BY <1>10 DEF SweepOne, ScanInv, FilesOf, job, scanning
  <1>11. CASE EndSweep(p)
    <2>1. CASE Rollback(p)
      BY <2>1, RollbackOthers DEF ScanInv, Others, FilesOf
    <2>2. CASE pc' = [pc EXCEPT ![p] = "commit"] /\ UNCHANGED <<job, scanning>>
      BY <2>2 DEF TypeOK, ScanInv, FilesOf, job, scanning
    <2> QED
      BY <1>11, <2>1, <2>2 DEF EndSweep
  <1>12. CASE Undo(p)
    <2>1. UNCHANGED <<coll, scanning>>
      BY <1>12 DEF Undo
    <2>2. pc' \in {[pc EXCEPT ![p] = "rows"], [pc EXCEPT ![p] = "idle"]}
      BY <1>12 DEF Undo
    <2>3. pc'[p] \in {"rows", "idle"} /\ \A q \in Proc \ {p} : pc'[q] = pc[q]
      BY <2>2 DEF TypeOK
    <2> QED
      BY <2>1, <2>3 DEF ScanInv, FilesOf, scanning
  <1>13. CASE Commit(p)
    <2>1. Release(p) /\ UNCHANGED coll /\ pc' = [pc EXCEPT ![p] = "idle"]
      BY <1>13 DEF Commit, job
    <2>2. Others(p) /\ pc'[p] = "idle"
      BY <2>1, ReleaseOthers DEF Others, TypeOK
    <2> QED
      BY <2>2 DEF ScanInv, Others, FilesOf
  <1> QED
    BY <1>1, <1>2, <1>3, <1>4, <1>5, <1>6, <1>7, <1>8, <1>9, <1>10, <1>11, <1>12, <1>13
    DEF Statement

LEMMA NextScan ==
  ASSUME TypeOK, ScanInv, [Next]_vars
  PROVE  ScanInv'
  <1> USE StoreAssumption
  <1>1. ASSUME NEW p \in Proc, DeadlockAbort(p)
        PROVE  ScanInv'
    BY <1>1, RollbackOthers DEF DeadlockAbort, ScanInv, Others, FilesOf
  <1>2. ASSUME NEW p \in Proc, Crash(p)
        PROVE  ScanInv'
    <2>1. Release(p) /\ UNCHANGED coll /\ pc' = [pc EXCEPT ![p] = "idle"]
      BY <1>2 DEF Crash, Forget, job
    <2>2. Others(p) /\ pc'[p] = "idle"
      BY <2>1, ReleaseOthers DEF Others, TypeOK
    <2> QED
      BY <2>2 DEF ScanInv, Others, FilesOf
  <1>3. ASSUME NEW p \in Proc, NEW o, NEW c, Start(p, o, c),
               pc' \in {[pc EXCEPT ![p] = "resolve"], [pc EXCEPT ![p] = "rows"]}
        PROVE  ScanInv'
    <2>1. UNCHANGED scanning /\ coll' = [coll EXCEPT ![p] = c]
      BY <1>3 DEF Start
    <2>2. pc'[p] \in {"resolve", "rows"} /\ \A q \in Proc \ {p} : pc'[q] = pc[q]
      BY <1>3 DEF TypeOK
    <2>3. \A q \in Proc \ {p} : coll'[q] = coll[q]
      BY <2>1 DEF TypeOK
    <2> QED
      BY <2>1, <2>2, <2>3 DEF ScanInv, FilesOf, scanning
  <1>4. ASSUME NEW f \in File, NEW v \in Hash \cup {None}, Edit(f, v)
        PROVE  ScanInv'
    BY <1>4 DEF Edit, job, scanning, ScanInv, FilesOf
  <1>5. CASE UNCHANGED vars
    BY <1>5 DEF vars, job, scanning, ScanInv, FilesOf
  <1>6. CASE Next
    BY <1>1, <1>2, <1>3, <1>4, <1>5, <1>6, StatementScan
    DEF Next, Rest, StartReindex, StartAdd, StartRemove, StartCleanup
  <1> QED
    BY <1>5, <1>6

\* Every state reached has its variables in the sets the code gives them: no
\* statement writes a row without a hash or leaves a process nowhere.
THEOREM TypeCorrect == Spec => []TypeOK
  <1>1. Init => TypeOK /\ ScanInv
    BY InitType DEF Init, ScanInv
  <1>2. TypeOK /\ ScanInv /\ [Next]_vars => TypeOK' /\ ScanInv'
    BY NextType, NextScan
  <1> QED
    BY <1>1, <1>2, PTL DEF Spec

-----------------------------------------------------------------------------
(* No document loses its body.                                             *)

\* A row a transaction has written but not committed refers to content the
\* transaction has locked, or to what the committed row refers to already.
RefInv ==
  \A f \in File : lock[f] # None /\ cur[f] # None =>
    \/ cur[f].hash \in share[lock[f]]
    \/ doc[f] # None /\ cur[f].hash = doc[f].hash

\* Locked content exists, and no other transaction has deleted it.
ShareInv ==
  \A p \in Proc :
    /\ share[p] \subseteq content \cup ins[p]
    /\ \A q \in Proc \ {p} : share[p] \cap del[q] = {}

\* What the foreign key check at the end of the sweep found still holds when
\* the transaction commits: nobody refers to what it has deleted.
CheckedInv ==
  \A p \in Proc : pc[p] = "commit" =>
    \A f \in File : View(p, f) # None => View(p, f).hash \notin del[p]

BodyInv == RefInv /\ ShareInv /\ CheckedInv /\ BodyPresent

\* What the invariant is about, less the control.
rowsAndBodies == <<doc, content, cur, lock, ins, del, share>>

LEMMA QuietBodies ==
  ASSUME BodyInv, UNCHANGED rowsAndBodies,
         \A p \in Proc : pc'[p] = "commit" => pc[p] = "commit"
  PROVE  BodyInv'
  BY DEF BodyInv, RefInv, ShareInv, CheckedInv, BodyPresent, View, rowsAndBodies

LEMMA ForgetBodies ==
  ASSUME TypeOK, BodyInv, NEW p \in Proc, Forget(p), pc'[p] # "commit",
         \A q \in Proc \ {p} : pc'[q] = pc[q]
  PROVE  BodyInv'
  <1> USE StoreAssumption
  <1>1. /\ \A f \in File : lock'[f] = IF lock[f] = p THEN None ELSE lock[f]
        /\ ins' = [ins EXCEPT ![p] = {}] /\ del' = [del EXCEPT ![p] = {}]
        /\ share' = [share EXCEPT ![p] = {}]
        /\ \A f \in File : cur'[f] = IF lock[f] = p THEN doc[f] ELSE cur[f]
        /\ doc' = doc /\ content' = content
    BY DEF Forget, Release, committed
  <1>2. /\ ins'[p] = {} /\ del'[p] = {} /\ share'[p] = {}
        /\ \A q \in Proc \ {p} :
             ins'[q] = ins[q] /\ del'[q] = del[q] /\ share'[q] = share[q]
    BY <1>1 DEF TypeOK
  <1>3. RefInv'
    <2> SUFFICES ASSUME NEW f \in File, lock'[f] # None, cur'[f] # None
                 PROVE  \/ cur'[f].hash \in share'[lock'[f]]
                        \/ doc'[f] # None /\ cur'[f].hash = doc'[f].hash
      BY DEF RefInv
    <2>1. lock'[f] = lock[f] /\ lock[f] # p /\ cur'[f] = cur[f] /\ doc'[f] = doc[f]
      BY <1>1
    <2>2. lock[f] \in Proc /\ share'[lock[f]] = share[lock[f]]
      BY <1>2, <2>1 DEF TypeOK
    <2> QED
      BY <2>1, <2>2 DEF BodyInv, RefInv
  <1>4. ShareInv'
    BY <1>1, <1>2 DEF BodyInv, ShareInv
  <1>5. CheckedInv'
    BY <1>1, <1>2 DEF BodyInv, CheckedInv, View
  <1> QED
    BY <1>1, <1>3, <1>4, <1>5 DEF BodyInv, BodyPresent

LEMMA RollbackBodies ==
  ASSUME TypeOK, BodyInv, NEW p \in Proc, Rollback(p)
  PROVE  BodyInv'
  BY RollbackOthers, ForgetBodies DEF Rollback, Others

LEMMA StoreRowBodies ==
  ASSUME TypeOK, ScanInv, BodyInv, NEW p \in Proc,
         pc[p] = "write", WaitsFor(p) = {}, ~WriteRaises(p), StoreRow(p)
  PROVE  BodyInv'
  <1> DEFINE f == file[p]
             h == seen[p][f]
  <1> USE StoreAssumption
  <1>1. f \in File /\ h \in Hash
    BY FileType
  <1>2. /\ cur' = [cur EXCEPT ![f] = IndexedRow(found[p], doc[f], h)]
        /\ lock' = [lock EXCEPT ![f] = p]
        /\ share' = IF NewReference(p) THEN [share EXCEPT ![p] = @ \cup {h}] ELSE share
        /\ pc' = [pc EXCEPT ![p] = "scan"]
        /\ UNCHANGED <<doc, content, ins, del>>
    BY DEF StoreRow, committed
  <1>3. /\ lock[f] \in {None, p}
        /\ NewReference(p) => \A q \in Proc \ {p} : h \notin del[q]
    BY <1>1 DEF WaitsFor, TypeOK
  <1>4. /\ found[p] = None => doc[f] = None
        /\ found[p] # None => doc[f] # None
        /\ NewReference(p) => h \in content \cup ins[p]
    BY DEF WriteRaises
  <1>5. /\ cur'[f] = IndexedRow(found[p], doc[f], h) /\ lock'[f] = p
        /\ \A g \in File \ {f} : cur'[g] = cur[g] /\ lock'[g] = lock[g]
    BY <1>1, <1>2 DEF TypeOK
  <1>6. /\ share'[p] = IF NewReference(p) THEN share[p] \cup {h} ELSE share[p]
        /\ \A q \in Proc \ {p} : share'[q] = share[q]
    BY <1>2 DEF TypeOK
  <1>7. \/ NewReference(p) /\ cur'[f].hash = h
        \/ doc[f] # None /\ cur'[f].hash = doc[f].hash
    <2>1. CASE found[p] = None
      <3>1. NewReference(p)
        BY <1>4, <2>1 DEF NewReference
      <3>2. cur'[f].hash = h
        BY <1>5, <2>1 DEF IndexedRow
      <3> QED
        BY <3>1, <3>2
    <2>2. CASE found[p] # None /\ found[p].hash = h
      BY <1>4, <1>5, <2>2 DEF IndexedRow
    <2>3. CASE found[p] # None /\ found[p].hash # h
      <3>1. cur'[f].hash = h
        BY <1>5, <2>3 DEF IndexedRow
      <3>2. CASE doc[f].hash = h
        BY <1>4, <2>3, <3>1, <3>2
      <3>3. CASE doc[f].hash # h
        BY <2>3, <3>1, <3>3 DEF NewReference
      <3> QED
        BY <3>2, <3>3
    <2> QED
      BY <2>1, <2>2, <2>3
  <1>8. RefInv'
    <2> SUFFICES ASSUME NEW g \in File, lock'[g] # None, cur'[g] # None
                 PROVE  \/ cur'[g].hash \in share'[lock'[g]]
                        \/ doc'[g] # None /\ cur'[g].hash = doc'[g].hash
      BY DEF RefInv
    <2>1. CASE g = f
      BY <1>2, <1>5, <1>6, <1>7, <2>1
    <2>2. CASE g # f
      <3>1. cur'[g] = cur[g] /\ lock'[g] = lock[g] /\ lock[g] \in Proc /\ doc' = doc
        BY <1>2, <1>5, <2>2 DEF TypeOK
      <3>2. share[lock[g]] \subseteq share'[lock[g]]
        BY <1>6, <3>1
      <3> QED
        BY <3>1, <3>2 DEF BodyInv, RefInv
    <2> QED
      BY <2>1, <2>2
  <1>9. ShareInv'
    BY <1>2, <1>3, <1>4, <1>6 DEF BodyInv, ShareInv
  <1>10. CheckedInv'
    <2>1. /\ pc'[p] # "commit"
          /\ \A q \in Proc \ {p} : pc'[q] = pc[q]
      BY <1>2 DEF TypeOK
    <2>2. \A q \in Proc \ {p}, g \in File : View(q, g)' = View(q, g)
      BY <1>2, <1>3, <1>5 DEF View
    <2> QED
      BY <1>2, <2>1, <2>2 DEF BodyInv, CheckedInv
  <1> QED
    BY <1>2, <1>8, <1>9, <1>10 DEF BodyInv, BodyPresent

LEMMA ChangeRowBodies ==
  ASSUME TypeOK, BodyInv, NEW p \in Proc, NEW f \in File, ChangeRow(p, f)
  PROVE  BodyInv'
  <1> USE StoreAssumption
  <1>1. UNCHANGED <<pc, doc, content, ins, del, share>> /\ lock[f] \in {None, p}
    BY DEF ChangeRow, committed
  <1>2. CASE ~Changes(p, f)
    BY <1>1, <1>2, QuietBodies DEF ChangeRow, rowsAndBodies
  <1>3. CASE Changes(p, f)
    <2>1. /\ cur' = [cur EXCEPT ![f] = ChangedRow(op[p], View(p, f))]
          /\ lock' = [lock EXCEPT ![f] = p] /\ View(p, f) # None
          /\ pc[p] = "rows"
      BY <1>3 DEF ChangeRow, Changes
    <2>2. /\ cur'[f] = ChangedRow(op[p], View(p, f)) /\ lock'[f] = p
          /\ \A g \in File \ {f} : cur'[g] = cur[g] /\ lock'[g] = lock[g]
      BY <2>1 DEF TypeOK
    <2>3. cur'[f] # None => cur'[f].hash = View(p, f).hash
      BY <2>1, <2>2, ViewType, ChangedRowType
    <2>4. RefInv'
      BY <1>1, <2>1, <2>2, <2>3 DEF BodyInv, RefInv, View
    <2>5. \A q \in Proc \ {p}, g \in File : View(q, g)' = View(q, g)
      BY <1>1, <2>2 DEF View
    <2>6. CheckedInv'
      BY <1>1, <2>1, <2>5 DEF BodyInv, CheckedInv
    <2> QED
      BY <1>1, <2>4, <2>6 DEF BodyInv, ShareInv, BodyPresent
  <1> QED
    BY <1>2, <1>3

LEMMA SweepOneBodies ==
  ASSUME TypeOK, BodyInv, NEW p \in Proc, NEW h \in Hash, SweepOne(p, h)
  PROVE  BodyInv'
  <1>1. /\ UNCHANGED <<pc, doc, content, cur, lock, ins, share>>
        /\ pc[p] = "sweeping"
        /\ \A q \in Proc \ {p} : h \notin share[q]
        /\ del' = [del EXCEPT ![p] = @ \cup ({h} \cap (content \cup ins[p]))]
    BY DEF SweepOne, committed
  <1>2. /\ del'[p] \subseteq del[p] \cup {h}
        /\ \A q \in Proc \ {p} : del'[q] = del[q]
    BY <1>1 DEF TypeOK
  <1>3. ShareInv'
    BY <1>1, <1>2 DEF BodyInv, ShareInv
  <1>4. CheckedInv'
    BY <1>1, <1>2 DEF BodyInv, CheckedInv, View
  <1> QED
    BY <1>1, <1>3, <1>4 DEF BodyInv, RefInv, BodyPresent

LEMMA EndSweepBodies ==
  ASSUME TypeOK, BodyInv, NEW p \in Proc, EndSweep(p)
  PROVE  BodyInv'
  <1>1. CASE ContentInUse(p)
    BY <1>1, RollbackBodies DEF EndSweep
  <1>2. CASE ~ContentInUse(p)
    <2>1. /\ pc' = [pc EXCEPT ![p] = "commit"]
          /\ UNCHANGED <<doc, content, cur, lock, ins, del, share>>
      BY <1>2 DEF EndSweep, committed, locks
    <2>2. \A f \in File : View(p, f) # None => View(p, f).hash \notin del[p]
      BY <1>2 DEF ContentInUse, Referenced
    <2>3. \A q \in Proc \ {p} : pc'[q] = pc[q]
      BY <2>1 DEF TypeOK
    <2>4. CheckedInv'
      BY <2>1, <2>2, <2>3 DEF BodyInv, CheckedInv, View
    <2> QED
      BY <2>1, <2>4 DEF BodyInv, RefInv, ShareInv, BodyPresent
  <1> QED
    BY <1>1, <1>2

LEMMA CommitBodies ==
  ASSUME TypeOK, BodyInv, NEW p \in Proc, Commit(p)
  PROVE  BodyInv'
  <1> USE StoreAssumption
  <1>1. /\ pc[p] = "commit" /\ pc' = [pc EXCEPT ![p] = "idle"]
        /\ \A f \in File : doc'[f] = View(p, f)
        /\ content' = (content \cup ins[p]) \ del[p]
        /\ \A f \in File : lock'[f] = IF lock[f] = p THEN None ELSE lock[f]
        /\ ins' = [ins EXCEPT ![p] = {}] /\ del' = [del EXCEPT ![p] = {}]
        /\ share' = [share EXCEPT ![p] = {}]
        /\ cur' = cur
    BY DEF Commit, Release
  <1>2. /\ ins'[p] = {} /\ del'[p] = {} /\ share'[p] = {} /\ pc'[p] = "idle"
        /\ \A q \in Proc \ {p} :
             /\ ins'[q] = ins[q] /\ del'[q] = del[q] /\ share'[q] = share[q]
             /\ pc'[q] = pc[q]
    BY <1>1 DEF TypeOK
  <1>3. \A f \in File : lock[f] # p => doc'[f] = doc[f]
    BY <1>1 DEF View
  <1>4. RefInv'
    <2> SUFFICES ASSUME NEW f \in File, lock'[f] # None, cur'[f] # None
                 PROVE  \/ cur'[f].hash \in share'[lock'[f]]
                        \/ doc'[f] # None /\ cur'[f].hash = doc'[f].hash
      BY DEF RefInv
    <2>1. lock'[f] = lock[f] /\ lock[f] # p /\ cur'[f] = cur[f] /\ doc'[f] = doc[f]
      BY <1>1, <1>3
    <2>2. lock[f] \in Proc /\ share'[lock[f]] = share[lock[f]]
      BY <1>2, <2>1 DEF TypeOK
    <2> QED
      BY <2>1, <2>2 DEF BodyInv, RefInv
  <1>5. ShareInv'
    BY <1>1, <1>2 DEF BodyInv, ShareInv
  <1>6. CheckedInv'
    <2> SUFFICES ASSUME NEW q \in Proc, pc'[q] = "commit", NEW f \in File,
                        View(q, f)' # None
                 PROVE  View(q, f)'.hash \notin del'[q]
      BY DEF CheckedInv
    <2>1. q # p /\ pc[q] = "commit" /\ del'[q] = del[q]
      BY <1>2
    <2>2. CASE lock[f] # p
      BY <1>1, <1>3, <2>1, <2>2 DEF BodyInv, CheckedInv, View
    <2>3. CASE lock[f] = p
      <3>1. View(q, f)' = cur[f]
        BY <1>1, <2>3 DEF View
      <3>2. View(q, f) = doc[f]
        BY <2>1, <2>3 DEF View
      <3>3. CASE cur[f].hash \in share[p]
        BY <2>1, <3>1, <3>3 DEF BodyInv, ShareInv
      <3>4. CASE doc[f] # None /\ cur[f].hash = doc[f].hash
        BY <2>1, <3>1, <3>2, <3>4 DEF BodyInv, CheckedInv
      <3> QED
        BY <2>3, <3>1, <3>3, <3>4 DEF BodyInv, RefInv
    <2> QED
      BY <2>2, <2>3
  <1>7. BodyPresent'
    <2> SUFFICES ASSUME NEW f \in File, View(p, f) # None
                 PROVE  View(p, f).hash \in (content \cup ins[p]) \ del[p]
      BY <1>1 DEF BodyPresent
    <2>1. View(p, f).hash \notin del[p]
      BY <1>1 DEF BodyInv, CheckedInv
    <2>2. View(p, f).hash \in content \cup ins[p]
      BY DEF BodyInv, BodyPresent, RefInv, ShareInv, View
    <2> QED
      BY <2>1, <2>2
  <1> QED
    BY <1>4, <1>5, <1>6, <1>7 DEF BodyInv

\* A step that leaves the rows and bodies alone and takes no process to COMMIT.
LEMMA ElsewhereBodies ==
  ASSUME TypeOK, BodyInv, UNCHANGED rowsAndBodies, NEW p \in Proc, NEW l \in Location,
         pc' = [pc EXCEPT ![p] = l], l # "commit"
  PROVE  BodyInv'
  <1>1. \A q \in Proc : pc'[q] = "commit" => pc[q] = "commit"
    BY DEF TypeOK
  <1> QED
    BY <1>1, QuietBodies

LEMMA StatementBodies ==
  ASSUME TypeOK, ScanInv, BodyInv, NEW p \in Proc, Statement(p)
  PROVE  BodyInv'
  <1> USE StoreAssumption
  <1>1. CASE Resolve(p)
    <2>1. UNCHANGED rowsAndBodies
      BY <1>1 DEF Resolve, committed, locks, rowsAndBodies
    <2>2. PICK l \in {"scan", "idle"} : pc' = [pc EXCEPT ![p] = l]
      BY <1>1 DEF Resolve
    <2> QED
      BY <2>1, <2>2, ElsewhereBodies DEF Location
  <1>2. CASE \E f \in File : LookAt(p, f)
    <2> PICK f \in File : LookAt(p, f)
      BY <1>2
    <2>1. UNCHANGED rowsAndBodies
      BY DEF LookAt, committed, locks, rowsAndBodies
    <2>2. CASE UNCHANGED pc
      BY <2>1, <2>2, QuietBodies
    <2>3. CASE pc' = [pc EXCEPT ![p] = AfterLook(View(p, f), disk[f])]
      <3>1. AfterLook(View(p, f), disk[f]) \in {"scan", "write", "body"}
        BY DEF AfterLook
      <3> QED
        BY <2>1, <2>3, <3>1, ElsewhereBodies DEF Location
    <2> QED
      BY <2>2, <2>3 DEF LookAt
  <1>3. CASE InsertContent(p)
    <2>1. /\ UNCHANGED <<doc, content, cur, lock, del, share>>
          /\ ins' = [ins EXCEPT ![p] = @ \cup ({seen[p][file[p]]} \ content)]
          /\ pc' = [pc EXCEPT ![p] = "write"]
      BY <1>3 DEF InsertContent, committed
    <2>2. \A q \in Proc : ins[q] \subseteq ins'[q] /\ (pc'[q] = "commit" => pc[q] = "commit")
      BY <2>1 DEF TypeOK
    <2> QED
      BY <2>1, <2>2 DEF BodyInv, RefInv, ShareInv, CheckedInv, BodyPresent, View
  <1>4. CASE WriteDocument(p)
    BY <1>4, RollbackBodies, StoreRowBodies DEF WriteDocument
  <1>5. CASE ListActive(p)
    BY <1>5, ElsewhereBodies DEF ListActive, committed, locks, rowsAndBodies, Location
  <1>6. CASE \E f \in File : ChangeRow(p, f)
    BY <1>6, ChangeRowBodies
  <1>7. CASE RowsChanged(p)
    <2>1. UNCHANGED rowsAndBodies
      BY <1>7 DEF RowsChanged, committed, locks, rowsAndBodies
    <2>2. PICK l \in {"drop", "sweep"} : pc' = [pc EXCEPT ![p] = l]
      BY <1>7 DEF RowsChanged
    <2> QED
      BY <2>1, <2>2, ElsewhereBodies DEF Location
  <1>8. CASE DropCollection(p)
    <2>1. CASE Rollback(p)
      BY <2>1, RollbackBodies
    <2>2. CASE /\ pc' = [pc EXCEPT ![p] = "sweep"]
               /\ UNCHANGED <<committed, cur, lock, ins, del, share>>
      BY <2>2, ElsewhereBodies DEF committed, rowsAndBodies, Location
    <2> QED
      BY <1>8, <2>1, <2>2 DEF DropCollection
  <1>9. CASE BeginSweep(p)
    BY <1>9, ElsewhereBodies DEF BeginSweep, committed, locks, rowsAndBodies, Location
  <1>10. CASE \E h \in Hash : SweepOne(p, h)
    BY <1>10, SweepOneBodies
  <1>11. CASE EndSweep(p)
    BY <1>11, EndSweepBodies
  <1>12. CASE Undo(p)
    <2>1. UNCHANGED rowsAndBodies
      BY <1>12 DEF Undo, committed, locks, rowsAndBodies
    <2>2. PICK l \in {"rows", "idle"} : pc' = [pc EXCEPT ![p] = l]
      BY <1>12 DEF Undo
    <2> QED
      BY <2>1, <2>2, ElsewhereBodies DEF Location
  <1>13. CASE Commit(p)
    BY <1>13, CommitBodies
  <1> QED
    BY <1>1, <1>2, <1>3, <1>4, <1>5, <1>6, <1>7, <1>8, <1>9, <1>10, <1>11, <1>12, <1>13
    DEF Statement

LEMMA NextBodies ==
  ASSUME TypeOK, ScanInv, BodyInv, [Next]_vars
  PROVE  BodyInv'
  <1> USE StoreAssumption
  <1>1. ASSUME NEW p \in Proc, DeadlockAbort(p)
        PROVE  BodyInv'
    BY <1>1, RollbackBodies DEF DeadlockAbort
  <1>2. ASSUME NEW p \in Proc, Crash(p)
        PROVE  BodyInv'
    <2>1. Forget(p) /\ pc' = [pc EXCEPT ![p] = "idle"]
      BY <1>2 DEF Crash
    <2>2. pc'[p] = "idle" /\ \A q \in Proc \ {p} : pc'[q] = pc[q]
      BY <2>1 DEF TypeOK
    <2> QED
      BY <2>1, <2>2, ForgetBodies
  <1>3. ASSUME NEW p \in Proc, NEW o, NEW c, Start(p, o, c),
               NEW l \in {"resolve", "rows"}, pc' = [pc EXCEPT ![p] = l]
        PROVE  BodyInv'
    <2>1. UNCHANGED rowsAndBodies
      BY <1>3 DEF Start, locks, rowsAndBodies
    <2> QED
      BY <1>3, <2>1, ElsewhereBodies DEF Location
  <1>4. ASSUME NEW f \in File, NEW v \in Hash \cup {None}, Edit(f, v)
        PROVE  BodyInv'
    BY <1>4, QuietBodies DEF Edit, committed, locks, rowsAndBodies
  <1>5. CASE UNCHANGED vars
    BY <1>5, QuietBodies DEF vars, committed, locks, rowsAndBodies
  <1>6. CASE Next
    BY <1>1, <1>2, <1>3, <1>4, <1>5, <1>6, StatementBodies
    DEF Next, Rest, StartReindex, StartAdd, StartRemove, StartCleanup
  <1> QED
    BY <1>5, <1>6

\* However many commands share the store, and wherever they crash, deadlock or
\* roll back, a document in it has its body: cleanup_orphaned_content never
\* deletes content that a reindex under way turns out to need.
THEOREM BodiesPresent == Spec => []BodyPresent
  <1>1. Init => TypeOK /\ ScanInv /\ BodyInv
    <2> SUFFICES ASSUME Init
                 PROVE  TypeOK /\ ScanInv /\ BodyInv
      OBVIOUS
    <2>1. TypeOK /\ ScanInv
      BY InitType DEF Init, ScanInv
    <2>2. RefInv /\ ShareInv /\ CheckedInv /\ BodyPresent
      BY DEF Init, RefInv, ShareInv, CheckedInv, BodyPresent
    <2> QED
      BY <2>1, <2>2 DEF BodyInv
  <1>2. TypeOK /\ ScanInv /\ BodyInv /\ [Next]_vars => (TypeOK /\ ScanInv /\ BodyInv)'
    BY NextType, NextScan, NextBodies
  <1>3. BodyInv => BodyPresent
    BY DEF BodyInv
  <1> QED
    BY <1>1, <1>2, <1>3, PTL DEF Spec

-----------------------------------------------------------------------------
(* No document is left without its collection.                             *)

\* A transaction that adds a document to a collection holds its row.
AddInv ==
  \A f \in File : lock[f] # None /\ cur[f] # None /\ doc[f] = None =>
    lock[f] \in cshare /\ coll[lock[f]] = CollOf(f)

\* A collection row that is held exists, and nobody else has deleted it.
HeldInv ==
  \A p \in cshare :
    /\ coll[p] \in Coll /\ cstate[coll[p]] = "live"
    /\ \A q \in cdel \ {p} : coll[q] # coll[p]

\* A transaction that has deleted a collection sees no document in it, has only
\* its sweep left, and is alone in deleting it.
DropInv ==
  \A p \in cdel :
    /\ pc[p] \in {"sweep", "sweeping", "commit"}
    /\ \A f \in FilesOf(coll[p]) : View(p, f) = None
    /\ \A q \in cdel \ {p} : coll[q] # coll[p]

\* Between transactions a process holds nothing.
AtRest == {"idle", "resolve", "undo"}
RestInv ==
  \A p \in Proc : pc[p] \in AtRest =>
    p \notin cshare /\ p \notin cdel /\ \A f \in File : lock[f] # p

LinkInv == AddInv /\ HeldInv /\ DropInv /\ RestInv /\ NoOrphanDocument

rowsAndKeys == <<cstate, doc, cur, lock, cshare, cdel, coll>>

LEMMA QuietLinks ==
  ASSUME TypeOK, LinkInv, UNCHANGED rowsAndKeys, NEW p \in Proc, NEW l \in Location,
         pc' = [pc EXCEPT ![p] = l],
         l \in AtRest => pc[p] \in AtRest,
         pc[p] \in {"sweep", "sweeping", "commit"} => l \in {"sweep", "sweeping", "commit"}
  PROVE  LinkInv'
  <1>1. pc'[p] = l /\ \A q \in Proc \ {p} : pc'[q] = pc[q]
    BY DEF TypeOK
  <1>2. UNCHANGED <<cstate, doc, cur, lock, cshare, cdel, coll>>
    BY DEF rowsAndKeys
  <1>3. DropInv'
    BY <1>1, <1>2 DEF TypeOK, LinkInv, DropInv, FilesOf, View
  <1>4. RestInv'
    BY <1>1, <1>2 DEF LinkInv, RestInv
  <1> QED
    BY <1>2, <1>3, <1>4 DEF LinkInv, AddInv, HeldInv, NoOrphanDocument

LEMMA StillLinks ==
  ASSUME LinkInv, UNCHANGED rowsAndKeys, UNCHANGED pc
  PROVE  LinkInv'
  BY DEF rowsAndKeys, LinkInv, AddInv, HeldInv, DropInv, RestInv, NoOrphanDocument,
     FilesOf, View

LEMMA DropElsewhere ==
  ASSUME TypeOK, DropInv, NEW p \in Proc, p \notin cdel, UNCHANGED <<cdel, coll>>,
         \A q \in Proc \ {p} : pc'[q] = pc[q],
         \A q \in Proc \ {p}, g \in File : View(q, g)' = View(q, g)
  PROVE  DropInv'
  <1> SUFFICES ASSUME NEW q \in cdel
               PROVE  /\ pc'[q] \in {"sweep", "sweeping", "commit"}
                      /\ \A f \in FilesOf(coll[q]) : View(q, f)' = None
                      /\ \A r \in cdel \ {q} : coll[r] # coll[q]
    BY DEF DropInv, FilesOf
  <1>1. q \in Proc \ {p}
    BY DEF TypeOK
  <1> QED
    BY <1>1 DEF DropInv, FilesOf

LEMMA ForgetLinks ==
  ASSUME TypeOK, LinkInv, NEW p \in Proc, Forget(p), UNCHANGED coll,
         pc'[p] \in AtRest, \A q \in Proc \ {p} : pc'[q] = pc[q]
  PROVE  LinkInv'
  <1> USE StoreAssumption
  <1>1. /\ \A f \in File : lock'[f] = IF lock[f] = p THEN None ELSE lock[f]
        /\ \A f \in File : cur'[f] = IF lock[f] = p THEN doc[f] ELSE cur[f]
        /\ cshare' = cshare \ {p} /\ cdel' = cdel \ {p}
        /\ UNCHANGED <<doc, cstate, coll>>
    BY DEF Forget, Release, committed
  <1>2. AddInv'
    BY <1>1 DEF LinkInv, AddInv
  <1>3. HeldInv'
    BY <1>1 DEF LinkInv, HeldInv
  <1>4. DropInv'
    <2>1. \A q \in Proc \ {p}, f \in File : View(q, f)' = View(q, f)
      BY <1>1 DEF View
    <2> QED
      BY <1>1, <2>1 DEF TypeOK, LinkInv, DropInv, FilesOf
  <1>5. RestInv'
    BY <1>1 DEF LinkInv, RestInv
  <1> QED
    BY <1>1, <1>2, <1>3, <1>4, <1>5 DEF LinkInv, NoOrphanDocument

LEMMA RollbackLinks ==
  ASSUME TypeOK, LinkInv, NEW p \in Proc, Rollback(p)
  PROVE  LinkInv'
  <1>1. Forget(p) /\ UNCHANGED coll
    BY DEF Rollback, job
  <1>2. pc'[p] \in AtRest /\ \A q \in Proc \ {p} : pc'[q] = pc[q]
    BY RollbackOthers DEF Others, AtRest
  <1> QED
    BY <1>1, <1>2, ForgetLinks

LEMMA StoreRowLinks ==
  ASSUME TypeOK, ScanInv, LinkInv, NEW p \in Proc,
         pc[p] = "write", WaitsFor(p) = {}, ~WriteRaises(p), StoreRow(p)
  PROVE  LinkInv'
  <1> DEFINE f == file[p]
  <1> USE StoreAssumption
  <1>1. f \in File /\ CollOf(f) = coll[p] /\ coll[p] \in Coll
    BY FileType DEF ScanInv, FilesOf, CollOf
  <1>2. /\ \A g \in File \ {f} : cur'[g] = cur[g] /\ lock'[g] = lock[g]
        /\ lock'[f] = p
        /\ cshare' = IF found[p] = None THEN cshare \cup {p} ELSE cshare
        /\ pc' = [pc EXCEPT ![p] = "scan"]
        /\ UNCHANGED <<doc, cstate, coll, cdel>>
    BY <1>1 DEF StoreRow, committed, job, TypeOK
  <1>3. lock[f] \in {None, p}
    BY <1>1 DEF WaitsFor, TypeOK
  <1>4. /\ found[p] = None => cstate[coll[p]] = "live"
        /\ found[p] # None => doc[f] # None
    BY DEF WriteRaises
  <1>5. found[p] = None => \A q \in cdel \ {p} : coll[q] # coll[p]
    BY DEF WaitsFor, TypeOK
  <1>6. AddInv'
    BY <1>1, <1>2, <1>4 DEF LinkInv, AddInv
  <1>7. HeldInv'
    BY <1>1, <1>2, <1>4, <1>5 DEF LinkInv, HeldInv
  <1>8. p \notin cdel
    BY DEF LinkInv, DropInv
  <1>9. pc'[p] = "scan" /\ \A q \in Proc \ {p} : pc'[q] = pc[q]
    BY <1>2 DEF TypeOK
  <1>10. \A q \in Proc \ {p}, g \in File : View(q, g)' = View(q, g)
    BY <1>2, <1>3 DEF View
  <1>11. DropInv'
    BY <1>2, <1>8, <1>9, <1>10, DropElsewhere DEF LinkInv
  <1>12. RestInv'
    BY <1>2, <1>9 DEF LinkInv, RestInv, AtRest
  <1> QED
    BY <1>2, <1>6, <1>7, <1>11, <1>12 DEF LinkInv, NoOrphanDocument

LEMMA ChangeRowLinks ==
  ASSUME TypeOK, LinkInv, NEW p \in Proc, NEW f \in File, ChangeRow(p, f)
  PROVE  LinkInv'
  <1> USE StoreAssumption
  <1>1. /\ UNCHANGED <<pc, doc, cstate, cshare, cdel, coll>>
        /\ lock[f] \in {None, p} /\ pc[p] = "rows"
    BY DEF ChangeRow, committed, job
  <1>2. CASE ~Changes(p, f)
    BY <1>1, <1>2, StillLinks DEF ChangeRow, rowsAndKeys
  <1>3. CASE Changes(p, f)
    <2>1. /\ lock'[f] = p /\ View(p, f) # None
          /\ \A g \in File \ {f} : cur'[g] = cur[g] /\ lock'[g] = lock[g]
      BY <1>3 DEF ChangeRow, Changes, TypeOK
    <2>2. AddInv'
      BY <1>1, <2>1 DEF LinkInv, AddInv, View
    <2>3. p \notin cdel
      BY <1>1 DEF LinkInv, DropInv
    <2>4. \A q \in Proc \ {p}, g \in File : View(q, g)' = View(q, g)
      BY <1>1, <2>1 DEF View
    <2>5. DropInv'
      BY <1>1, <2>3, <2>4, DropElsewhere DEF LinkInv
    <2>6. RestInv'
      BY <1>1, <2>1 DEF LinkInv, RestInv, AtRest
    <2> QED
      BY <1>1, <2>2, <2>5, <2>6 DEF LinkInv, HeldInv, NoOrphanDocument
  <1> QED
    BY <1>2, <1>3

LEMMA DropCollectionLinks ==
  ASSUME TypeOK, LinkInv, NEW p \in Proc, DropCollection(p)
  PROVE  LinkInv'
  <1>1. CASE CollectionInUse(p)
    BY <1>1, RollbackLinks DEF DropCollection
  <1>2. CASE ~CollectionInUse(p)
    <2>1. /\ cdel' \in {cdel, cdel \cup {p}} /\ pc[p] = "drop"
          /\ pc' = [pc EXCEPT ![p] = "sweep"]
          /\ UNCHANGED <<cstate, doc, cur, lock, cshare, coll>>
      BY <1>2 DEF DropCollection, committed, job
    <2>2. \A q \in (cshare \cup cdel) \ {p} : coll[q] # coll[p]
      BY DEF DropCollection, WaitsFor, TypeOK
    <2>3. \A f \in FilesOf(coll[p]) : View(p, f) = None
      BY <1>2 DEF CollectionInUse
    <2>4. pc'[p] = "sweep" /\ \A q \in Proc \ {p} : pc'[q] = pc[q]
      BY <2>1 DEF TypeOK
    <2>5. HeldInv'
      BY <2>1, <2>2 DEF LinkInv, HeldInv
    <2>6. DropInv'
      BY <2>1, <2>2, <2>3, <2>4 DEF TypeOK, LinkInv, DropInv, FilesOf, View
    <2>7. RestInv'
      BY <2>1, <2>4 DEF LinkInv, RestInv, AtRest
    <2> QED
      BY <2>1, <2>5, <2>6, <2>7 DEF LinkInv, AddInv, NoOrphanDocument
  <1> QED
    BY <1>1, <1>2

LEMMA CommitLinks ==
  ASSUME TypeOK, LinkInv, NEW p \in Proc, Commit(p)
  PROVE  LinkInv'
  <1> USE StoreAssumption
  <1>1. /\ pc' = [pc EXCEPT ![p] = "idle"]
        /\ \A f \in File : doc'[f] = View(p, f)
        /\ \A f \in File : lock'[f] = IF lock[f] = p THEN None ELSE lock[f]
        /\ cshare' = cshare \ {p} /\ cdel' = cdel \ {p}
        /\ cstate' = IF p \in cdel THEN [cstate EXCEPT ![coll[p]] = "removed"] ELSE cstate
        /\ UNCHANGED <<cur, coll>>
    BY DEF Commit, Release, job
  <1>2. pc'[p] = "idle" /\ \A q \in Proc \ {p} : pc'[q] = pc[q]
    BY <1>1 DEF TypeOK
  <1>3. \A f \in File : lock[f] # p => doc'[f] = doc[f]
    BY <1>1 DEF View
  <1>4. \A c \in Coll : p \notin cdel \/ coll[p] # c => cstate'[c] = cstate[c]
    BY <1>1 DEF TypeOK
  <1>5. AddInv'
    BY <1>1, <1>3 DEF LinkInv, AddInv
  <1>6. HeldInv'
    BY <1>1, <1>4 DEF LinkInv, HeldInv
  <1>7. DropInv'
    <2> SUFFICES ASSUME NEW q \in cdel \ {p}, NEW f \in FilesOf(coll[q])
                 PROVE  View(q, f)' = None
      BY <1>1, <1>2 DEF TypeOK, LinkInv, DropInv
    <2>1. f \in File /\ CollOf(f) = coll[q] /\ View(q, f) = None
      BY DEF FilesOf, LinkInv, DropInv
    <2>2. CASE lock[f] = q
      <3>1. lock'[f] = q /\ cur'[f] = cur[f]
        BY <1>1, <2>1, <2>2
      <3> QED
        BY <2>1, <2>2, <3>1 DEF View
    <2>3. CASE lock[f] = p
      <3>1. doc[f] = None /\ View(q, f)' = cur[f]
        BY <1>1, <2>1, <2>3 DEF View
      <3> QED
        BY <2>1, <2>3, <3>1 DEF LinkInv, AddInv, HeldInv
    <2>4. CASE lock[f] \notin {p, q}
      BY <1>1, <1>3, <2>1, <2>4 DEF View
    <2> QED
      BY <2>2, <2>3, <2>4
  <1>8. RestInv'
    BY <1>1, <1>2 DEF LinkInv, RestInv
  <1>9. NoOrphanDocument'
    <2> SUFFICES ASSUME NEW f \in File, View(p, f) # None
                 PROVE  cstate'[CollOf(f)] = "live"
      BY <1>1 DEF NoOrphanDocument
    <2>1. CollOf(f) \in Coll
      BY DEF CollOf
    <2>2. cstate[CollOf(f)] = "live"
      BY DEF View, LinkInv, AddInv, HeldInv, NoOrphanDocument
    <2>3. p \notin cdel \/ coll[p] # CollOf(f)
      BY DEF LinkInv, DropInv, FilesOf
    <2> QED
      BY <1>4, <2>1, <2>2, <2>3
  <1> QED
    BY <1>5, <1>6, <1>7, <1>8, <1>9 DEF LinkInv

LEMMA StatementLinks ==
  ASSUME TypeOK, ScanInv, LinkInv, NEW p \in Proc, Statement(p)
  PROVE  LinkInv'
  <1> USE StoreAssumption
  <1>1. CASE Resolve(p)
    <2>1. UNCHANGED rowsAndKeys /\ pc[p] = "resolve"
      BY <1>1 DEF Resolve, committed, locks, job, rowsAndKeys
    <2>2. PICK l \in {"scan", "idle"} : pc' = [pc EXCEPT ![p] = l]
      BY <1>1 DEF Resolve
    <2> QED
      BY <2>1, <2>2, QuietLinks DEF Location, AtRest
  <1>2. CASE \E f \in File : LookAt(p, f)
    <2> PICK f \in File : LookAt(p, f)
      BY <1>2
    <2>1. UNCHANGED rowsAndKeys /\ pc[p] = "scan"
      BY DEF LookAt, committed, locks, job, rowsAndKeys
    <2>2. CASE UNCHANGED pc
      BY <2>1, <2>2, StillLinks
    <2>3. CASE pc' = [pc EXCEPT ![p] = AfterLook(View(p, f), disk[f])]
      <3>1. AfterLook(View(p, f), disk[f]) \in {"scan", "write", "body"}
        BY DEF AfterLook
      <3> QED
        BY <2>1, <2>3, <3>1, QuietLinks DEF Location, AtRest
    <2> QED
      BY <2>2, <2>3 DEF LookAt
  <1>3. CASE InsertContent(p)
    BY <1>3, QuietLinks DEF InsertContent, committed, job, rowsAndKeys, Location, AtRest
  <1>4. CASE WriteDocument(p)
    BY <1>4, RollbackLinks, StoreRowLinks DEF WriteDocument
  <1>5. CASE ListActive(p)
    BY <1>5, QuietLinks DEF ListActive, committed, locks, job, rowsAndKeys, Location, AtRest
  <1>6. CASE \E f \in File : ChangeRow(p, f)
    BY <1>6, ChangeRowLinks
  <1>7. CASE RowsChanged(p)
    <2>1. UNCHANGED rowsAndKeys /\ pc[p] = "rows"
      BY <1>7 DEF RowsChanged, committed, locks, job, rowsAndKeys
    <2>2. PICK l \in {"drop", "sweep"} : pc' = [pc EXCEPT ![p] = l]
      BY <1>7 DEF RowsChanged
    <2> QED
      BY <2>1, <2>2, QuietLinks DEF Location, AtRest
  <1>8. CASE DropCollection(p)
    BY <1>8, DropCollectionLinks
  <1>9. CASE BeginSweep(p)
    BY <1>9, QuietLinks DEF BeginSweep, committed, locks, job, rowsAndKeys, Location, AtRest
  <1>10. CASE \E h \in Hash : SweepOne(p, h)
    BY <1>10, StillLinks DEF SweepOne, committed, job, rowsAndKeys
  <1>11. CASE EndSweep(p)
    <2>1. CASE Rollback(p)
      BY <2>1, RollbackLinks
    <2>2. CASE pc' = [pc EXCEPT ![p] = "commit"] /\ UNCHANGED <<committed, locks, job>>
      BY <1>11, <2>2, QuietLinks DEF EndSweep, committed, locks, job, rowsAndKeys, Location,
         AtRest
    <2> QED
      BY <1>11, <2>1, <2>2 DEF EndSweep
  <1>12. CASE Undo(p)
    <2>1. UNCHANGED rowsAndKeys /\ pc[p] = "undo"
      BY <1>12 DEF Undo, committed, locks, rowsAndKeys
    <2>2. PICK l \in {"rows", "idle"} : pc' = [pc EXCEPT ![p] = l]
      BY <1>12 DEF Undo
    <2> QED
      BY <2>1, <2>2, QuietLinks DEF Location, AtRest
  <1>13. CASE Commit(p)
    BY <1>13, CommitLinks
  <1> QED
    BY <1>1, <1>2, <1>3, <1>4, <1>5, <1>6, <1>7, <1>8, <1>9, <1>10, <1>11, <1>12, <1>13
    DEF Statement

LEMMA StartLinks ==
  ASSUME TypeOK, LinkInv, NEW p \in Proc, NEW o, NEW c, Start(p, o, c),
         NEW l \in {"resolve", "rows"}, pc' = [pc EXCEPT ![p] = l],
         \A d \in Coll : cstate[d] = "live" => cstate'[d] = "live"
  PROVE  LinkInv'
  <1> USE StoreAssumption
  <1>1. /\ UNCHANGED <<doc, cur, lock, cshare, cdel>>
        /\ coll' = [coll EXCEPT ![p] = c]
        /\ pc[p] = "idle"
    BY DEF Start, locks, Running
  <1>2. /\ pc'[p] = l
        /\ \A q \in Proc \ {p} : pc'[q] = pc[q] /\ coll'[q] = coll[q]
    BY <1>1 DEF TypeOK
  <1>3. p \notin cshare /\ p \notin cdel /\ \A f \in File : lock[f] # p
    BY <1>1 DEF LinkInv, RestInv, AtRest
  <1>4. AddInv'
    BY <1>1, <1>2, <1>3 DEF LinkInv, AddInv, TypeOK
  <1>5. HeldInv'
    BY <1>1, <1>2, <1>3 DEF LinkInv, HeldInv, TypeOK
  <1>6. DropInv'
    <2> SUFFICES ASSUME NEW q \in cdel
                 PROVE  /\ pc'[q] \in {"sweep", "sweeping", "commit"}
                        /\ \A f \in FilesOf(coll'[q]) : View(q, f)' = None
                        /\ \A r \in cdel \ {q} : coll'[r] # coll'[q]
      BY <1>1 DEF DropInv, FilesOf
    <2>1. \A r \in cdel : r \in Proc \ {p} /\ coll'[r] = coll[r]
      BY <1>2, <1>3 DEF TypeOK
    <2>2. \A f \in File : View(q, f)' = View(q, f)
      BY <1>1 DEF View
    <2> QED
      BY <1>2, <2>1, <2>2 DEF LinkInv, DropInv, FilesOf
  <1>7. RestInv'
    BY <1>1, <1>2, <1>3 DEF LinkInv, RestInv
  <1>8. NoOrphanDocument'
    BY <1>1 DEF LinkInv, NoOrphanDocument, CollOf
  <1> QED
    BY <1>4, <1>5, <1>6, <1>7, <1>8 DEF LinkInv

LEMMA NextLinks ==
  ASSUME TypeOK, ScanInv, LinkInv, [Next]_vars
  PROVE  LinkInv'
  <1> USE StoreAssumption
  <1>1. ASSUME NEW p \in Proc, DeadlockAbort(p)
        PROVE  LinkInv'
    BY <1>1, RollbackLinks DEF DeadlockAbort
  <1>2. ASSUME NEW p \in Proc, Crash(p)
        PROVE  LinkInv'
    <2>1. Forget(p) /\ UNCHANGED coll /\ pc' = [pc EXCEPT ![p] = "idle"]
      BY <1>2 DEF Crash, job
    <2>2. pc'[p] \in AtRest /\ \A q \in Proc \ {p} : pc'[q] = pc[q]
      BY <2>1 DEF TypeOK, AtRest
    <2> QED
      BY <2>1, <2>2, ForgetLinks
  <1>3. ASSUME NEW p \in Proc, NEW c \in Coll, StartReindex(p, c)
        PROVE  LinkInv'
    BY <1>3, StartLinks DEF StartReindex
  <1>4. ASSUME NEW p \in Proc, NEW c \in Coll, StartAdd(p, c)
        PROVE  LinkInv'
    <2>1. \A d \in Coll : cstate[d] = "live" => cstate'[d] = "live"
      BY <1>4 DEF StartAdd, TypeOK
    <2> QED
      BY <1>4, <2>1, StartLinks DEF StartAdd
  <1>5. ASSUME NEW p \in Proc, NEW c \in Coll, StartRemove(p, c)
        PROVE  LinkInv'
    BY <1>5, StartLinks DEF StartRemove
  <1>6. ASSUME NEW p \in Proc, StartCleanup(p)
        PROVE  LinkInv'
    BY <1>6, StartLinks DEF StartCleanup
  <1>7. ASSUME NEW f \in File, NEW v \in Hash \cup {None}, Edit(f, v)
        PROVE  LinkInv'
    BY <1>7, StillLinks DEF Edit, committed, locks, job, rowsAndKeys
  <1>8. CASE UNCHANGED vars
    BY <1>8, StillLinks DEF vars, committed, locks, job, rowsAndKeys
  <1>9. CASE Next
    BY <1>1, <1>2, <1>3, <1>4, <1>5, <1>6, <1>7, <1>8, <1>9, StatementLinks DEF Next, Rest
  <1> QED
    BY <1>8, <1>9

\* However a reindex, `collection add` and `collection remove` of one collection
\* interleave, no document is ever committed to a collection that is gone.
THEOREM NoDocumentOrphaned == Spec => []NoOrphanDocument
  <1>1. Init => TypeOK /\ ScanInv /\ LinkInv
    <2> SUFFICES ASSUME Init
                 PROVE  TypeOK /\ ScanInv /\ LinkInv
      OBVIOUS
    <2>1. TypeOK /\ ScanInv
      BY InitType DEF Init, ScanInv
    <2>2. AddInv /\ HeldInv /\ DropInv /\ RestInv /\ NoOrphanDocument
      BY StoreAssumption DEF Init, AddInv, HeldInv, DropInv, RestInv, NoOrphanDocument
    <2> QED
      BY <2>1, <2>2 DEF LinkInv
  <1>2. TypeOK /\ ScanInv /\ LinkInv /\ [Next]_vars => (TypeOK /\ ScanInv /\ LinkInv)'
    BY NextType, NextScan, NextLinks
  <1>3. LinkInv => NoOrphanDocument
    BY DEF LinkInv
  <1> QED
    BY <1>1, <1>2, <1>3, PTL DEF Spec

=============================================================================
