--------------------------- MODULE CatalogProofs ---------------------------
(***************************************************************************)
(* Store implements Catalog, for any number of processes, collections,     *)
(* files and bodies: every step of a command is, for a reader of the       *)
(* index, one step on one collection, or nothing.  And what a single       *)
(* command achieves, whatever runs beside it.                              *)
(***************************************************************************)
EXTENDS StoreProofs

-----------------------------------------------------------------------------
(* The invariant: why what a transaction will publish has been on disk.    *)

Indexing == {"reindex", "add"}
Removing == {"remove", "undo"}
Sweeping == {"sweep", "sweeping", "commit"}

\* What a reindex has read was there, and a file it knows it has not read was
\* not.  It has not written the files it has still to look at, or to write.
ReadInv(p) ==
  /\ \A f \in File : seen[p][f] # None => seen[p][f] \in held[f]
  /\ pc[p] \in {"scan", "body", "write"} =>
       /\ \A f \in FilesOf(coll[p]) \ todo[p] : seen[p][f] = None => None \in held[f]
       /\ \A f \in todo[p] : lock[f] # p
  /\ pc[p] \in {"body", "write"} => file[p] \notin todo[p] /\ lock[file[p]] # p

\* The row a reindex SELECTed is still the row to be updated, but for a body
\* that another reindex has read; it was inactive if its body is the one read.
FoundInv(p) ==
  pc[p] \in {"body", "write"} /\ found[p] # None =>
    /\ doc[file[p]] # None => \/ doc[file[p]].hash = found[p].hash
                              \/ doc[file[p]].hash \in held[file[p]]
    /\ found[p].hash = seen[p][file[p]] => ~found[p].active

\* The rows a statement has still to change.
RowsInv(p) ==
  pc[p] = "rows" =>
    /\ op[p] \in Indexing \cup Removing => rows[p] \subseteq FilesOf(coll[p])
    /\ op[p] \in Indexing => \A f \in rows[p] : None \in held[f]

\* The uncommitted rows: a reader who sees one committed sees a body the file
\* has had, or nothing if the file has been away or the command removes it.
WriteInv(p) ==
  \A f \in File : lock[f] = p =>
    /\ cur[f] # None => \/ cur[f].hash \in held[f]
                        \/ doc[f] # None /\ cur[f].hash = doc[f].hash
    /\ op[p] \in Indexing \cup Removing => CollOf(f) = coll[p]
    /\ op[p] \in Indexing => Indexed(cur, f) \in held[f] \cup {Indexed(doc, f)}
    /\ op[p] \notin Indexing => cur[f] = None
    /\ op[p] = "cleanup" => Indexed(doc, f) = None

\* Where each command can be, and what has become of its collection.
CommandInv(p) ==
  /\ pc[p] # "idle" => op[p] \in Command
  /\ pc[p] \in {"resolve", "scan", "body", "write", "undo"} => op[p] \in Indexing
  /\ pc[p] = "drop" => op[p] \in Removing
  /\ pc[p] # "idle" /\ op[p] # "cleanup" =>
       coll[p] \in Coll /\ cstate[coll[p]] # "unused"
  /\ p \in cdel => op[p] \in Removing /\ cstate[coll[p]] = "live"
  /\ pc[p] \in Sweeping /\ op[p] \in Removing =>
       p \in cdel \/ cstate[coll[p]] = "removed"

ProcInv(p) == ReadInv(p) /\ FoundInv(p) /\ RowsInv(p) /\ WriteInv(p) /\ CommandInv(p)

PublishInv ==
  /\ \A f \in File : disk[f] \in held[f]
  /\ \A p \in Proc : ProcInv(p)

-----------------------------------------------------------------------------
(* What a step of p does to the others.                                    *)

Apart(p) ==
  /\ UNCHANGED disks
  /\ \A q \in Proc \ {p} :
       /\ pc'[q] = pc[q] /\ op'[q] = op[q] /\ coll'[q] = coll[q]
       /\ todo'[q] = todo[q] /\ file'[q] = file[q] /\ found'[q] = found[q]
       /\ seen'[q] = seen[q] /\ rows'[q] = rows[q]
       /\ q \in cdel' <=> q \in cdel
       /\ q \in cdel => cstate'[coll[q]] = cstate[coll[q]]
       /\ \A f \in File : /\ lock'[f] = q <=> lock[f] = q
                          /\ lock[f] = q => cur'[f] = cur[f] /\ doc'[f] = doc[f]
  /\ \A f \in File : doc'[f] # None =>
       \/ doc'[f].hash \in held[f]
       \/ doc[f] # None /\ doc'[f].hash = doc[f].hash
  /\ \A c \in Coll : /\ cstate[c] # "unused" => cstate'[c] # "unused"
                     /\ cstate[c] = "removed" => cstate'[c] = "removed"

LEMMA ApartKept ==
  ASSUME TypeOK, ScanInv, NEW p \in Proc, NEW q \in Proc \ {p}, ProcInv(q), Apart(p)
  PROVE  ProcInv(q)'
  <1> USE StoreAssumption
  <1>1. /\ held' = held /\ pc'[q] = pc[q] /\ op'[q] = op[q] /\ coll'[q] = coll[q]
        /\ todo'[q] = todo[q] /\ file'[q] = file[q] /\ found'[q] = found[q]
        /\ seen'[q] = seen[q] /\ rows'[q] = rows[q]
        /\ q \in cdel' <=> q \in cdel
        /\ q \in cdel => cstate'[coll[q]] = cstate[coll[q]]
    BY DEF Apart, disks
  <1>2. \A f \in File : /\ lock'[f] = q <=> lock[f] = q
                        /\ lock[f] = q => cur'[f] = cur[f] /\ doc'[f] = doc[f]
    BY DEF Apart
  <1>3. pc[q] \in {"body", "write"} => file[q] \in File
    BY FileType
  <1>4. todo[q] \subseteq File
    BY DEF TypeOK
  <1>5. ReadInv(q)'
    <2>1. \A f \in todo[q] : lock[f] # q => lock'[f] # q
      BY <1>2, <1>4
    <2>2. pc[q] \in {"body", "write"} => (lock[file[q]] # q => lock'[file[q]] # q)
      BY <1>2, <1>3
    <2> QED
      BY <1>1, <2>1, <2>2 DEF ProcInv, ReadInv, FilesOf
  <1>6. FoundInv(q)'
    BY <1>1, <1>3 DEF Apart, ProcInv, FoundInv
  <1>7. RowsInv(q)'
    BY <1>1 DEF ProcInv, RowsInv, FilesOf
  <1>8. WriteInv(q)'
    <2> SUFFICES ASSUME NEW f \in File, lock'[f] = q
                 PROVE  /\ cur'[f] # None => \/ cur'[f].hash \in held'[f]
                                             \/ doc'[f] # None /\ cur'[f].hash = doc'[f].hash
                        /\ op'[q] \in Indexing \cup Removing => CollOf(f) = coll'[q]
                        /\ op'[q] \in Indexing =>
                             Indexed(cur', f) \in held'[f] \cup {Indexed(doc', f)}
                        /\ op'[q] \notin Indexing => cur'[f] = None
                        /\ op'[q] = "cleanup" => Indexed(doc', f) = None
      BY DEF WriteInv
    <2>1. lock[f] = q /\ cur'[f] = cur[f] /\ doc'[f] = doc[f]
      BY <1>2
    <2>2. Indexed(cur', f) = Indexed(cur, f) /\ Indexed(doc', f) = Indexed(doc, f)
      BY <2>1 DEF Indexed
    <2> QED
      BY <1>1, <2>1, <2>2 DEF ProcInv, WriteInv
  <1>9. CommandInv(q)'
    <2>1. coll[q] \in Coll =>
            /\ cstate[coll[q]] # "unused" => cstate'[coll[q]] # "unused"
            /\ cstate[coll[q]] = "removed" => cstate'[coll[q]] = "removed"
      BY DEF Apart
    <2> QED
      BY <1>1, <2>1 DEF ProcInv, CommandInv, Sweeping, Removing
  <1> QED
    BY <1>5, <1>6, <1>7, <1>8, <1>9 DEF ProcInv

LEMMA StepKeeps ==
  ASSUME TypeOK, ScanInv, PublishInv, NEW p \in Proc, Apart(p), ProcInv(p)'
  PROVE  PublishInv'
  <1>1. \A f \in File : disk'[f] \in held'[f]
    BY DEF Apart, disks, PublishInv
  <1>2. \A q \in Proc \ {p} : ProcInv(q)'
    BY ApartKept DEF PublishInv
  <1> QED
    BY <1>1, <1>2 DEF PublishInv

\* A step that changes nothing but where p is and what it keeps for itself.
LEMMA QuietApart ==
  ASSUME TypeOK, NEW p \in Proc, UNCHANGED <<disks, rowsAndKeys, op>>,
         \A q \in Proc \ {p} :
           /\ pc'[q] = pc[q] /\ todo'[q] = todo[q] /\ file'[q] = file[q]
           /\ found'[q] = found[q] /\ seen'[q] = seen[q] /\ rows'[q] = rows[q]
  PROVE  Apart(p)
  BY DEF Apart, rowsAndKeys

-----------------------------------------------------------------------------
(* Ends of a transaction.                                                  *)

LEMMA ForgetPublish ==
  ASSUME TypeOK, ScanInv, LinkInv, PublishInv, NEW p \in Proc, Forget(p),
         UNCHANGED <<op, coll>>, pc'[p] = "idle" \/ (pc'[p] = "undo" /\ op[p] = "add"),
         pc[p] # "idle", \A q \in Proc \ {p} : pc'[q] = pc[q]
  PROVE  Apart(p) /\ PublishInv'
  <1> USE StoreAssumption
  <1>1. /\ \A f \in File : lock'[f] = IF lock[f] = p THEN None ELSE lock[f]
        /\ \A f \in File : cur'[f] = IF lock[f] = p THEN doc[f] ELSE cur[f]
        /\ cdel' = cdel \ {p}
        /\ UNCHANGED <<disk, held, doc, cstate>>
    BY DEF Forget, Release, committed, disks
  <1>2. seen'[p] = [f \in File |-> None]
    BY DEF Forget, Release, TypeOK
  <1>3. \A q \in Proc \ {p} :
          /\ todo'[q] = todo[q] /\ file'[q] = file[q] /\ found'[q] = found[q]
          /\ seen'[q] = seen[q] /\ rows'[q] = rows[q]
    BY DEF Forget, Release, TypeOK
  <1>4. Apart(p)
    BY <1>1, <1>3 DEF Apart, disks
  <1>5. ReadInv(p)' /\ FoundInv(p)' /\ RowsInv(p)'
    BY <1>2 DEF ReadInv, FoundInv, RowsInv
  <1>6. WriteInv(p)'
    BY <1>1 DEF WriteInv
  <1>7. CommandInv(p)'
    BY <1>1 DEF PublishInv, ProcInv, CommandInv, Indexing, Removing, Sweeping, Command
  <1> QED
    BY <1>4, <1>5, <1>6, <1>7, StepKeeps DEF ProcInv

LEMMA RollbackPublish ==
  ASSUME TypeOK, ScanInv, LinkInv, PublishInv, NEW p \in Proc, Rollback(p), pc[p] # "idle"
  PROVE  Apart(p) /\ PublishInv'
  <1>1. Forget(p) /\ UNCHANGED <<op, coll>>
    BY DEF Rollback, job
  <1>2. \/ pc' = [pc EXCEPT ![p] = "idle"]
        \/ pc' = [pc EXCEPT ![p] = "undo"] /\ op[p] = "add"
    BY DEF Rollback, UndoesOnFailure
  <1>3. /\ pc'[p] = "idle" \/ (pc'[p] = "undo" /\ op[p] = "add")
        /\ \A q \in Proc \ {p} : pc'[q] = pc[q]
    <2>1. CASE pc' = [pc EXCEPT ![p] = "idle"]
      BY <2>1 DEF TypeOK
    <2>2. CASE pc' = [pc EXCEPT ![p] = "undo"] /\ op[p] = "add"
      BY <2>2 DEF TypeOK
    <2> QED
      BY <1>2, <2>1, <2>2
  <1> QED
    BY <1>1, <1>3, ForgetPublish

\* What COMMIT does to the committed rows, and for whom.
LEMMA CommitRows ==
  ASSUME TypeOK, NEW p \in Proc, Commit(p)
  PROVE  /\ pc[p] = "commit" /\ pc'[p] = "idle"
         /\ \A q \in Proc \ {p} : pc'[q] = pc[q]
         /\ \A f \in File :
              /\ doc'[f] = IF lock[f] = p THEN cur[f] ELSE doc[f]
              /\ lock'[f] = IF lock[f] = p THEN None ELSE lock[f]
         /\ UNCHANGED <<cur, op, coll, rows, disk, held>>
         /\ p \in cdel => cstate' = [cstate EXCEPT ![coll[p]] = "removed"]
         /\ p \notin cdel => cstate' = cstate
         /\ cdel' = cdel \ {p}
  BY DEF Commit, Release, View, TypeOK, job, disks

LEMMA CommitPublish ==
  ASSUME TypeOK, ScanInv, LinkInv, PublishInv, NEW p \in Proc, Commit(p)
  PROVE  Apart(p) /\ PublishInv'
  <1> USE StoreAssumption, CommitRows
  <1>1. ProcInv(p)
    BY DEF PublishInv
  <1>2. seen'[p] = [f \in File |-> None]
    BY DEF Commit, Release, TypeOK
  <1>3. \A q \in Proc \ {p} :
          todo'[q] = todo[q] /\ file'[q] = file[q] /\ found'[q] = found[q] /\ seen'[q] = seen[q]
    BY DEF Commit, Release, TypeOK
  <1>4. Apart(p)
    <2>1. \A q \in cdel \ {p} : cstate'[coll[q]] = cstate[coll[q]]
      <3> SUFFICES ASSUME NEW q \in cdel \ {p}, p \in cdel
                   PROVE  cstate'[coll[q]] = cstate[coll[q]]
        OBVIOUS
      <3>1. coll[q] # coll[p]
        BY DEF LinkInv, DropInv
      <3>2. cstate' = [cstate EXCEPT ![coll[p]] = "removed"]
        OBVIOUS
      <3>3. coll[q] \in Coll
        <4>1. q \in Proc /\ pc[q] \in {"sweep", "sweeping", "commit"}
          BY DEF LinkInv, DropInv, TypeOK
        <4>2. CommandInv(q)
          BY <4>1 DEF PublishInv, ProcInv
        <4> QED
          BY <4>1, <4>2 DEF CommandInv, Removing
      <3> QED
        BY <3>1, <3>2, <3>3 DEF TypeOK
    <2>2. \A f \in File : doc'[f] # None =>
            \/ doc'[f].hash \in held[f]
            \/ doc[f] # None /\ doc'[f].hash = doc[f].hash
      BY <1>1 DEF ProcInv, WriteInv
    <2>3. \A c \in Coll : /\ cstate[c] # "unused" => cstate'[c] # "unused"
                          /\ cstate[c] = "removed" => cstate'[c] = "removed"
      BY DEF TypeOK
    <2> QED
      BY <1>3, <2>1, <2>2, <2>3 DEF Apart, disks
  <1>5. ReadInv(p)' /\ FoundInv(p)' /\ RowsInv(p)'
    BY <1>2 DEF ReadInv, FoundInv, RowsInv
  <1>6. WriteInv(p)'
    BY DEF WriteInv
  <1>7. CommandInv(p)'
    BY DEF CommandInv, Sweeping
  <1> QED
    BY <1>4, <1>5, <1>6, <1>7, StepKeeps DEF ProcInv

-----------------------------------------------------------------------------
(* The statements of a reindex.                                            *)

\* A statement that moves p on and changes nothing that Catalog can see.
LEMMA MovePublish ==
  ASSUME TypeOK, ScanInv, PublishInv, NEW p \in Proc, NEW l \in Location,
         UNCHANGED <<disks, rowsAndKeys, op, scanning, rows>>, pc' = [pc EXCEPT ![p] = l],
         \/ pc[p] = "body" /\ l = "write"
         \/ pc[p] \in {"sweep", "sweeping"} /\ l \in {"sweeping", "commit"}
         \/ pc[p] = "rows" /\ l = "drop" /\ op[p] \in Removing
         \/ pc[p] = "rows" /\ l = "sweep" /\ op[p] \notin Removing
  PROVE  Apart(p) /\ PublishInv'
  <1>1. pc'[p] = l /\ \A q \in Proc \ {p} : pc'[q] = pc[q]
    BY DEF TypeOK
  <1>2. Apart(p)
    BY <1>1, QuietApart DEF scanning
  <1>3. ProcInv(p)
    BY DEF PublishInv
  <1>4. UNCHANGED <<held, doc, cur, lock, cstate, cdel, coll, op, todo, file, found, seen, rows>>
    BY DEF disks, rowsAndKeys, scanning
  <1>5. ReadInv(p)' /\ FoundInv(p)'
    BY <1>1, <1>3, <1>4 DEF ProcInv, ReadInv, FoundInv, FilesOf
  <1>6. RowsInv(p)'
    BY <1>1, <1>3, <1>4 DEF ProcInv, RowsInv, FilesOf
  <1>7. WriteInv(p)'
    BY <1>3, <1>4 DEF ProcInv, WriteInv, Indexed
  <1>8. CommandInv(p)'
    BY <1>1, <1>3, <1>4 DEF ProcInv, CommandInv, Sweeping
  <1> QED
    BY <1>2, <1>5, <1>6, <1>7, <1>8, StepKeeps DEF ProcInv

LEMMA ResolvePublish ==
  ASSUME TypeOK, ScanInv, LinkInv, PublishInv, NEW p \in Proc, Resolve(p)
  PROVE  Apart(p) /\ PublishInv'
  <1>1. UNCHANGED <<disks, rowsAndKeys, op, file, found, rows>> /\ pc[p] = "resolve"
    BY DEF Resolve, committed, locks, job, rowsAndKeys
  <1>2. UNCHANGED <<disk, held, doc, cur, lock, cstate, cdel, coll, op, rows>>
    BY <1>1 DEF disks, rowsAndKeys
  <1>3. ProcInv(p) /\ \A f \in File : lock[f] # p
    BY <1>1 DEF PublishInv, LinkInv, RestInv, AtRest
  <1>4. WriteInv(p)'
    BY <1>2, <1>3 DEF WriteInv
  <1>5. CASE cstate[coll[p]] = "live"
    <2>1. /\ pc' = [pc EXCEPT ![p] = "scan"]
          /\ seen' = [seen EXCEPT ![p] = [f \in File |-> None]]
      BY <1>5 DEF Resolve
    <2> PICK S \in SUBSET FilesOf(coll[p]) :
               /\ {f \in FilesOf(coll[p]) : disk[f] # None} \subseteq S
               /\ todo' = [todo EXCEPT ![p] = S]
      BY <1>5 DEF Resolve
    <2>2. pc'[p] = "scan" /\ seen'[p] = [f \in File |-> None] /\ todo'[p] = S
      BY <2>1 DEF TypeOK
    <2>3. Apart(p)
      BY <1>1, <2>1, QuietApart DEF TypeOK
    <2>4. \A f \in FilesOf(coll[p]) \ S : None \in held[f]
      <3> SUFFICES ASSUME NEW f \in FilesOf(coll[p]) \ S
                   PROVE  None \in held[f]
        OBVIOUS
      <3>1. disk[f] = None /\ f \in File
        BY DEF FilesOf
      <3> QED
        BY <3>1 DEF PublishInv
    <2>5. ReadInv(p)'
      BY <1>2, <1>3, <2>2, <2>4 DEF ReadInv, FilesOf
    <2>6. FoundInv(p)' /\ RowsInv(p)'
      BY <2>2 DEF FoundInv, RowsInv
    <2>7. CommandInv(p)'
      BY <1>1, <1>2, <1>3, <2>2 DEF ProcInv, CommandInv, Sweeping
    <2> QED
      BY <1>4, <2>3, <2>5, <2>6, <2>7, StepKeeps DEF ProcInv
  <1>6. CASE cstate[coll[p]] # "live"
    <2>1. pc' = [pc EXCEPT ![p] = "idle"] /\ UNCHANGED <<seen, todo>>
      BY <1>6 DEF Resolve
    <2>2. pc'[p] = "idle"
      BY <2>1 DEF TypeOK
    <2>3. Apart(p)
      BY <1>1, <2>1, QuietApart DEF TypeOK
    <2>4. ReadInv(p)' /\ FoundInv(p)' /\ RowsInv(p)' /\ CommandInv(p)'
      BY <1>2, <1>3, <2>1, <2>2
      DEF ProcInv, ReadInv, FoundInv, RowsInv, CommandInv, Sweeping
    <2> QED
      BY <1>4, <2>3, <2>4, StepKeeps DEF ProcInv
  <1> QED
    BY <1>5, <1>6

LEMMA LookAtPublish ==
  ASSUME TypeOK, ScanInv, PublishInv, NEW p \in Proc, NEW f \in File, LookAt(p, f)
  PROVE  Apart(p) /\ PublishInv'
  <1> USE StoreAssumption
  <1>1. /\ UNCHANGED <<disks, rowsAndKeys, op, rows>> /\ pc[p] = "scan" /\ f \in todo[p]
        /\ todo' = [todo EXCEPT ![p] = @ \ {f}]
    BY DEF LookAt, committed, locks, job, rowsAndKeys
  <1>2. UNCHANGED <<disk, held, doc, cur, lock, cstate, cdel, coll, op, rows>>
    BY <1>1 DEF disks, rowsAndKeys
  <1>3. ProcInv(p) /\ f \in FilesOf(coll[p]) /\ disk[f] \in held[f] /\ lock[f] # p
    BY <1>1 DEF PublishInv, ProcInv, ReadInv, ScanInv
  <1>4. todo'[p] = todo[p] \ {f}
    BY <1>1 DEF TypeOK
  <1>5. WriteInv(p)'
    BY <1>2, <1>3 DEF ProcInv, WriteInv, Indexed
  <1>6. CASE ~Indexable(f) /\ UNCHANGED <<pc, seen, file, found>>
    <2>1. Apart(p)
      BY <1>1, <1>6, QuietApart DEF TypeOK
    <2>2. disk[f] = None
      BY <1>6 DEF Indexable
    <2>3. ReadInv(p)'
      BY <1>1, <1>2, <1>3, <1>4, <1>6, <2>2 DEF ProcInv, ReadInv, FilesOf
    <2>4. FoundInv(p)' /\ RowsInv(p)' /\ CommandInv(p)'
      BY <1>1, <1>2, <1>3, <1>6 DEF ProcInv, FoundInv, RowsInv, CommandInv, Sweeping
    <2> QED
      BY <1>5, <2>1, <2>3, <2>4, StepKeeps DEF ProcInv
  <1>7. CASE /\ Indexable(f)
             /\ seen' = [seen EXCEPT ![p] = [@ EXCEPT ![f] = disk[f]]]
             /\ file' = [file EXCEPT ![p] = f]
             /\ found' = [found EXCEPT ![p] = View(p, f)]
             /\ pc' = [pc EXCEPT ![p] = AfterLook(View(p, f), disk[f])]
    <2>1. Apart(p)
      BY <1>1, <1>7, QuietApart DEF TypeOK
    <2>2. /\ seen'[p] = [seen[p] EXCEPT ![f] = disk[f]]
          /\ file'[p] = f /\ found'[p] = doc[f]
          /\ pc'[p] = AfterLook(doc[f], disk[f])
      BY <1>3, <1>7 DEF TypeOK, View
    <2>3. seen'[p][f] = disk[f] /\ \A g \in File \ {f} : seen'[p][g] = seen[p][g]
      BY <2>2 DEF TypeOK
    <2>4. pc'[p] \in {"scan", "body", "write"}
      BY <2>2 DEF AfterLook
    <2>5. disk[f] # None
      BY <1>7 DEF Indexable
    <2>6. ReadInv(p)'
      <3>1. \A g \in File : seen'[p][g] # None => seen'[p][g] \in held'[g]
        BY <1>2, <1>3, <2>3 DEF ProcInv, ReadInv
      <3>2. \A g \in FilesOf(coll[p]) \ todo'[p] : seen'[p][g] = None => None \in held[g]
        BY <1>1, <1>3, <1>4, <2>3, <2>5 DEF ProcInv, ReadInv, FilesOf
      <3>3. f \notin todo'[p] /\ \A g \in todo'[p] : lock[g] # p
        BY <1>1, <1>3, <1>4 DEF ProcInv, ReadInv
      <3> QED
        BY <1>2, <1>3, <2>2, <3>1, <3>2, <3>3 DEF ReadInv, FilesOf
    <2>7. FoundInv(p)'
      BY <1>2, <2>2, <2>3 DEF FoundInv, AfterLook
    <2>8. RowsInv(p)' /\ CommandInv(p)'
      BY <1>1, <1>2, <1>3, <2>4 DEF ProcInv, RowsInv, CommandInv, Sweeping
    <2> QED
      BY <1>5, <2>1, <2>6, <2>7, <2>8, StepKeeps DEF ProcInv
  <1> QED
    BY <1>6, <1>7 DEF LookAt

LEMMA ListActivePublish ==
  ASSUME TypeOK, ScanInv, PublishInv, NEW p \in Proc, ListActive(p)
  PROVE  Apart(p) /\ PublishInv'
  <1>1. /\ UNCHANGED <<disks, rowsAndKeys, op, scanning>> /\ pc[p] = "scan"
        /\ todo[p] = {}
        /\ rows' = [rows EXCEPT ![p] = NotRead(p)] /\ pc' = [pc EXCEPT ![p] = "rows"]
    BY DEF ListActive, committed, locks, job, rowsAndKeys
  <1>2. UNCHANGED <<held, doc, cur, lock, cstate, cdel, coll, op, todo, seen>>
    BY <1>1 DEF disks, rowsAndKeys, scanning
  <1>3. rows'[p] = NotRead(p) /\ pc'[p] = "rows"
    BY <1>1 DEF TypeOK
  <1>4. ProcInv(p)
    BY DEF PublishInv
  <1>5. Apart(p)
    BY <1>1, QuietApart DEF TypeOK, scanning
  <1>6. NotRead(p) \subseteq FilesOf(coll[p]) /\ \A f \in NotRead(p) : None \in held[f]
    BY <1>1, <1>4 DEF NotRead, ProcInv, ReadInv
  <1>7. ReadInv(p)' /\ FoundInv(p)'
    BY <1>2, <1>3, <1>4 DEF ProcInv, ReadInv, FoundInv
  <1>8. RowsInv(p)'
    BY <1>2, <1>3, <1>6 DEF RowsInv, FilesOf
  <1>9. WriteInv(p)' /\ CommandInv(p)'
    BY <1>1, <1>2, <1>3, <1>4 DEF ProcInv, WriteInv, Indexed, CommandInv, Sweeping
  <1> QED
    BY <1>5, <1>7, <1>8, <1>9, StepKeeps DEF ProcInv

LEMMA StoreRowPublish ==
  ASSUME TypeOK, ScanInv, PublishInv, NEW p \in Proc,
         pc[p] = "write", WaitsFor(p) = {}, ~WriteRaises(p), StoreRow(p)
  PROVE  Apart(p) /\ PublishInv'
  <1> DEFINE f == file[p]
             h == seen[p][f]
  <1> USE StoreAssumption
  <1>1. f \in FilesOf(coll[p]) /\ f \in File /\ h \in Hash
    BY FileType DEF ScanInv
  <1>2. /\ cur'[f] = IndexedRow(found[p], doc[f], h) /\ lock'[f] = p
        /\ \A g \in File \ {f} : cur'[g] = cur[g] /\ lock'[g] = lock[g]
    BY <1>1 DEF StoreRow, TypeOK
  <1>3. /\ UNCHANGED <<disk, held, doc, cstate, cdel, coll, op, rows, todo, file, found, seen>>
        /\ pc'[p] = "scan" /\ \A q \in Proc \ {p} : pc'[q] = pc[q]
    BY DEF StoreRow, TypeOK, disks, committed, job, scanning
  <1>4. lock[f] \in {None, p}
    BY <1>1 DEF WaitsFor, TypeOK
  <1>5. /\ found[p] = None => doc[f] = None
        /\ found[p] # None => doc[f] # None
    BY DEF WriteRaises
  <1>6. ProcInv(p) /\ h \in held[f]
    BY <1>1 DEF PublishInv, ProcInv, ReadInv
  <1>7. Apart(p)
    BY <1>1, <1>2, <1>3, <1>4 DEF Apart, disks
  <1>8. ReadInv(p)'
    <2>1. \A g \in todo[p] : lock'[g] # p
      BY <1>2, <1>6 DEF ProcInv, ReadInv, TypeOK
    <2> QED
      BY <1>3, <1>6, <2>1 DEF ProcInv, ReadInv, FilesOf
  <1>9. FoundInv(p)' /\ RowsInv(p)'
    BY <1>3 DEF FoundInv, RowsInv
  <1>10. CommandInv(p)' /\ op[p] \in Indexing
    BY <1>3, <1>6 DEF ProcInv, CommandInv, Sweeping
  <1>11. /\ cur'[f].hash \in held[f] \/ (doc[f] # None /\ cur'[f].hash = doc[f].hash)
         /\ Indexed(cur', f) \in held[f] \cup {Indexed(doc, f)}
    <2>0. cur'[f] \in Row /\ cur'[f] # None
      BY <1>1, <1>2, <1>5, IndexedRowType DEF TypeOK
    <2>1. CASE found[p] = None
      <3>1. cur'[f].hash = h /\ cur'[f].active
        BY <1>2, <2>1 DEF IndexedRow
      <3> QED
        BY <1>6, <2>0, <3>1 DEF Indexed
    <2>2. CASE found[p] # None /\ found[p].hash # h
      <3>1. cur'[f].hash = h /\ cur'[f].active = (doc[f].active \/ ~found[p].active)
        BY <1>2, <2>2 DEF IndexedRow
      <3>2. CASE cur'[f].active
        BY <1>6, <2>0, <3>1, <3>2 DEF Indexed
      <3>3. CASE ~cur'[f].active
        BY <1>6, <3>1, <3>3 DEF Indexed
      <3> QED
        BY <3>2, <3>3
    <2>3. CASE found[p] # None /\ found[p].hash = h
      <3>1. cur'[f].hash = doc[f].hash /\ cur'[f].active = (doc[f].active \/ ~found[p].active)
        BY <1>2, <2>3 DEF IndexedRow
      <3>2. doc[f].hash \in held[f] /\ ~found[p].active
        <4>1. FoundInv(p) /\ doc[f] # None
          BY <1>5, <1>6, <2>3 DEF ProcInv
        <4> QED
          BY <1>6, <2>3, <4>1 DEF FoundInv
      <3>3. cur'[f].hash = doc[f].hash /\ cur'[f].active
        BY <3>1, <3>2
      <3> QED
        BY <2>0, <3>2, <3>3 DEF Indexed
    <2> QED
      BY <2>1, <2>2, <2>3
  <1>12. WriteInv(p)'
    <2> SUFFICES ASSUME NEW g \in File, lock'[g] = p
                 PROVE  /\ cur'[g] # None => \/ cur'[g].hash \in held[g]
                                             \/ doc[g] # None /\ cur'[g].hash = doc[g].hash
                        /\ CollOf(g) = coll[p]
                        /\ Indexed(cur', g) \in held[g] \cup {Indexed(doc, g)}
      BY <1>3, <1>10 DEF WriteInv, Indexed, Indexing
    <2>1. CASE g = f
      BY <1>1, <1>11, <2>1 DEF FilesOf
    <2>2. CASE g # f
      <3>1. lock[g] = p /\ cur'[g] = cur[g]
        BY <1>2, <2>2
      <3>2. Indexed(cur', g) = Indexed(cur, g)
        BY <3>1 DEF Indexed
      <3> QED
        BY <1>6, <1>10, <3>1, <3>2 DEF ProcInv, WriteInv
    <2> QED
      BY <2>1, <2>2
  <1> QED
    BY <1>7, <1>8, <1>9, <1>10, <1>12, StepKeeps DEF ProcInv

-----------------------------------------------------------------------------
(* The statements on several rows, and on the collection.                  *)

LEMMA ChangeRowPublish ==
  ASSUME TypeOK, ScanInv, PublishInv, NEW p \in Proc, NEW f \in File, ChangeRow(p, f)
  PROVE  Apart(p) /\ PublishInv'
  <1> USE StoreAssumption
  <1>1. /\ UNCHANGED <<disk, held, doc, cstate, cdel, coll, op, todo, file, found, seen, pc>>
        /\ pc[p] = "rows" /\ f \in rows[p] /\ lock[f] \in {None, p}
        /\ rows' = [rows EXCEPT ![p] = @ \ {f}]
    BY DEF ChangeRow, disks, committed, job, scanning
  <1>2. rows'[p] \subseteq rows[p] /\ \A q \in Proc \ {p} : rows'[q] = rows[q]
    BY <1>1 DEF TypeOK
  <1>3. ProcInv(p) /\ op[p] \in Command
    BY <1>1 DEF PublishInv, ProcInv, CommandInv
  <1>4. CASE ~Changes(p, f)
    <2>1. UNCHANGED <<cur, lock>>
      BY <1>4 DEF ChangeRow
    <2>2. Apart(p)
      BY <1>1, <1>2, <2>1 DEF Apart, disks
    <2>3. ReadInv(p)' /\ FoundInv(p)' /\ RowsInv(p)'
      BY <1>1, <1>2, <1>3, <2>1 DEF ProcInv, ReadInv, FoundInv, RowsInv, FilesOf
    <2>4. WriteInv(p)' /\ CommandInv(p)'
      BY <1>1, <1>3, <2>1 DEF ProcInv, WriteInv, Indexed, CommandInv
    <2> QED
      BY <2>2, <2>3, <2>4, StepKeeps DEF ProcInv
  <1>5. CASE Changes(p, f)
    <2>1. /\ cur'[f] = ChangedRow(op[p], View(p, f)) /\ lock'[f] = p
          /\ \A g \in File \ {f} : cur'[g] = cur[g] /\ lock'[g] = lock[g]
          /\ View(p, f) # None /\ cur'[f] # View(p, f)
      BY <1>5 DEF ChangeRow, Changes, TypeOK
    <2>2. Apart(p)
      BY <1>1, <1>2, <2>1 DEF Apart, disks
    <2>3. ReadInv(p)' /\ FoundInv(p)' /\ RowsInv(p)' /\ CommandInv(p)'
      BY <1>1, <1>2, <1>3 DEF ProcInv, ReadInv, FoundInv, RowsInv, CommandInv, FilesOf
    <2>4. View(p, f).hash \in held[f] \/ (doc[f] # None /\ View(p, f).hash = doc[f].hash)
      BY <1>3, <2>1 DEF View, ProcInv, WriteInv
    <2>5. WriteInv(p)'
      <3> SUFFICES ASSUME NEW g \in File, lock'[g] = p
                   PROVE  /\ cur'[g] # None => \/ cur'[g].hash \in held[g]
                                               \/ doc[g] # None /\ cur'[g].hash = doc[g].hash
                          /\ op[p] \in Indexing \cup Removing => CollOf(g) = coll[p]
                          /\ op[p] \in Indexing =>
                               Indexed(cur', g) \in held[g] \cup {Indexed(doc, g)}
                          /\ op[p] \notin Indexing => cur'[g] = None
                          /\ op[p] = "cleanup" => Indexed(doc, g) = None
        BY <1>1 DEF WriteInv, Indexed
      <3>1. CASE g # f
        <4>1. lock[g] = p /\ cur'[g] = cur[g]
          BY <2>1, <3>1
        <4>2. Indexed(cur', g) = Indexed(cur, g)
          BY <4>1 DEF Indexed
        <4> QED
          BY <1>3, <4>1, <4>2 DEF ProcInv, WriteInv
      <3>2. CASE g = f /\ op[p] \in Indexing
        <4>1. cur'[f].hash = View(p, f).hash /\ ~cur'[f].active
          BY <2>1, <3>2 DEF ChangedRow, Indexing
        <4>2. Indexed(cur', f) = None
          BY <4>1 DEF Indexed
        <4>3. None \in held[f] /\ CollOf(f) = coll[p]
          BY <1>1, <1>3, <3>2 DEF ProcInv, RowsInv, FilesOf
        <4> QED
          BY <2>4, <3>2, <4>1, <4>2, <4>3 DEF Indexing
      <3>3. CASE g = f /\ op[p] \in Removing
        <4>1. cur'[f] = None
          BY <2>1, <3>3 DEF ChangedRow, Removing
        <4>2. CollOf(f) = coll[p]
          BY <1>1, <1>3, <3>3 DEF ProcInv, RowsInv, FilesOf
        <4> QED
          BY <3>3, <4>1, <4>2 DEF Indexing, Removing
      <3>4. CASE g = f /\ op[p] = "cleanup"
        <4>1. cur'[f] = None /\ ~View(p, f).active
          BY <2>1, <3>4 DEF ChangedRow
        <4>2. View(p, f) = doc[f]
          BY <1>3, <2>1, <3>4 DEF View, ProcInv, WriteInv, Indexing
        <4> QED
          BY <3>4, <4>1, <4>2 DEF Indexed, Indexing, Removing
      <3> QED
        BY <1>3, <3>1, <3>2, <3>3, <3>4 DEF Command, Indexing, Removing
    <2> QED
      BY <2>2, <2>3, <2>5, StepKeeps DEF ProcInv
  <1> QED
    BY <1>4, <1>5

LEMMA DropPublish ==
  ASSUME TypeOK, ScanInv, LinkInv, PublishInv, NEW p \in Proc, DropCollection(p)
  PROVE  Apart(p) /\ PublishInv'
  <1>1. CASE CollectionInUse(p)
    BY <1>1, RollbackPublish DEF DropCollection
  <1>2. CASE ~CollectionInUse(p)
    <2>1. /\ UNCHANGED <<disk, held, doc, cur, lock, cstate, coll, op, todo, file, found,
                         seen, rows>>
          /\ cdel' = IF cstate[coll[p]] = "live" THEN cdel \cup {p} ELSE cdel
          /\ pc' = [pc EXCEPT ![p] = "sweep"] /\ pc[p] = "drop"
      BY <1>2 DEF DropCollection, disks, committed, job, scanning
    <2>2. pc'[p] = "sweep" /\ \A q \in Proc \ {p} : pc'[q] = pc[q]
      BY <2>1 DEF TypeOK
    <2>3. ProcInv(p)
      BY DEF PublishInv
    <2>4. Apart(p)
      BY <2>1, <2>2 DEF Apart, disks
    <2>5. ReadInv(p)' /\ FoundInv(p)' /\ RowsInv(p)' /\ WriteInv(p)'
      BY <2>1, <2>2, <2>3 DEF ProcInv, ReadInv, FoundInv, RowsInv, WriteInv, Indexed
    <2>6. coll[p] \in Coll /\ op[p] \in Removing /\ cstate[coll[p]] # "unused"
      BY <2>1, <2>3 DEF ProcInv, CommandInv, Removing
    <2>7. cstate[coll[p]] \in {"live", "removed"}
      BY <2>6 DEF TypeOK
    <2>8. CommandInv(p)'
      BY <2>1, <2>2, <2>3, <2>6, <2>7 DEF ProcInv, CommandInv
    <2> QED
      BY <2>4, <2>5, <2>8, StepKeeps DEF ProcInv
  <1> QED
    BY <1>1, <1>2

LEMMA UndoPublish ==
  ASSUME TypeOK, ScanInv, LinkInv, PublishInv, NEW p \in Proc, Undo(p)
  PROVE  Apart(p) /\ PublishInv'
  <1>1. /\ UNCHANGED <<disk, held, doc, cur, lock, cstate, cdel, coll, todo, file, found, seen>>
        /\ op' = [op EXCEPT ![p] = "undo"] /\ pc[p] = "undo"
    BY DEF Undo, disks, committed, locks, scanning
  <1>2. op'[p] = "undo" /\ \A q \in Proc \ {p} : op'[q] = op[q]
    BY <1>1 DEF TypeOK
  <1>3. /\ p \notin cdel /\ \A f \in File : lock[f] # p
        /\ ProcInv(p)
    BY <1>1 DEF LinkInv, RestInv, AtRest, PublishInv
  <1>4. /\ \/ pc'[p] = "rows" /\ rows'[p] \subseteq FilesOf(coll[p])
           \/ pc'[p] = "idle"
        /\ \A q \in Proc \ {p} : pc'[q] = pc[q] /\ rows'[q] = rows[q]
    <2>1. CASE /\ pc' = [pc EXCEPT ![p] = "rows"]
               /\ rows' = [rows EXCEPT ![p] = {f \in FilesOf(coll[p]) : doc[f] # None}]
      BY <2>1 DEF TypeOK
    <2>2. CASE pc' = [pc EXCEPT ![p] = "idle"] /\ UNCHANGED rows
      BY <2>2 DEF TypeOK
    <2> QED
      BY <2>1, <2>2 DEF Undo
  <1>5. Apart(p)
    BY <1>1, <1>2, <1>4 DEF Apart, disks
  <1>6. ReadInv(p)' /\ FoundInv(p)' /\ WriteInv(p)'
    BY <1>1, <1>3, <1>4 DEF ProcInv, ReadInv, FoundInv, WriteInv
  <1>7. RowsInv(p)'
    BY <1>1, <1>2, <1>4 DEF RowsInv, FilesOf, Indexing
  <1>8. CommandInv(p)'
    BY <1>1, <1>2, <1>3, <1>4 DEF ProcInv, CommandInv, Command, Removing, Sweeping, Indexing
  <1> QED
    BY <1>5, <1>6, <1>7, <1>8, StepKeeps DEF ProcInv

-----------------------------------------------------------------------------
(* Starting a command, and every step.                                     *)

LEMMA StartPublish ==
  ASSUME TypeOK, ScanInv, LinkInv, PublishInv, NEW p \in Proc, NEW o \in Command,
         NEW c \in Coll \cup {None}, NEW l \in {"resolve", "rows"},
         Start(p, o, c), pc' = [pc EXCEPT ![p] = l],
         o # "cleanup" => c \in Coll /\ cstate'[c] = "live",
         IF l = "resolve" THEN o \in Indexing ELSE o \in {"remove", "cleanup"},
         l = "rows" /\ o = "remove" => rows'[p] \subseteq FilesOf(c),
         \A q \in Proc \ {p} : rows'[q] = rows[q],
         \A d \in Coll : cstate'[d] = cstate[d] \/ (cstate[d] = "unused" /\ cstate'[d] = "live")
  PROVE  Apart(p) /\ PublishInv'
  <1> USE StoreAssumption
  <1>1. /\ UNCHANGED <<disk, held, doc, cur, lock, cdel, todo, file, found, seen>>
        /\ op' = [op EXCEPT ![p] = o] /\ coll' = [coll EXCEPT ![p] = c] /\ pc[p] = "idle"
    BY DEF Start, Running, disks, locks, scanning
  <1>2. /\ pc'[p] = l /\ op'[p] = o /\ coll'[p] = c
        /\ \A q \in Proc \ {p} : pc'[q] = pc[q] /\ op'[q] = op[q] /\ coll'[q] = coll[q]
    BY <1>1 DEF TypeOK
  <1>3. /\ p \notin cdel /\ \A f \in File : lock[f] # p
        /\ ProcInv(p)
    BY <1>1 DEF LinkInv, RestInv, AtRest, PublishInv
  <1>4. \A q \in cdel \ {p} : cstate'[coll[q]] = cstate[coll[q]]
    <2> SUFFICES ASSUME NEW q \in cdel \ {p}
                 PROVE  cstate'[coll[q]] = cstate[coll[q]]
      OBVIOUS
    <2>1. q \in Proc /\ pc[q] \in {"sweep", "sweeping", "commit"}
      BY DEF LinkInv, DropInv, TypeOK
    <2>2. CommandInv(q)
      BY <2>1 DEF PublishInv, ProcInv
    <2>3. cstate[coll[q]] = "live" /\ coll[q] \in Coll
      BY <2>1, <2>2 DEF CommandInv, Removing
    <2> QED
      BY <2>3
  <1>5. Apart(p)
    BY <1>1, <1>2, <1>4 DEF Apart, disks
  <1>6. ReadInv(p)' /\ FoundInv(p)' /\ WriteInv(p)'
    BY <1>1, <1>2, <1>3 DEF ProcInv, ReadInv, FoundInv, WriteInv
  <1>7. RowsInv(p)'
    BY <1>1, <1>2 DEF RowsInv, FilesOf, Indexing, Removing
  <1>8. CommandInv(p)'
    BY <1>1, <1>2, <1>3 DEF CommandInv, Removing, Sweeping, Indexing
  <1> QED
    BY <1>5, <1>6, <1>7, <1>8, StepKeeps DEF ProcInv

LEMMA EditPublish ==
  ASSUME TypeOK, ScanInv, PublishInv, NEW f \in File, NEW v \in Hash \cup {None}, Edit(f, v)
  PROVE  PublishInv'
  <1>1. /\ disk'[f] = v /\ held'[f] = held[f] \cup {v}
        /\ \A g \in File \ {f} : disk'[g] = disk[g] /\ held'[g] = held[g]
    BY DEF Edit, TypeOK
  <1>2. UNCHANGED <<doc, cur, lock, cstate, cdel, op, coll, pc, todo, file, found, seen, rows>>
    BY DEF Edit, committed, locks, job, scanning
  <1>3. \A g \in File : disk'[g] \in held'[g] /\ held[g] \subseteq held'[g]
    BY <1>1 DEF PublishInv
  <1> SUFFICES ASSUME NEW p \in Proc
               PROVE  ProcInv(p)'
    BY <1>3 DEF PublishInv
  <1>4. ProcInv(p) /\ (pc[p] \in {"body", "write"} => file[p] \in File) /\ rows[p] \subseteq File
    BY FileType DEF PublishInv, TypeOK
  <1>5. ReadInv(p)'
    BY <1>2, <1>3, <1>4 DEF ProcInv, ReadInv, FilesOf
  <1>6. FoundInv(p)' /\ RowsInv(p)'
    BY <1>2, <1>3, <1>4 DEF ProcInv, FoundInv, RowsInv, FilesOf
  <1>7. WriteInv(p)' /\ CommandInv(p)'
    BY <1>2, <1>3, <1>4 DEF ProcInv, WriteInv, Indexed, CommandInv
  <1> QED
    BY <1>5, <1>6, <1>7 DEF ProcInv

LEMMA StatementPublish ==
  ASSUME TypeOK, ScanInv, LinkInv, PublishInv, NEW p \in Proc, Statement(p)
  PROVE  Apart(p) /\ PublishInv'
  <1>1. CASE InsertContent(p)
    BY <1>1, MovePublish DEF InsertContent, committed, job, rowsAndKeys, Location
  <1>2. CASE WriteDocument(p)
    BY <1>2, RollbackPublish, StoreRowPublish DEF WriteDocument
  <1>3. CASE RowsChanged(p)
    <2>1. UNCHANGED <<disks, rowsAndKeys, op, scanning, rows>> /\ pc[p] = "rows"
      BY <1>3 DEF RowsChanged, committed, locks, job, rowsAndKeys
    <2>2. CASE op[p] \in Removing
      <3>1. pc' = [pc EXCEPT ![p] = "drop"]
        BY <1>3, <2>2 DEF RowsChanged, Removing
      <3> QED
        BY <2>1, <2>2, <3>1, MovePublish DEF Location
    <2>3. CASE op[p] \notin Removing
      <3>1. pc' = [pc EXCEPT ![p] = "sweep"]
        BY <1>3, <2>3 DEF RowsChanged, Removing
      <3> QED
        BY <2>1, <2>3, <3>1, MovePublish DEF Location
    <2> QED
      BY <2>2, <2>3
  <1>4. CASE BeginSweep(p)
    BY <1>4, MovePublish DEF BeginSweep, committed, locks, job, rowsAndKeys, Location
  <1>5. CASE \E h \in Hash : SweepOne(p, h)
    <2>1. UNCHANGED <<disks, rowsAndKeys, op, scanning, rows>> /\ pc[p] = "sweeping"
      BY <1>5 DEF SweepOne, committed, job, rowsAndKeys
    <2>2. pc' = [pc EXCEPT ![p] = "sweeping"]
      BY <1>5, <2>1 DEF SweepOne, TypeOK
    <2> QED
      BY <2>1, <2>2, MovePublish DEF Location
  <1>6. CASE EndSweep(p)
    <2>1. CASE ContentInUse(p)
      BY <1>6, <2>1, RollbackPublish DEF EndSweep
    <2>2. CASE ~ContentInUse(p)
      BY <1>6, <2>2, MovePublish DEF EndSweep, committed, locks, job, rowsAndKeys, Location
    <2> QED
      BY <2>1, <2>2
  <1> QED
    BY <1>1, <1>2, <1>3, <1>4, <1>5, <1>6, ResolvePublish, LookAtPublish, ListActivePublish,
       ChangeRowPublish, DropPublish, UndoPublish, CommitPublish DEF Statement

LEMMA NextPublish ==
  ASSUME TypeOK, ScanInv, LinkInv, PublishInv, [Next]_vars
  PROVE  PublishInv'
  <1> USE StoreAssumption
  <1>1. ASSUME NEW p \in Proc, DeadlockAbort(p)
        PROVE  PublishInv'
    <2>1. PICK S \in SUBSET Proc : p \in S /\ Knot(S)
      BY <1>1 DEF DeadlockAbort, Deadlocked
    <2>2. WaitsFor(p) # {}
      BY <2>1 DEF Knot
    <2>3. pc[p] # "idle"
      BY <2>2 DEF WaitsFor
    <2> QED
      BY <1>1, <2>3, RollbackPublish DEF DeadlockAbort
  <1>2. ASSUME NEW p \in Proc, Crash(p)
        PROVE  PublishInv'
    <2>1. Forget(p) /\ UNCHANGED <<op, coll>> /\ pc' = [pc EXCEPT ![p] = "idle"] /\ pc[p] # "idle"
      BY <1>2 DEF Crash, job, Running
    <2>2. pc'[p] = "idle" /\ \A q \in Proc \ {p} : pc'[q] = pc[q]
      BY <2>1 DEF TypeOK
    <2> QED
      BY <2>1, <2>2, ForgetPublish
  <1>3. ASSUME NEW p \in Proc, NEW c \in Coll, StartReindex(p, c)
        PROVE  PublishInv'
    BY <1>3, StartPublish DEF StartReindex, Command, Indexing
  <1>4. ASSUME NEW p \in Proc, NEW c \in Coll, StartAdd(p, c)
        PROVE  PublishInv'
    <2>1. /\ cstate'[c] = "live" /\ cstate[c] = "unused"
          /\ \A d \in Coll \ {c} : cstate'[d] = cstate[d]
      BY <1>4 DEF StartAdd, TypeOK
    <2> QED
      BY <1>4, <2>1, StartPublish DEF StartAdd, Command, Indexing
  <1>5. ASSUME NEW p \in Proc, NEW c \in Coll, StartRemove(p, c)
        PROVE  PublishInv'
    <2>1. rows'[p] \subseteq FilesOf(c) /\ \A q \in Proc \ {p} : rows'[q] = rows[q]
      BY <1>5 DEF StartRemove, TypeOK
    <2> QED
      BY <1>5, <2>1, StartPublish DEF StartRemove, Command
  <1>6. ASSUME NEW p \in Proc, StartCleanup(p)
        PROVE  PublishInv'
    <2>1. \A q \in Proc \ {p} : rows'[q] = rows[q]
      BY <1>6 DEF StartCleanup, TypeOK
    <2> QED
      BY <1>6, <2>1, StartPublish DEF StartCleanup, Command
  <1>7. CASE UNCHANGED vars
    BY <1>7 DEF vars, disks, committed, locks, job, scanning, PublishInv, ProcInv, ReadInv,
       FoundInv, RowsInv, WriteInv, CommandInv, FilesOf, Indexed
  <1>8. CASE Next
    BY <1>1, <1>2, <1>3, <1>4, <1>5, <1>6, <1>7, <1>8, StatementPublish, EditPublish
    DEF Next, Rest
  <1> QED
    BY <1>7, <1>8

-----------------------------------------------------------------------------
(* Every step is a step of Catalog, or changes nothing a reader can see.   *)

index == [f \in File |-> Indexed(doc, f)]

LEMMA IndexType ==
  ASSUME NEW D \in [File -> Row \cup {None}], NEW f \in File
  PROVE  Indexed(D, f) \in Hash \cup {None}
  BY DEF Indexed, Row

LEMMA InitCatalog == Init => Cat!Init
  <1> SUFFICES ASSUME Init
               PROVE  Cat!Init
    OBVIOUS
  <1>1. index \in [File -> Hash \cup {None}]
    BY IndexType DEF Init, index
  <1>2. \A f \in File : index[f] # None => cstate[f[1]] = "live"
    BY DEF Init, index, Indexed, CollOf
  <1>3. cstate \in [Coll -> {"unused", "live"}]
    BY DEF Init
  <1> QED
    BY <1>1, <1>2, <1>3 DEF Init, Cat!Init, Cat!Owner, index

\* The commit of a reindex.
LEMMA PublishCatalog ==
  ASSUME TypeOK, LinkInv, PublishInv, NEW p \in Proc, Commit(p), op[p] \in Indexing
  PROVE  [Cat!Next]_(Cat!vars)
  <1> USE CommitRows
  <1>1. ProcInv(p)
    BY DEF PublishInv
  <1>2. p \notin cdel
    BY <1>1 DEF ProcInv, CommandInv, Indexing, Removing
  <1>3. UNCHANGED <<disk, held, cstate>>
    BY <1>2
  <1>4. doc' \in [File -> Row \cup {None}]
    BY ViewType DEF Commit
  <1>5. index' \in [File -> Hash \cup {None}]
    BY <1>4, IndexType DEF index
  <1>6. ASSUME NEW f \in File, index'[f] # index[f]
        PROVE  /\ CollOf(f) = coll[p] /\ index'[f] \in held[f]
               /\ coll[p] \in Coll /\ cstate[coll[p]] = "live"
    <2>1. lock[f] = p /\ doc'[f] = cur[f]
      BY <1>6 DEF index, Indexed
    <2>2. /\ index'[f] = Indexed(cur, f) /\ index[f] = Indexed(doc, f)
      BY <2>1 DEF index, Indexed
    <2>3. CollOf(f) = coll[p] /\ Indexed(cur, f) \in held[f]
      BY <1>1, <1>6, <2>1, <2>2 DEF ProcInv, WriteInv
    <2>4. CASE doc[f] = None
      <3>1. cur[f] # None /\ lock[f] # None
        BY <1>6, <2>1, <2>2, <2>4, StoreAssumption DEF Indexed
      <3>2. p \in cshare
        BY <2>1, <2>4, <3>1 DEF LinkInv, AddInv
      <3> QED
        BY <2>2, <2>3, <3>2 DEF LinkInv, HeldInv
    <2>5. CASE doc[f] # None
      <3>1. CollOf(f) \in Coll
        BY StoreAssumption DEF CollOf
      <3> QED
        BY <2>2, <2>3, <2>5, <3>1 DEF LinkInv, NoOrphanDocument
    <2> QED
      BY <2>4, <2>5
  <1>7. CASE index' = index
    BY <1>3, <1>7 DEF Cat!vars, index
  <1>8. CASE index' # index
    <2>1. PICK f \in File : index'[f] # index[f]
      BY <1>5, <1>8 DEF index
    <2>2. coll[p] \in Coll /\ cstate[coll[p]] = "live"
      BY <1>6, <2>1
    <2>3. Cat!Publish(coll[p])
      BY <1>3, <1>5, <1>6, <2>2 DEF Cat!Publish, Cat!Owner, CollOf, index
    <2> QED
      BY <2>2, <2>3 DEF Cat!Next
  <1> QED
    BY <1>7, <1>8

\* The commit of a removal, and of the one that takes a failed add back.
LEMMA RetireCatalog ==
  ASSUME TypeOK, LinkInv, PublishInv, NEW p \in Proc, Commit(p), op[p] \in Removing
  PROVE  [Cat!Next]_(Cat!vars)
  <1> USE CommitRows
  <1>1. ProcInv(p)
    BY DEF PublishInv
  <1>2. coll[p] \in Coll
    BY <1>1 DEF ProcInv, CommandInv, Removing
  <1>3. \A f \in File : lock[f] = p => CollOf(f) = coll[p] /\ cur[f] = None
    BY <1>1 DEF ProcInv, WriteInv, Indexing, Removing
  <1>4. CASE p \in cdel
    <2>1. cstate[coll[p]] = "live" /\ cstate' = [cstate EXCEPT ![coll[p]] = "removed"]
      BY <1>1, <1>4 DEF ProcInv, CommandInv
    <2>2. ASSUME NEW f \in File
          PROVE  index'[f] = IF CollOf(f) = coll[p] THEN None ELSE index[f]
      <3>1. CASE CollOf(f) = coll[p]
        <4>1. View(p, f) = None
          BY <1>4, <3>1 DEF LinkInv, DropInv, FilesOf
        <4>2. doc'[f] = None
          BY <4>1 DEF View
        <4> QED
          BY <3>1, <4>2 DEF index, Indexed
      <3>2. CASE CollOf(f) # coll[p]
        <4>1. doc'[f] = doc[f]
          BY <1>3, <3>2
        <4> QED
          BY <3>2, <4>1 DEF index, Indexed
      <3> QED
        BY <3>1, <3>2
    <2>3. index' = [f \in File |-> IF CollOf(f) = coll[p] THEN None ELSE index[f]]
      BY <2>2 DEF index
    <2>4. Cat!Retire(coll[p])
      BY <2>1, <2>3 DEF Cat!Retire, Cat!Owner, CollOf, index
    <2> QED
      BY <1>2, <2>4 DEF Cat!Next
  <1>5. CASE p \notin cdel
    <2>1. cstate' = cstate /\ cstate[coll[p]] = "removed"
      BY <1>1, <1>5 DEF ProcInv, CommandInv, Sweeping
    <2>2. \A f \in File : doc'[f] = doc[f]
      <3> SUFFICES ASSUME NEW f \in File, lock[f] = p
                   PROVE  doc'[f] = doc[f]
        OBVIOUS
      <3>1. doc[f] = None
        BY <1>3, <2>1 DEF LinkInv, NoOrphanDocument
      <3> QED
        BY <1>3, <3>1
    <2>3. index' = index
      BY <2>2 DEF index, Indexed
    <2> QED
      BY <2>1, <2>3 DEF Cat!vars, index
  <1> QED
    BY <1>4, <1>5

\* The commit of `cleanup`.
LEMMA CleanupCatalog ==
  ASSUME TypeOK, LinkInv, PublishInv, NEW p \in Proc, Commit(p), op[p] = "cleanup"
  PROVE  UNCHANGED Cat!vars
  <1> USE CommitRows
  <1>1. ProcInv(p)
    BY DEF PublishInv
  <1>2. p \notin cdel
    BY <1>1 DEF ProcInv, CommandInv, Removing
  <1>3. ASSUME NEW f \in File
        PROVE  Indexed(doc', f) = Indexed(doc, f)
    <2>1. CASE lock[f] = p
      BY <1>1, <2>1 DEF ProcInv, WriteInv, Indexed, Indexing
    <2>2. CASE lock[f] # p
      BY <2>2 DEF Indexed
    <2> QED
      BY <2>1, <2>2
  <1>4. index' = index
    BY <1>3 DEF index
  <1> QED
    BY <1>2, <1>4 DEF Cat!vars, index

LEMMA StepCatalog ==
  ASSUME TypeOK, LinkInv, PublishInv, [Next]_vars
  PROVE  [Cat!Next]_(Cat!vars)
  <1>1. ASSUME UNCHANGED <<disks, cstate, doc>>
        PROVE  UNCHANGED Cat!vars
    BY <1>1 DEF Cat!vars, disks, Indexed
  <1>2. ASSUME NEW p \in Proc, Rollback(p)
        PROVE  UNCHANGED <<disks, cstate, doc>>
    BY <1>2 DEF Rollback, Forget, committed
  <1>3. ASSUME NEW p \in Proc, Commit(p)
        PROVE  [Cat!Next]_(Cat!vars)
    <2>1. op[p] \in Command
      BY <1>3 DEF Commit, PublishInv, ProcInv, CommandInv
    <2> QED
      BY <1>3, <2>1, PublishCatalog, RetireCatalog, CleanupCatalog
      DEF Command, Indexing, Removing
  <1>4. ASSUME NEW p \in Proc, Statement(p), ~Commit(p)
        PROVE  UNCHANGED <<disks, cstate, doc>>
    BY <1>2, <1>4 DEF Statement, Resolve, LookAt, InsertContent, WriteDocument, StoreRow,
       ListActive, ChangeRow, RowsChanged, DropCollection, BeginSweep, SweepOne, EndSweep,
       Undo, committed
  <1>5. ASSUME NEW p \in Proc, NEW c \in Coll, StartAdd(p, c)
        PROVE  Cat!Next
    <2>1. cstate[c] = "unused" /\ cstate' = [cstate EXCEPT ![c] = "live"]
          /\ UNCHANGED <<disks, doc>>
      BY <1>5 DEF StartAdd, Start
    <2>2. Cat!Create(c)
      BY <2>1 DEF Cat!Create, disks, Indexed
    <2> QED
      BY <2>2 DEF Cat!Next
  <1>6. ASSUME NEW f \in File, NEW v \in Hash \cup {None}, Edit(f, v)
        PROVE  Cat!Next
    <2>1. Cat!Edit(f, v)
      BY <1>6 DEF Edit, Cat!Edit, committed, Indexed
    <2> QED
      BY <2>1 DEF Cat!Next
  <1>7. ASSUME NEW p \in Proc,
               \/ DeadlockAbort(p) \/ Crash(p) \/ StartCleanup(p)
               \/ \E c \in Coll : StartReindex(p, c) \/ StartRemove(p, c)
        PROVE  UNCHANGED <<disks, cstate, doc>>
    BY <1>2, <1>7 DEF DeadlockAbort, Crash, Forget, StartCleanup, StartReindex, StartRemove,
       Start, committed
  <1>8. CASE UNCHANGED vars
    BY <1>1, <1>8 DEF vars, committed
  <1>9. CASE Next
    BY <1>1, <1>3, <1>4, <1>5, <1>6, <1>7, <1>8, <1>9 DEF Next, Rest
  <1> QED
    BY <1>8, <1>9

LEMMA InitPublish == Init => TypeOK /\ ScanInv /\ LinkInv /\ PublishInv
  <1> SUFFICES ASSUME Init
               PROVE  TypeOK /\ ScanInv /\ LinkInv /\ PublishInv
    OBVIOUS
  <1>1. TypeOK /\ ScanInv
    BY InitType DEF Init, ScanInv
  <1>2. AddInv /\ HeldInv /\ DropInv /\ RestInv /\ NoOrphanDocument
    BY StoreAssumption DEF Init, AddInv, HeldInv, DropInv, RestInv, NoOrphanDocument
  <1>3. \A f \in File : disk[f] \in held[f]
    BY DEF Init
  <1>4. \A p \in Proc : ReadInv(p) /\ FoundInv(p) /\ RowsInv(p)
    BY DEF Init, ReadInv, FoundInv, RowsInv
  <1>5. \A p \in Proc : WriteInv(p) /\ CommandInv(p)
    BY StoreAssumption DEF Init, WriteInv, CommandInv, Sweeping
  <1> QED
    BY <1>1, <1>2, <1>3, <1>4, <1>5 DEF LinkInv, PublishInv, ProcInv

\* Whatever the commands do to each other, a reader of the index sees only what
\* Catalog allows: bodies the files have had, one collection at a time, nothing
\* from a cleanup or a failure, and no way back for a removed collection.
THEOREM StoreImplementsCatalog == Spec => ImplementsCatalog
  <1>1. Init => TypeOK /\ ScanInv /\ LinkInv /\ PublishInv
    BY InitPublish
  <1>2. TypeOK /\ ScanInv /\ LinkInv /\ PublishInv /\ [Next]_vars =>
          (TypeOK /\ ScanInv /\ LinkInv /\ PublishInv)'
    BY NextType, NextScan, NextLinks, NextPublish
  <1>3. TypeOK /\ LinkInv /\ PublishInv /\ [Next]_vars => [Cat!Next]_(Cat!vars)
    BY StepCatalog
  <1> QED
    BY <1>1, <1>2, <1>3, InitCatalog, PTL DEF Spec, ImplementsCatalog, Cat!Spec

-----------------------------------------------------------------------------
(* Overlap.                                                                *)

\* A command under way knows the target of every other one.
RivalInv ==
  \A p \in Proc, q \in Proc :
    p # q /\ Running(p) /\ Running(q) => coll[q] \in rivals[p]

\* A process between transactions has touched no body, and the outcome of a
\* command is open while it runs.
SessionInv ==
  \A p \in Proc :
    /\ pc[p] \in AtRest => ins[p] = {} /\ del[p] = {} /\ share[p] = {}
    /\ Running(p) => outcome[p] = "running"

-----------------------------------------------------------------------------
(* A reindex no other command on its collection overlaps.                  *)

\* What a reader would see of f if p committed now.
Shown(p, f) ==
  IF View(p, f) # None /\ View(p, f).active THEN View(p, f).hash ELSE None

Unrivalled(p) ==
  /\ op[p] \in Indexing /\ pc[p] \in {"scan", "body", "write", "rows"} \cup Sweeping
  /\ coll[p] \notin rivals[p]

\* The row it has SELECTed is still there, or `cleanup` has deleted it.  The
\* files it has read and done with show the body read, and those that were not
\* there show nothing once the vanished ones are deactivated.
DoneInv(p) ==
  Unrivalled(p) =>
    /\ pc[p] \in {"body", "write"} /\ found[p] # None /\ doc[file[p]] # None =>
         doc[file[p]] = found[p]
    /\ \A f \in todo[p] : seen[p][f] = None
    /\ \A f \in FilesOf(coll[p]) \ todo[p] :
         seen[p][f] # None /\ ~(pc[p] \in {"body", "write"} /\ f = file[p]) =>
           Shown(p, f) = seen[p][f]
    /\ pc[p] \in {"rows"} \cup Sweeping =>
         /\ todo[p] = {}
         /\ \A f \in FilesOf(coll[p]) :
              seen[p][f] = None => Shown(p, f) = None \/ (pc[p] = "rows" /\ f \in rows[p])
    /\ pc[p] = "rows" => \A f \in rows[p] : seen[p][f] = None

-----------------------------------------------------------------------------
(* A command nothing overlaps.                                             *)

Solo(p) == Running(p) /\ rivals[p] = {}

\* It deletes exactly what nobody refers to.
SweepInv(p) ==
  /\ pc[p] \notin {"sweeping", "commit"} => del[p] = {}
  /\ Solo(p) /\ pc[p] = "sweeping" => victims[p] \cup del[p] = Orphans(p)
  /\ Solo(p) /\ pc[p] = "commit" => del[p] = Orphans(p)

\* Its collection stays, its row stays, its body stays, and it deletes every
\* document before it deletes the collection.
SoloInv(p) ==
  Solo(p) =>
    /\ op[p] # "cleanup" => cstate[coll[p]] = "live"
    /\ pc[p] \in {"body", "write"} => found[p] = doc[file[p]] /\ p \notin stale
    /\ pc[p] = "write" /\ NewReference(p) => seen[p][file[p]] \in content \cup ins[p]
    /\ op[p] \in Removing /\ pc[p] \in {"rows", "drop"} =>
         \A f \in FilesOf(coll[p]) : View(p, f) # None => pc[p] = "rows" /\ f \in rows[p]

-----------------------------------------------------------------------------
(* Overlap is known, and sessions at rest hold nothing.                    *)

\* A process under way takes a step, dies, or is rolled back.
Turn(p) == Statement(p) \/ DeadlockAbort(p) \/ Crash(p)

LEMMA WaitingRuns ==
  ASSUME NEW p \in Proc, Deadlocked(p)
  PROVE  WaitsFor(p) # {} /\ pc[p] \in {"body", "write", "rows", "drop", "sweeping"}
  <1>1. PICK S \in SUBSET Proc : p \in S /\ Knot(S)
    BY DEF Deadlocked
  <1>2. WaitsFor(p) # {}
    BY <1>1 DEF Knot
  <1> QED
    BY <1>2 DEF WaitsFor

\* Which command p is at, on what, and who overlaps it, a turn leaves alone.
LEMMA TurnJob ==
  ASSUME NEW p \in Proc, Turn(p)
  PROVE  pc[p] # "idle" /\ UNCHANGED <<coll, rivals>> /\ (pc[p] # "undo" => UNCHANGED op)
  <1>1. CASE Statement(p)
    BY <1>1 DEF Statement, Resolve, LookAt, InsertContent, WriteDocument, StoreRow,
       ListActive, ChangeRow, RowsChanged, DropCollection, BeginSweep, SweepOne, EndSweep,
       Undo, Commit, Rollback, job
  <1>2. CASE DeadlockAbort(p)
    BY <1>2, WaitingRuns DEF DeadlockAbort, Rollback, job
  <1>3. CASE Crash(p)
    BY <1>3 DEF Crash, Running, job
  <1> QED
    BY <1>1, <1>2, <1>3 DEF Turn

\* How a turn can end: the transaction goes on, or is over.
LEMMA TurnEnds ==
  ASSUME TypeOK, ScanInv, LinkInv, PublishInv, NEW p \in Proc, Turn(p)
  PROVE  Apart(p)
  <1>1. CASE Statement(p)
    BY <1>1, StatementPublish
  <1>2. CASE DeadlockAbort(p)
    BY <1>2, WaitingRuns, RollbackPublish DEF DeadlockAbort
  <1>3. CASE Crash(p)
    <2>1. Forget(p) /\ UNCHANGED <<op, coll>> /\ pc' = [pc EXCEPT ![p] = "idle"] /\ pc[p] # "idle"
      BY <1>3 DEF Crash, job, Running
    <2>2. pc'[p] = "idle" /\ \A q \in Proc \ {p} : pc'[q] = pc[q]
      BY <2>1 DEF TypeOK
    <2> QED
      BY <2>1, <2>2, ForgetPublish
  <1> QED
    BY <1>1, <1>2, <1>3 DEF Turn

\* What a step that starts no command is.
LEMMA NextTurn ==
  ASSUME [Next]_vars
  PROVE  \/ \E p \in Proc : Turn(p)
         \/ \E p \in Proc, c \in Coll : StartReindex(p, c) \/ StartAdd(p, c) \/ StartRemove(p, c)
         \/ \E p \in Proc : StartCleanup(p)
         \/ \E f \in File, v \in Hash \cup {None} : Edit(f, v)
         \/ UNCHANGED vars
  BY DEF Next, Rest, Turn

LEMMA StartRivals ==
  ASSUME TypeOK, RivalInv, NEW p \in Proc, NEW o, NEW c \in Coll \cup {None}, Start(p, o, c),
         NEW l \in Location, pc' = [pc EXCEPT ![p] = l]
  PROVE  RivalInv'
  <1>1. /\ \A q \in Proc \ {p} : pc'[q] = pc[q] /\ coll'[q] = coll[q]
        /\ coll'[p] = c
    BY DEF Start, TypeOK
  <1>2. /\ rivals'[p] = {coll[r] : r \in {s \in Proc : Running(s)}}
        /\ \A q \in Proc \ {p} : rivals'[q] = IF Running(q) THEN rivals[q] \cup {c} ELSE rivals[q]
    BY DEF Start
  <1> QED
    BY <1>1, <1>2 DEF RivalInv, Running

LEMMA NextRivals ==
  ASSUME TypeOK, ScanInv, LinkInv, PublishInv, RivalInv, [Next]_vars
  PROVE  RivalInv'
  <1>1. ASSUME NEW p \in Proc, Turn(p)
        PROVE  RivalInv'
    BY <1>1, TurnJob, TurnEnds DEF Apart, RivalInv, Running
  <1>2. ASSUME NEW p \in Proc, NEW c \in Coll,
               StartReindex(p, c) \/ StartAdd(p, c) \/ StartRemove(p, c)
        PROVE  RivalInv'
    BY <1>2, StartRivals DEF StartReindex, StartAdd, StartRemove, Location
  <1>3. ASSUME NEW p \in Proc, StartCleanup(p)
        PROVE  RivalInv'
    BY <1>3, StartRivals DEF StartCleanup, Location
  <1>4. CASE UNCHANGED <<coll, pc, rivals>>
    BY <1>4 DEF RivalInv, Running
  <1> QED
    BY <1>1, <1>2, <1>3, <1>4, NextTurn DEF Edit, vars, job

\* A turn of p on the bodies and outcomes of the others.
LEMMA TurnSession ==
  ASSUME TypeOK, NEW p \in Proc, Turn(p)
  PROVE  \A q \in Proc \ {p} :
           /\ ins'[q] = ins[q] /\ del'[q] = del[q] /\ share'[q] = share[q]
           /\ outcome'[q] = outcome[q]
  <1>1. ASSUME Rollback(p)
        PROVE  \A q \in Proc \ {p} :
                 /\ ins'[q] = ins[q] /\ del'[q] = del[q] /\ share'[q] = share[q]
                 /\ outcome'[q] = outcome[q]
    BY <1>1 DEF Rollback, Forget, Release, TypeOK
  <1>2. CASE Crash(p)
    BY <1>2 DEF Crash, Forget, Release, TypeOK
  <1>3. CASE Resolve(p)
    BY <1>3 DEF Resolve, locks, TypeOK
  <1>4. CASE InsertContent(p)
    BY <1>4 DEF InsertContent, TypeOK
  <1>5. CASE StoreRow(p)
    BY <1>5 DEF StoreRow, TypeOK
  <1>6. CASE \E h \in Hash : SweepOne(p, h)
    BY <1>6 DEF SweepOne, TypeOK
  <1>7. CASE Undo(p)
    BY <1>7 DEF Undo, locks, TypeOK
  <1>8. CASE Commit(p)
    BY <1>8 DEF Commit, Release, TypeOK
  <1>9. CASE UNCHANGED <<ins, del, share, outcome>>
    BY <1>9
  <1> QED
    BY <1>1, <1>2, <1>3, <1>4, <1>5, <1>6, <1>7, <1>8, <1>9
    DEF Turn, DeadlockAbort, Statement, LookAt, WriteDocument, ListActive, ChangeRow,
        RowsChanged, DropCollection, BeginSweep, EndSweep, locks

LEMMA TurnRests ==
  ASSUME TypeOK, SessionInv, NEW p \in Proc, Turn(p)
  PROVE  /\ pc'[p] \in AtRest => ins'[p] = {} /\ del'[p] = {} /\ share'[p] = {}
         /\ pc'[p] # "idle" => outcome'[p] = "running"
  <1>1. outcome[p] = "running"
    BY TurnJob DEF SessionInv, Running
  <1>2. ASSUME Rollback(p)
        PROVE  /\ ins'[p] = {} /\ del'[p] = {} /\ share'[p] = {}
               /\ pc'[p] # "idle" => outcome'[p] = "running"
    BY <1>1, <1>2 DEF Rollback, Forget, Release, TypeOK
  <1>3. CASE Crash(p)
    BY <1>3 DEF Crash, Forget, Release, TypeOK
  <1>4. CASE Resolve(p) \/ Undo(p)
    <2>1. UNCHANGED <<ins, del, share>> /\ pc[p] \in AtRest
      BY <1>4 DEF Resolve, Undo, locks, AtRest
    <2>2. \/ UNCHANGED outcome
          \/ pc' = [pc EXCEPT ![p] = "idle"]
      BY <1>4 DEF Resolve, Undo
    <2>3. pc'[p] # "idle" => outcome'[p] = "running"
      BY <1>1, <2>2 DEF TypeOK
    <2> QED
      BY <2>1, <2>3 DEF SessionInv
  <1>5. CASE Commit(p)
    BY <1>5 DEF Commit, Release, TypeOK
  <1>6. CASE \E f \in File : LookAt(p, f)
    <2> PICK f \in File : LookAt(p, f)
      BY <1>6
    <2>1. pc[p] = "scan" /\ UNCHANGED outcome
      BY DEF LookAt
    <2>2. pc' = pc \/ pc' = [pc EXCEPT ![p] = AfterLook(View(p, f), disk[f])]
      BY DEF LookAt
    <2>3. AfterLook(View(p, f), disk[f]) \in {"scan", "body", "write"}
      BY DEF AfterLook
    <2>4. pc'[p] \in {"scan", "body", "write"}
      BY <2>1, <2>2, <2>3 DEF TypeOK
    <2> QED
      BY <1>1, <2>1, <2>4 DEF AtRest
  <1>7. CASE \/ InsertContent(p) \/ StoreRow(p) \/ ListActive(p) \/ BeginSweep(p)
             \/ RowsChanged(p)
    <2>1. UNCHANGED outcome
      BY <1>7 DEF InsertContent, StoreRow, ListActive, BeginSweep, RowsChanged
    <2>2. PICK l \in {"scan", "write", "rows", "drop", "sweep", "sweeping"} :
               pc' = [pc EXCEPT ![p] = l]
      BY <1>7 DEF InsertContent, StoreRow, ListActive, BeginSweep, RowsChanged
    <2>3. pc'[p] = l
      BY <2>2 DEF TypeOK
    <2> QED
      BY <1>1, <2>1, <2>3 DEF AtRest
  <1>8. CASE (\E f \in File : ChangeRow(p, f)) \/ \E h \in Hash : SweepOne(p, h)
    BY <1>1, <1>8 DEF ChangeRow, SweepOne, AtRest
  <1>9. ASSUME UNCHANGED outcome,
               pc' = [pc EXCEPT ![p] = "sweep"] \/ pc' = [pc EXCEPT ![p] = "commit"]
        PROVE  pc'[p] \notin AtRest /\ outcome'[p] = "running"
    <2>1. CASE pc' = [pc EXCEPT ![p] = "sweep"]
      BY <1>1, <1>9, <2>1 DEF TypeOK, AtRest
    <2>2. CASE pc' = [pc EXCEPT ![p] = "commit"]
      BY <1>1, <1>9, <2>2 DEF TypeOK, AtRest
    <2> QED
      BY <1>9, <2>1, <2>2
  <1>10. CASE DropCollection(p) \/ EndSweep(p)
    BY <1>2, <1>9, <1>10 DEF DropCollection, EndSweep
  <1> QED
    BY <1>2, <1>3, <1>4, <1>5, <1>6, <1>7, <1>8, <1>10
    DEF Turn, DeadlockAbort, Statement, WriteDocument

LEMMA NextSession ==
  ASSUME TypeOK, ScanInv, LinkInv, PublishInv, SessionInv, [Next]_vars
  PROVE  SessionInv'
  <1>1. ASSUME NEW p \in Proc, Turn(p)
        PROVE  SessionInv'
    BY <1>1, TurnEnds, TurnRests, TurnSession DEF SessionInv, Apart, Running, AtRest
  <1>2. ASSUME NEW p \in Proc, NEW o, NEW c, Start(p, o, c),
               NEW l \in {"resolve", "rows"}, pc' = [pc EXCEPT ![p] = l]
        PROVE  SessionInv'
    <2>1. /\ UNCHANGED <<ins, del, share>> /\ pc[p] = "idle"
          /\ outcome' = [outcome EXCEPT ![p] = "running"]
      BY <1>2 DEF Start, locks, Running
    <2>2. /\ outcome'[p] = "running"
          /\ \A q \in Proc \ {p} : outcome'[q] = outcome[q] /\ pc'[q] = pc[q]
      BY <1>2, <2>1 DEF TypeOK
    <2> QED
      BY <2>1, <2>2 DEF SessionInv, Running, AtRest
  <1>3. CASE UNCHANGED <<ins, del, share, pc, outcome>>
    BY <1>3 DEF SessionInv, Running
  <1> QED
    BY <1>1, <1>2, <1>3, NextTurn
    DEF StartReindex, StartAdd, StartRemove, StartCleanup, Edit, vars, locks

-----------------------------------------------------------------------------
(* What an unrivalled reindex has done stays done.                         *)

\* A turn of another process takes from its collection inactive rows at most.
LEMMA DocElsewhere ==
  ASSUME TypeOK, PublishInv, RivalInv, NEW p \in Proc, NEW q \in Proc \ {p}, Turn(q),
         Unrivalled(p), NEW f \in FilesOf(coll[p])
  PROVE  doc'[f] = doc[f] \/ (doc'[f] = None /\ Indexed(doc, f) = None /\ lock[f] = q)
  <1> f \in File /\ CollOf(f) = coll[p]
    BY DEF FilesOf
  <1>1. CASE ~Commit(q)
    BY <1>1 DEF Turn, DeadlockAbort, Crash, Rollback, Forget, Statement, Resolve, LookAt,
       InsertContent, WriteDocument, StoreRow, ListActive, ChangeRow, RowsChanged,
       DropCollection, BeginSweep, SweepOne, EndSweep, Undo, committed
  <1>2. CASE Commit(q) /\ lock[f] = q
    <2>1. Running(p) /\ Running(q)
      BY <1>2, CommitRows DEF Unrivalled, Sweeping, Running
    <2>2. coll[q] # coll[p]
      BY <2>1 DEF RivalInv, Unrivalled
    <2>3. WriteInv(q) /\ op[q] \in Command
      BY <2>1 DEF PublishInv, ProcInv, CommandInv, Running
    <2>4. op[q] = "cleanup"
      BY <1>2, <2>2, <2>3 DEF WriteInv, Command, Indexing, Removing
    <2>5. cur[f] = None /\ Indexed(doc, f) = None
      BY <1>2, <2>3, <2>4 DEF WriteInv, Indexing
    <2> QED
      BY <1>2, <2>5, CommitRows
  <1>3. CASE Commit(q) /\ lock[f] # q
    BY <1>3, CommitRows
  <1> QED
    BY <1>1, <1>2, <1>3

LEMMA DoneElsewhere ==
  ASSUME TypeOK, ScanInv, LinkInv, PublishInv, RivalInv, NEW p \in Proc,
         NEW q \in Proc \ {p}, Turn(q), DoneInv(p)
  PROVE  DoneInv(p)'
  <1> USE StoreAssumption
  <1> SUFFICES ASSUME Unrivalled(p)'
               PROVE  DoneInv(p)'
    BY DEF DoneInv
  <1>1. Apart(q) /\ UNCHANGED rivals
    BY TurnEnds, TurnJob
  <1>2. /\ pc'[p] = pc[p] /\ op'[p] = op[p] /\ coll'[p] = coll[p]
        /\ todo'[p] = todo[p] /\ file'[p] = file[p] /\ found'[p] = found[p]
        /\ seen'[p] = seen[p] /\ rows'[p] = rows[p]
    BY <1>1 DEF Apart
  <1>3. Unrivalled(p)
    BY <1>1, <1>2 DEF Unrivalled
  <1>4. \A f \in FilesOf(coll[p]) :
          doc'[f] = doc[f] \/ (doc'[f] = None /\ Indexed(doc, f) = None /\ lock[f] = q)
    BY <1>3, DocElsewhere
  <1>5. ASSUME NEW f \in FilesOf(coll[p])
        PROVE  Shown(p, f)' = Shown(p, f)
    <2> f \in File
      BY DEF FilesOf
    <2>1. CASE lock[f] = p
      <3>1. lock'[f] = p /\ cur'[f] = cur[f]
        BY <1>1, <2>1 DEF Apart
      <3> QED
        BY <2>1, <3>1 DEF Shown, View
    <2>2. CASE lock[f] # p
      <3>1. lock'[f] # p
        BY <1>1, <2>2 DEF Apart
      <3>2. Shown(p, f) = Indexed(doc, f) /\ Shown(p, f)' = Indexed(doc', f)
        BY <2>2, <3>1 DEF Shown, View, Indexed
      <3> QED
        BY <1>4, <3>2 DEF Indexed
    <2> QED
      BY <2>1, <2>2
  <1>6. pc[p] \in {"body", "write"} => file[p] \in FilesOf(coll[p])
    BY DEF ScanInv
  <1>7. pc[p] \in {"body", "write"} /\ found[p] # None /\ doc'[file[p]] # None =>
          doc'[file[p]] = found[p]
    BY <1>3, <1>4, <1>6 DEF DoneInv
  <1>8. FilesOf(coll[p])' = FilesOf(coll[p])
    BY <1>2 DEF FilesOf
  <1> QED
    BY <1>2, <1>3, <1>5, <1>7, <1>8 DEF DoneInv

\* A statement that changes no row, nor what p has read.
LEMMA DoneMoves ==
  ASSUME NEW p \in Proc, DoneInv(p),
         UNCHANGED <<doc, cur, lock, coll, op, rivals, todo, file, found, seen, rows>>,
         \/ pc'[p] = pc[p]
         \/ pc[p] = "body" /\ pc'[p] = "write"
         \/ pc[p] = "rows" /\ pc'[p] = "sweep" /\ rows[p] = {}
         \/ pc[p] \in Sweeping /\ pc'[p] \in Sweeping
  PROVE  DoneInv(p)'
  <1>1. \A f \in FilesOf(coll[p]) : Shown(p, f)' = Shown(p, f)
    BY DEF Shown, View
  <1> QED
    BY <1>1 DEF DoneInv, Unrivalled, FilesOf, Sweeping

LEMMA LookAtDone ==
  ASSUME TypeOK, ScanInv, PublishInv, NEW p \in Proc, NEW f \in File, LookAt(p, f), DoneInv(p)
  PROVE  DoneInv(p)'
  <1> USE StoreAssumption
  <1>1. /\ UNCHANGED <<doc, cur, lock, coll, op, rivals, rows>>
        /\ pc[p] = "scan" /\ f \in todo[p] /\ todo' = [todo EXCEPT ![p] = @ \ {f}]
    BY DEF LookAt, committed, locks, job
  <1>2. todo'[p] = todo[p] \ {f} /\ f \in FilesOf(coll[p]) /\ lock[f] # p
    BY <1>1 DEF TypeOK, ScanInv, PublishInv, ProcInv, ReadInv
  <1>3. \A g \in FilesOf(coll[p]) : Shown(p, g)' = Shown(p, g)
    BY <1>1 DEF Shown, View
  <1> SUFFICES ASSUME Unrivalled(p)'
               PROVE  DoneInv(p)'
    BY DEF DoneInv
  <1>4. Unrivalled(p)
    BY <1>1 DEF Unrivalled
  <1>5. CASE ~Indexable(f) /\ UNCHANGED <<pc, seen, file, found>>
    BY <1>1, <1>2, <1>3, <1>4, <1>5 DEF DoneInv, FilesOf, Sweeping
  <1>6. CASE /\ seen' = [seen EXCEPT ![p] = [@ EXCEPT ![f] = disk[f]]]
             /\ file' = [file EXCEPT ![p] = f]
             /\ found' = [found EXCEPT ![p] = View(p, f)]
             /\ pc' = [pc EXCEPT ![p] = AfterLook(View(p, f), disk[f])]
    <2>1. /\ seen'[p] = [seen[p] EXCEPT ![f] = disk[f]]
          /\ file'[p] = f /\ found'[p] = doc[f]
          /\ pc'[p] = AfterLook(doc[f], disk[f])
      BY <1>2, <1>6 DEF TypeOK, View
    <2>2. seen'[p][f] = disk[f] /\ \A g \in File \ {f} : seen'[p][g] = seen[p][g]
      BY <2>1 DEF TypeOK
    <2>3. pc'[p] \in {"scan", "body", "write"}
      BY <2>1 DEF AfterLook
    <2>4. pc'[p] = "scan" => Shown(p, f) = disk[f]
      BY <1>2, <2>1 DEF AfterLook, Shown, View
    <2>5. \A g \in todo'[p] : seen'[p][g] = None
      BY <1>2, <1>4, <2>2 DEF DoneInv, TypeOK
    <2>6. ASSUME NEW g \in FilesOf(coll[p]) \ todo'[p], seen'[p][g] # None,
                 ~(pc'[p] \in {"body", "write"} /\ g = f)
          PROVE  Shown(p, g) = seen'[p][g]
      <3>1. CASE g = f
        BY <2>2, <2>3, <2>4, <2>6, <3>1
      <3>2. CASE g # f
        <4>1. g \in File /\ g \notin todo[p] /\ seen'[p][g] = seen[p][g]
          BY <1>2, <2>2, <2>6, <3>2 DEF FilesOf
        <4> QED
          BY <1>1, <1>4, <2>6, <4>1 DEF DoneInv
      <3> QED
        BY <3>1, <3>2
    <2>7. FilesOf(coll[p])' = FilesOf(coll[p])
      BY <1>1 DEF FilesOf
    <2> QED
      BY <1>1, <1>3, <2>1, <2>3, <2>5, <2>6, <2>7 DEF DoneInv, Sweeping
  <1> QED
    BY <1>5, <1>6 DEF LookAt

LEMMA StoreRowDone ==
  ASSUME TypeOK, ScanInv, PublishInv, NEW p \in Proc,
         pc[p] = "write", ~WriteRaises(p), StoreRow(p), DoneInv(p)
  PROVE  DoneInv(p)'
  <1> DEFINE f == file[p]
             h == seen[p][f]
  <1> USE StoreAssumption
  <1> SUFFICES ASSUME Unrivalled(p)'
               PROVE  DoneInv(p)'
    BY DEF DoneInv
  <1>1. f \in FilesOf(coll[p]) /\ f \in File /\ h \in Hash
    BY FileType DEF ScanInv
  <1>2. /\ cur'[f] = IndexedRow(found[p], doc[f], h) /\ lock'[f] = p
        /\ \A g \in File \ {f} : cur'[g] = cur[g] /\ lock'[g] = lock[g]
        /\ pc'[p] = "scan"
        /\ UNCHANGED <<doc, coll, op, rivals, todo, file, found, seen, rows>>
    BY <1>1 DEF StoreRow, TypeOK, committed, job, scanning
  <1>3. Unrivalled(p)
    BY <1>2 DEF Unrivalled
  <1>4. /\ found[p] = None => doc[f] = None
        /\ found[p] # None => doc[f] = found[p]
    BY <1>3 DEF WriteRaises, DoneInv
  <1>5. cur'[f] \in Row /\ cur'[f] # None
    BY <1>1, <1>2, <1>4, IndexedRowType DEF TypeOK
  <1>6. cur'[f].hash = h /\ cur'[f].active
    <2>1. CASE found[p] = None
      BY <1>2, <2>1 DEF IndexedRow
    <2>2. CASE found[p] # None
      <3>1. /\ cur'[f].hash = IF found[p].hash # h THEN h ELSE found[p].hash
            /\ cur'[f].active = (found[p].active \/ ~found[p].active)
        BY <1>2, <1>4, <2>2 DEF IndexedRow
      <3> QED
        BY <3>1
    <2> QED
      BY <2>1, <2>2
  <1>7. Shown(p, f)' = h
    BY <1>2, <1>5, <1>6 DEF Shown, View
  <1>8. \A g \in FilesOf(coll[p]) \ {f} : Shown(p, g)' = Shown(p, g)
    BY <1>2 DEF Shown, View, FilesOf
  <1>9. FilesOf(coll[p])' = FilesOf(coll[p])
    BY <1>2 DEF FilesOf
  <1> QED
    BY <1>2, <1>3, <1>7, <1>8, <1>9 DEF DoneInv, Sweeping

LEMMA ChangeRowDone ==
  ASSUME TypeOK, PublishInv, NEW p \in Proc, NEW f \in File, ChangeRow(p, f), DoneInv(p)
  PROVE  DoneInv(p)'
  <1> USE StoreAssumption
  <1>1. /\ UNCHANGED <<doc, coll, op, rivals, todo, file, found, seen, pc>>
        /\ pc[p] = "rows" /\ f \in rows[p] /\ rows' = [rows EXCEPT ![p] = @ \ {f}]
    BY DEF ChangeRow, committed, job, scanning
  <1> SUFFICES ASSUME Unrivalled(p)'
               PROVE  DoneInv(p)'
    BY DEF DoneInv
  <1>2. Unrivalled(p) /\ op[p] \in Indexing
    BY <1>1 DEF Unrivalled
  <1>3. rows'[p] = rows[p] \ {f}
    BY <1>1 DEF TypeOK
  <1>4. seen[p][f] = None
    BY <1>1, <1>2 DEF DoneInv
  <1>5. /\ Shown(p, f)' = None
        /\ \A g \in FilesOf(coll[p]) \ {f} : Shown(p, g)' = Shown(p, g)
    <2>1. CASE ~Changes(p, f)
      <3>1. UNCHANGED <<cur, lock>>
        BY <2>1 DEF ChangeRow
      <3>2. CASE View(p, f) = None
        BY <1>1, <3>1, <3>2 DEF Shown, View, FilesOf
      <3>3. CASE View(p, f) # None
        <4>1. ChangedRow(op[p], View(p, f)) = View(p, f)
          BY <2>1, <3>3 DEF Changes
        <4>2. ~View(p, f).active
          BY <1>2, <4>1 DEF ChangedRow, Indexing
        <4> QED
          BY <1>1, <3>1, <4>2 DEF Shown, View, FilesOf
      <3> QED
        BY <3>2, <3>3
    <2>2. CASE Changes(p, f)
      <3>1. /\ cur'[f] = ChangedRow(op[p], View(p, f)) /\ lock'[f] = p
            /\ \A g \in File \ {f} : cur'[g] = cur[g] /\ lock'[g] = lock[g]
        BY <2>2 DEF ChangeRow, TypeOK
      <3>2. ~cur'[f].active
        BY <1>2, <3>1 DEF ChangedRow, Indexing
      <3> QED
        BY <1>1, <3>1, <3>2 DEF Shown, View, FilesOf
    <2> QED
      BY <2>1, <2>2
  <1>6. FilesOf(coll[p])' = FilesOf(coll[p])
    BY <1>1 DEF FilesOf
  <1> QED
    BY <1>1, <1>2, <1>3, <1>4, <1>5, <1>6 DEF DoneInv, Sweeping

LEMMA ListActiveDone ==
  ASSUME TypeOK, NEW p \in Proc, ListActive(p), DoneInv(p)
  PROVE  DoneInv(p)'
  <1>1. /\ UNCHANGED <<doc, cur, lock, coll, op, rivals, todo, file, found, seen>>
        /\ pc[p] = "scan" /\ todo[p] = {} /\ pc'[p] = "rows" /\ rows'[p] = NotRead(p)
    BY DEF ListActive, TypeOK, committed, locks, job, scanning
  <1> SUFFICES ASSUME Unrivalled(p)'
               PROVE  DoneInv(p)'
    BY DEF DoneInv
  <1>2. Unrivalled(p)
    BY <1>1 DEF Unrivalled
  <1>3. \A f \in File : Shown(p, f)' = Shown(p, f)
    BY <1>1 DEF Shown, View
  <1>4. \A f \in FilesOf(coll[p]) :
          seen[p][f] = None => Shown(p, f) = None \/ f \in NotRead(p)
    BY DEF Shown, NotRead
  <1>5. \A f \in NotRead(p) : seen[p][f] = None
    BY DEF NotRead
  <1>6. FilesOf(coll[p])' = FilesOf(coll[p]) /\ FilesOf(coll[p]) \subseteq File
    BY <1>1 DEF FilesOf
  <1> QED
    BY <1>1, <1>2, <1>3, <1>4, <1>5, <1>6 DEF DoneInv, Sweeping

LEMMA DoneOwn ==
  ASSUME TypeOK, ScanInv, PublishInv, NEW p \in Proc, Turn(p), DoneInv(p)
  PROVE  DoneInv(p)'
  <1> SUFFICES ASSUME Unrivalled(p)'
               PROVE  DoneInv(p)'
    BY DEF DoneInv
  <1>1. pc'[p] \notin {"idle", "undo"}
    BY DEF Unrivalled, Sweeping
  <1>2. ~Rollback(p) /\ ~Crash(p) /\ ~Commit(p)
    BY <1>1, RollbackOthers, CommitRows DEF Crash, TypeOK
  <1>3. CASE Resolve(p)
    <2>1. CASE pc' = [pc EXCEPT ![p] = "idle"]
      BY <1>1, <2>1 DEF TypeOK
    <2>2. CASE /\ pc' = [pc EXCEPT ![p] = "scan"]
               /\ seen' = [seen EXCEPT ![p] = [f \in File |-> None]]
               /\ \E S \in SUBSET FilesOf(coll[p]) : todo' = [todo EXCEPT ![p] = S]
      <3>1. /\ pc'[p] = "scan" /\ seen'[p] = [f \in File |-> None]
            /\ todo'[p] \subseteq File
        BY <2>2 DEF TypeOK, FilesOf
      <3> QED
        BY <3>1 DEF DoneInv, FilesOf, Sweeping
    <2> QED
      BY <1>3, <2>1, <2>2 DEF Resolve
  <1>4. CASE InsertContent(p)
    BY <1>4, DoneMoves DEF InsertContent, committed, job, scanning, TypeOK
  <1>5. CASE RowsChanged(p)
    <2>1. /\ UNCHANGED <<doc, cur, lock, coll, op, rivals, todo, file, found, seen, rows>>
          /\ pc[p] = "rows" /\ rows[p] = {}
      BY <1>5 DEF RowsChanged, committed, locks, job, scanning
    <2>2. op[p] \in Indexing
      BY <2>1 DEF Unrivalled
    <2>3. pc' = [pc EXCEPT ![p] = "sweep"]
      BY <1>5, <2>2 DEF RowsChanged, Indexing
    <2> QED
      BY <2>1, <2>3, DoneMoves DEF TypeOK
  <1>6. CASE BeginSweep(p)
    BY <1>6, DoneMoves DEF BeginSweep, committed, locks, job, scanning, TypeOK, Sweeping
  <1>7. CASE \E h \in Hash : SweepOne(p, h)
    BY <1>7, DoneMoves DEF SweepOne, committed, job, scanning
  <1>8. CASE EndSweep(p)
    BY <1>2, <1>8, DoneMoves DEF EndSweep, committed, locks, job, scanning, TypeOK, Sweeping
  <1>9. CASE DropCollection(p) \/ Undo(p)
    <2>1. CASE DropCollection(p)
      <3>1. op[p] \in Removing
        BY <2>1 DEF DropCollection, PublishInv, ProcInv, CommandInv
      <3>2. op'[p] = op[p]
        BY <2>1 DEF DropCollection, Rollback, job
      <3> QED
        BY <3>1, <3>2 DEF Unrivalled, Indexing, Removing
    <2>2. CASE Undo(p)
      BY <2>2 DEF Undo, TypeOK, Unrivalled, Indexing
    <2> QED
      BY <1>9, <2>1, <2>2
  <1> QED
    BY <1>2, <1>3, <1>4, <1>5, <1>6, <1>7, <1>8, <1>9, LookAtDone, StoreRowDone, ChangeRowDone,
       ListActiveDone DEF Turn, DeadlockAbort, Statement, WriteDocument

LEMMA StartDone ==
  ASSUME TypeOK, NEW p \in Proc, NEW o, NEW c, Start(p, o, c),
         NEW l \in {"resolve", "rows"}, pc' = [pc EXCEPT ![p] = l],
         o = "reindex" \/ o = "add" => l = "resolve",
         \A q \in Proc \ {p} : rows'[q] = rows[q],
         NEW q \in Proc, DoneInv(q)
  PROVE  DoneInv(q)'
  <1>1. /\ UNCHANGED <<doc, cur, lock, todo, file, found, seen>>
        /\ op' = [op EXCEPT ![p] = o] /\ coll' = [coll EXCEPT ![p] = c]
        /\ \A r \in Proc \ {p} : rivals[r] \subseteq rivals'[r]
    BY DEF Start, locks, scanning
  <1>2. /\ pc'[p] = l /\ op'[p] = o
        /\ \A r \in Proc \ {p} : pc'[r] = pc[r] /\ op'[r] = op[r] /\ coll'[r] = coll[r]
    BY <1>1 DEF TypeOK
  <1> SUFFICES ASSUME Unrivalled(q)'
               PROVE  DoneInv(q)'
    BY DEF DoneInv
  <1>3. q # p
    BY <1>2 DEF Unrivalled, Sweeping, Indexing
  <1>4. Unrivalled(q)
    BY <1>1, <1>2, <1>3 DEF Unrivalled
  <1>5. \A f \in FilesOf(coll[q]) : Shown(q, f)' = Shown(q, f)
    BY <1>1 DEF Shown, View
  <1> QED
    BY <1>1, <1>2, <1>3, <1>4, <1>5 DEF DoneInv, FilesOf

DonesInv == \A p \in Proc : DoneInv(p)

LEMMA NextDone ==
  ASSUME TypeOK, ScanInv, LinkInv, PublishInv, RivalInv, DonesInv, [Next]_vars
  PROVE  DonesInv'
  <1>1. ASSUME NEW p \in Proc, Turn(p)
        PROVE  DonesInv'
    BY <1>1, DoneOwn, DoneElsewhere DEF DonesInv
  <1>2. ASSUME NEW p \in Proc, NEW c \in Coll, StartReindex(p, c) \/ StartAdd(p, c)
        PROVE  DonesInv'
    <2>1. PICK o \in {"reindex", "add"} :
               Start(p, o, c) /\ pc' = [pc EXCEPT ![p] = "resolve"] /\ UNCHANGED rows
      BY <1>2 DEF StartReindex, StartAdd
    <2> QED
      BY <2>1, StartDone DEF DonesInv
  <1>3. ASSUME NEW p \in Proc, NEW o \in {"remove", "cleanup"}, NEW c, Start(p, o, c),
               pc' = [pc EXCEPT ![p] = "rows"], NEW S, rows' = [rows EXCEPT ![p] = S]
        PROVE  DonesInv'
    <2>1. \A q \in Proc \ {p} : rows'[q] = rows[q]
      BY <1>3 DEF TypeOK
    <2> QED
      BY <1>3, <2>1, StartDone DEF DonesInv
  <1>4. CASE UNCHANGED <<doc, cur, lock, job, scanning, pc, rows>>
    <2> SUFFICES ASSUME NEW p \in Proc
                 PROVE  DoneInv(p)'
      BY DEF DonesInv
    <2> QED
      BY <1>4, DoneMoves DEF DonesInv, job, scanning
  <1>5. ASSUME NEW f \in File, NEW v \in Hash \cup {None}, Edit(f, v)
        PROVE  DonesInv'
    BY <1>4, <1>5 DEF Edit, committed, locks
  <1>6. CASE UNCHANGED vars
    BY <1>4, <1>6 DEF vars, committed, locks
  <1> QED
    BY <1>1, <1>2, <1>3, <1>5, <1>6, NextTurn DEF StartRemove, StartCleanup

\* At COMMIT only a commit or a crash is to come.
LEMMA AtCommit ==
  ASSUME TypeOK, SessionInv, [Next]_vars, NEW p \in Proc, pc[p] = "commit"
  PROVE  \/ Commit(p)
         \/ outcome'[p] = "crashed"
         \/ outcome'[p] = outcome[p]
  <1>1. CASE Turn(p)
    <2>1. ~DeadlockAbort(p)
      BY WaitingRuns DEF DeadlockAbort
    <2>2. CASE Crash(p)
      BY <2>2 DEF Crash, TypeOK
    <2>3. CASE Statement(p)
      BY <2>3 DEF Statement, Resolve, LookAt, InsertContent, WriteDocument, ListActive,
         ChangeRow, RowsChanged, DropCollection, BeginSweep, SweepOne, EndSweep, Undo
    <2> QED
      BY <1>1, <2>1, <2>2, <2>3 DEF Turn
  <1>2. CASE \E q \in Proc \ {p} : Turn(q)
    BY <1>2, TurnSession
  <1>3. ASSUME NEW q \in Proc, NEW o, NEW c, Start(q, o, c)
        PROVE  outcome'[p] = outcome[p]
    <2>1. q # p /\ outcome' = [outcome EXCEPT ![q] = "running"]
      BY <1>3 DEF Start, Running
    <2> QED
      BY <2>1 DEF TypeOK
  <1>4. CASE UNCHANGED outcome
    BY <1>4
  <1> QED
    BY <1>1, <1>2, <1>3, <1>4, NextTurn
    DEF StartReindex, StartAdd, StartRemove, StartCleanup, Edit, vars

\* A reindex that no other command on its collection overlapped publishes what
\* it read and nothing else, whatever cleanups and the other collections did.
THEOREM PublishedIsRead == Spec => PublishesWhatItRead
  <1> DEFINE Inv == TypeOK /\ ScanInv /\ LinkInv /\ PublishInv /\ RivalInv /\ SessionInv
                      /\ DonesInv
  <1>1. Init => Inv
    <2> SUFFICES ASSUME Init
                 PROVE  Inv
      OBVIOUS
    <2>1. TypeOK /\ ScanInv /\ LinkInv /\ PublishInv
      BY InitPublish
    <2>2. RivalInv /\ SessionInv
      BY DEF Init, RivalInv, SessionInv, Running
    <2>3. DonesInv
      BY DEF Init, DonesInv, DoneInv, Unrivalled, Sweeping
    <2> QED
      BY <2>1, <2>2, <2>3
  <1>2. Inv /\ [Next]_vars => Inv'
    BY NextType, NextScan, NextLinks, NextPublish, NextRivals, NextSession, NextDone
  <1>3. Inv /\ [Next]_vars =>
          [\A p \in Proc :
             /\ pc[p] = "commit" /\ outcome'[p] = "ok"
             /\ op[p] \in {"reindex", "add"} /\ coll[p] \notin rivals[p]
             => \A f \in FilesOf(coll[p]) : Indexed(doc', f) = seen[p][f]]_vars
    <2> SUFFICES ASSUME Inv, [Next]_vars, NEW p \in Proc,
                        pc[p] = "commit", outcome'[p] = "ok",
                        op[p] \in {"reindex", "add"}, coll[p] \notin rivals[p],
                        NEW f \in FilesOf(coll[p])
                 PROVE  Indexed(doc', f) = seen[p][f]
      OBVIOUS
    <2>1. outcome[p] = "running"
      BY DEF SessionInv, Running
    <2>2. Commit(p)
      BY <2>1, AtCommit
    <2>3. Indexed(doc', f) = Shown(p, f)
      BY <2>2 DEF Commit, Indexed, Shown, FilesOf
    <2>4. Unrivalled(p) /\ DoneInv(p)
      BY DEF Unrivalled, Indexing, Sweeping, DonesInv
    <2>5. Shown(p, f) = seen[p][f]
      BY <2>4 DEF DoneInv, Sweeping
    <2> QED
      BY <2>3, <2>5
  <1> QED
    BY <1>1, <1>2, <1>3, PTL DEF Spec, PublishesWhatItRead

-----------------------------------------------------------------------------
(* A command nothing overlaps leaves no body that nobody refers to.        *)

\* Nothing but p itself takes p to a state in which nothing overlaps it.
LEMMA SoloAlone ==
  ASSUME RivalInv, NEW p \in Proc, Solo(p), NEW q \in Proc \ {p}
  PROVE  pc[q] = "idle"
  BY DEF RivalInv, Solo, Running

LEMMA SoloTurn ==
  ASSUME TypeOK, ScanInv, LinkInv, PublishInv, RivalInv, NEW p \in Proc, NEW q \in Proc, Turn(q),
         Solo(p)'
  PROVE  q = p /\ Solo(p)
  <1>1. UNCHANGED rivals /\ pc[q] # "idle" /\ Apart(q)
    BY TurnJob, TurnEnds
  <1>2. CASE q = p
    BY <1>1, <1>2 DEF Solo, Running
  <1>3. CASE q # p
    <2>1. Solo(p)
      BY <1>1, <1>3 DEF Solo, Running, Apart
    <2> QED
      BY <1>1, <1>3, <2>1, SoloAlone
  <1> QED
    BY <1>2, <1>3

LEMMA SoloStart ==
  ASSUME TypeOK, NEW p \in Proc, NEW q \in Proc, NEW o, NEW c, Start(q, o, c),
         NEW l, pc' = [pc EXCEPT ![q] = l], Solo(p)'
  PROVE  q = p
  <1>1. CASE q # p
    <2>1. Running(p)
      BY <1>1 DEF Solo, Running, TypeOK
    <2>2. c \in rivals'[p]
      BY <1>1, <2>1 DEF Start
    <2> QED
      BY <2>2 DEF Solo
  <1> QED
    BY <1>1

SweepsInv == \A p \in Proc : SweepInv(p)

\* A statement before the sweep, or the end of the transaction.
LEMMA SweepBefore ==
  ASSUME NEW p \in Proc, pc'[p] \notin {"sweeping", "commit"}, del'[p] = {}
  PROVE  SweepInv(p)'
  BY DEF SweepInv

LEMMA SweepOwn ==
  ASSUME TypeOK, NEW p \in Proc, Turn(p), Solo(p)' => Solo(p), SweepInv(p)
  PROVE  SweepInv(p)'
  <1>1. ASSUME Rollback(p) \/ Crash(p) \/ Commit(p)
        PROVE  SweepInv(p)'
    <2>1. del'[p] = {}
      BY <1>1 DEF Rollback, Crash, Commit, Forget, Release, TypeOK
    <2>2. pc'[p] \in {"idle", "undo"}
      BY <1>1, RollbackOthers DEF Crash, Commit, TypeOK
    <2> QED
      BY <2>1, <2>2, SweepBefore
  <1>2. ASSUME pc[p] \notin {"sweeping", "commit"}, UNCHANGED del,
               pc' = pc \/ \E l \in Location \ {"sweeping", "commit"} : pc' = [pc EXCEPT ![p] = l]
        PROVE  SweepInv(p)'
    <2>1. pc'[p] \notin {"sweeping", "commit"}
      BY <1>2 DEF TypeOK
    <2> QED
      BY <1>2, <2>1 DEF SweepInv
  <1>3. CASE Resolve(p)
    BY <1>2, <1>3 DEF Resolve, locks, Location
  <1>4. CASE \E f \in File : LookAt(p, f)
    <2> PICK f \in File : LookAt(p, f)
      BY <1>4
    <2>1. AfterLook(View(p, f), disk[f]) \in {"scan", "write", "body"}
      BY DEF AfterLook
    <2> QED
      BY <1>2, <2>1 DEF LookAt, locks, Location
  <1>5. CASE InsertContent(p) \/ ListActive(p) \/ RowsChanged(p) \/ Undo(p)
    <2>1. pc[p] \notin {"sweeping", "commit"} /\ UNCHANGED del
      BY <1>5 DEF InsertContent, ListActive, RowsChanged, Undo, locks
    <2>2. PICK l \in {"write", "rows", "drop", "sweep", "idle"} : pc' = [pc EXCEPT ![p] = l]
      BY <1>5 DEF InsertContent, ListActive, RowsChanged, Undo
    <2> QED
      BY <1>2, <2>1, <2>2 DEF Location
  <1>6. CASE \E f \in File : ChangeRow(p, f)
    BY <1>2, <1>6 DEF ChangeRow
  <1>7. CASE DropCollection(p)
    BY <1>1, <1>2, <1>7 DEF DropCollection, Location
  <1>8. CASE BeginSweep(p)
    <2>1. /\ pc'[p] = "sweeping" /\ victims'[p] = Orphans(p) /\ pc[p] = "sweep"
          /\ UNCHANGED <<doc, content, cur, lock, ins, del>>
      BY <1>8 DEF BeginSweep, TypeOK, committed, locks
    <2>2. Orphans(p)' = Orphans(p)
      BY <2>1 DEF Orphans, Referenced, View
    <2> QED
      BY <2>1, <2>2 DEF SweepInv
  <1>9. CASE \E h \in Hash : SweepOne(p, h)
    <2> PICK h \in Hash : SweepOne(p, h)
      BY <1>9
    <2>1. /\ UNCHANGED <<doc, content, cur, lock, ins, pc>> /\ pc[p] = "sweeping"
          /\ h \in victims[p] /\ victims'[p] = victims[p] \ {h}
          /\ del'[p] = del[p] \cup ({h} \cap (content \cup ins[p]))
      BY DEF SweepOne, TypeOK, committed
    <2>2. Orphans(p)' = Orphans(p) /\ Orphans(p) \subseteq content \cup ins[p]
      BY <2>1 DEF Orphans, Referenced, View
    <2> QED
      BY <2>1, <2>2 DEF SweepInv
  <1>10. CASE EndSweep(p)
    <2>1. CASE Rollback(p)
      BY <1>1, <2>1
    <2>2. CASE pc' = [pc EXCEPT ![p] = "commit"] /\ UNCHANGED <<committed, locks>>
      <3>1. /\ pc'[p] = "commit" /\ pc[p] = "sweeping" /\ victims[p] = {}
            /\ UNCHANGED <<doc, content, cur, lock, ins, del>>
        BY <1>10, <2>2 DEF EndSweep, TypeOK, committed, locks
      <3>2. Orphans(p)' = Orphans(p)
        BY <3>1 DEF Orphans, Referenced, View
      <3> QED
        BY <3>1, <3>2 DEF SweepInv
    <2> QED
      BY <1>10, <2>1, <2>2 DEF EndSweep
  <1>11. CASE WriteDocument(p)
    <2>1. CASE StoreRow(p)
      BY <1>2, <1>11, <2>1 DEF WriteDocument, StoreRow, Location
    <2> QED
      BY <1>1, <1>11, <2>1 DEF WriteDocument
  <1> QED
    BY <1>1, <1>3, <1>4, <1>5, <1>6, <1>7, <1>8, <1>9, <1>10, <1>11
    DEF Turn, DeadlockAbort, Statement

LEMMA NextSweeps ==
  ASSUME TypeOK, ScanInv, LinkInv, PublishInv, RivalInv, SessionInv, SweepsInv, [Next]_vars
  PROVE  SweepsInv'
  <1>1. ASSUME NEW p \in Proc, Turn(p), NEW q \in Proc
        PROVE  SweepInv(q)'
    <2>1. CASE q = p
      BY <1>1, <2>1, SweepOwn, SoloTurn DEF SweepsInv
    <2>2. CASE q # p
      <3>1. ~Solo(q)'
        BY <1>1, <2>2, SoloTurn
      <3>2. pc'[q] = pc[q] /\ del'[q] = del[q]
        BY <1>1, <2>2, TurnEnds, TurnSession DEF Apart
      <3> QED
        BY <3>1, <3>2 DEF SweepsInv, SweepInv
    <2> QED
      BY <2>1, <2>2
  <1>2. ASSUME NEW p \in Proc, NEW o, NEW c, Start(p, o, c), NEW l \in {"resolve", "rows"},
               pc' = [pc EXCEPT ![p] = l], NEW q \in Proc
        PROVE  SweepInv(q)'
    <2>1. pc[p] = "idle" /\ UNCHANGED del
      BY <1>2 DEF Start, Running, locks
    <2>2. CASE q = p
      BY <1>2, <2>1, <2>2, SweepBefore DEF SweepsInv, SweepInv, TypeOK
    <2>3. CASE q # p
      <3>1. ~Solo(q)' /\ pc'[q] = pc[q]
        BY <1>2, <2>3, SoloStart DEF TypeOK
      <3> QED
        BY <2>1, <3>1 DEF SweepsInv, SweepInv
    <2> QED
      BY <2>2, <2>3
  <1>3. ASSUME UNCHANGED <<doc, content, cur, lock, ins, del, victims, pc, rivals>>
        PROVE  SweepsInv'
    BY <1>3 DEF SweepsInv, SweepInv, Solo, Running, Orphans, Referenced, View
  <1>4. CASE \/ \E f \in File, v \in Hash \cup {None} : Edit(f, v)
             \/ UNCHANGED vars
    BY <1>3, <1>4 DEF Edit, vars, committed, locks, job
  <1> QED
    BY <1>1, <1>2, <1>4, NextTurn
    DEF SweepsInv, StartReindex, StartAdd, StartRemove, StartCleanup

\* A command that nothing overlapped leaves the bodies the documents refer to
\* and no other, those that earlier commands had left behind included.
THEOREM SweepReclaims == Spec => SoloSweepReclaims
  <1> DEFINE Inv == TypeOK /\ ScanInv /\ LinkInv /\ PublishInv /\ RivalInv /\ SessionInv
                      /\ BodyInv /\ SweepsInv
  <1>1. Init => Inv
    <2> SUFFICES ASSUME Init
                 PROVE  Inv
      OBVIOUS
    <2>1. TypeOK /\ ScanInv /\ LinkInv /\ PublishInv
      BY InitPublish
    <2>2. RivalInv /\ SessionInv /\ SweepsInv
      BY DEF Init, RivalInv, SessionInv, SweepsInv, SweepInv, Running, Solo
    <2>3. BodyInv
      BY DEF Init, BodyInv, RefInv, ShareInv, CheckedInv, BodyPresent
    <2> QED
      BY <2>1, <2>2, <2>3
  <1>2. Inv /\ [Next]_vars => Inv'
    BY NextType, NextScan, NextLinks, NextPublish, NextRivals, NextSession, NextBodies, NextSweeps
  <1>3. Inv /\ [Next]_vars =>
          [\A p \in Proc :
             pc[p] = "commit" /\ outcome'[p] # outcome[p] /\ rivals[p] = {}
               /\ outcome'[p] # "crashed"
             => content' = {doc'[f].hash : f \in {g \in File : doc'[g] # None}}]_vars
    <2> SUFFICES ASSUME Inv, [Next]_vars, NEW p \in Proc,
                        pc[p] = "commit", outcome'[p] # outcome[p], rivals[p] = {},
                        outcome'[p] # "crashed"
                 PROVE  content' = {doc'[f].hash : f \in {g \in File : doc'[g] # None}}
      OBVIOUS
    <2>1. Commit(p)
      BY AtCommit
    <2>2. del[p] = Orphans(p)
      BY DEF SweepsInv, SweepInv, Solo, Running
    <2>3. \A f \in File : doc'[f] = View(p, f)
      BY <2>1 DEF Commit
    <2>4. content' = (content \cup ins[p]) \ del[p]
      BY <2>1 DEF Commit
    <2>5. BodyPresent'
      BY NextBodies DEF BodyInv
    <2> QED
      BY <2>2, <2>3, <2>4, <2>5 DEF Orphans, Referenced, BodyPresent
  <1> QED
    BY <1>1, <1>2, <1>3, PTL DEF Spec, SoloSweepReclaims

-----------------------------------------------------------------------------
(* A command nothing overlaps fails for a cause.                           *)

SolosInv == \A p \in Proc : SoloInv(p)

\* It waits for nobody, so the deadlock detector leaves it alone.
LEMMA SoloWaits ==
  ASSUME TypeOK, ScanInv, LinkInv, RivalInv, SessionInv, NEW p \in Proc, Solo(p)
  PROVE  WaitsFor(p) = {} /\ ~DeadlockAbort(p)
  <1>1. ASSUME NEW q \in Proc \ {p}
        PROVE  /\ ins[q] = {} /\ del[q] = {} /\ share[q] = {}
               /\ q \notin cshare /\ q \notin cdel /\ \A f \in File : lock[f] # q
    <2>1. pc[q] \in AtRest
      BY SoloAlone DEF AtRest
    <2> QED
      BY <2>1 DEF SessionInv, LinkInv, RestInv
  <1>2. ASSUME NEW q \in WaitsFor(p)
        PROVE  FALSE
    <2>1. q \in Proc \ {p}
      BY DEF WaitsFor
    <2>2. CASE pc[p] = "body"
      BY <1>1, <2>1, <2>2 DEF WaitsFor
    <2>3. CASE pc[p] = "write"
      BY <1>1, <2>1, <2>3, FileType DEF WaitsFor
    <2>4. CASE pc[p] = "rows"
      BY <1>1, <2>1, <2>4 DEF WaitsFor, TypeOK
    <2>5. CASE pc[p] = "drop"
      BY <1>1, <2>1, <2>5 DEF WaitsFor, Deleting, FilesOf
    <2>6. CASE pc[p] = "sweeping"
      BY <1>1, <2>1, <2>6 DEF WaitsFor, Deleting
    <2> QED
      BY <2>2, <2>3, <2>4, <2>5, <2>6 DEF WaitsFor
  <1> QED
    BY <1>2, WaitingRuns DEF DeadlockAbort

\* A statement that neither looks at a file nor has rows to delete.
LEMMA SoloBefore ==
  ASSUME NEW p \in Proc, SoloInv(p), Solo(p), UNCHANGED <<cstate, op, coll>>,
         pc'[p] \notin {"body", "write"},
         op[p] \in Removing => pc'[p] \notin {"rows", "drop"}
  PROVE  SoloInv(p)'
  BY DEF SoloInv

LEMMA SoloLookAt ==
  ASSUME TypeOK, PublishInv, NEW p \in Proc, SoloInv(p), Solo(p), NEW f \in File, LookAt(p, f)
  PROVE  SoloInv(p)'
  <1>1. /\ pc[p] = "scan" /\ f \in todo[p]
        /\ UNCHANGED <<cstate, doc, op, coll>>
    BY DEF LookAt, committed, job
  <1>2. op[p] \notin Removing
    BY <1>1 DEF PublishInv, ProcInv, CommandInv, Indexing, Removing
  <1>3. CASE UNCHANGED pc
    BY <1>1, <1>2, <1>3, SoloBefore
  <1>4. CASE Indexable(f)
    <2>1. /\ seen'[p][f] = disk[f] /\ file'[p] = f /\ found'[p] = View(p, f)
          /\ p \notin stale' /\ pc'[p] = AfterLook(View(p, f), disk[f])
      BY <1>4 DEF LookAt, TypeOK
    <2>2. View(p, f) = doc[f]
      BY <1>1 DEF PublishInv, ProcInv, ReadInv, View
    <2>3. pc'[p] \in {"scan", "body", "write"}
      BY <2>1 DEF AfterLook
    <2>4. pc'[p] = "write" => ~NewReference(p)'
      BY <1>1, <2>1, <2>2 DEF AfterLook, NewReference
    <2> QED
      BY <1>1, <1>2, <2>1, <2>2, <2>3, <2>4 DEF SoloInv
  <1> QED
    BY <1>3, <1>4 DEF LookAt

LEMMA SoloInsert ==
  ASSUME TypeOK, PublishInv, NEW p \in Proc, SoloInv(p), Solo(p), InsertContent(p)
  PROVE  SoloInv(p)'
  <1>1. /\ pc[p] = "body" /\ pc'[p] = "write"
        /\ UNCHANGED <<cstate, doc, content, op, coll, file, found, seen, stale>>
        /\ ins'[p] = ins[p] \cup ({seen[p][file[p]]} \ content)
    BY DEF InsertContent, committed, job, scanning, TypeOK
  <1>2. op[p] \notin Removing
    BY <1>1 DEF PublishInv, ProcInv, CommandInv, Indexing, Removing
  <1> QED
    BY <1>1, <1>2 DEF SoloInv

LEMMA SoloChangeRow ==
  ASSUME TypeOK, NEW p \in Proc, SoloInv(p), Solo(p), NEW f \in File, ChangeRow(p, f)
  PROVE  SoloInv(p)'
  <1> USE StoreAssumption
  <1>1. /\ pc[p] = "rows" /\ pc' = pc /\ rows'[p] = rows[p] \ {f}
        /\ UNCHANGED <<cstate, doc, op, coll>>
    BY DEF ChangeRow, committed, job, TypeOK
  <1>2. \A g \in File \ {f} : cur'[g] = cur[g] /\ lock'[g] = lock[g]
    BY DEF ChangeRow, TypeOK
  <1>3. ASSUME op[p] \in Removing
        PROVE  View(p, f)' = None
    <2>1. ChangedRow(op[p], View(p, f)) = None
      BY <1>3 DEF ChangedRow, Removing
    <2>2. CASE Changes(p, f)
      <3>1. cur'[f] = None /\ lock'[f] = p
        BY <2>1, <2>2 DEF ChangeRow, TypeOK
      <3> QED
        BY <3>1 DEF View
    <2>3. CASE ~Changes(p, f)
      <3>1. View(p, f) = None
        BY <2>1, <2>3 DEF Changes
      <3>2. UNCHANGED <<cur, lock>>
        BY <2>3 DEF ChangeRow
      <3> QED
        BY <1>1, <3>1, <3>2 DEF View
    <2> QED
      BY <2>2, <2>3
  <1>4. \A g \in File \ {f} : View(p, g)' = View(p, g)
    BY <1>1, <1>2 DEF View
  <1>5. op[p] \in Removing =>
          \A g \in FilesOf(coll[p]) : View(p, g)' # None => g \in rows'[p]
    BY <1>1, <1>3, <1>4 DEF SoloInv, FilesOf
  <1> QED
    BY <1>1, <1>5 DEF SoloInv, FilesOf

LEMMA SoloUndo ==
  ASSUME TypeOK, LinkInv, PublishInv, NEW p \in Proc, SoloInv(p), Solo(p), Undo(p)
  PROVE  SoloInv(p)'
  <1>1. /\ pc[p] = "undo" /\ UNCHANGED <<cstate, doc, cur, lock, coll>>
        /\ op' = [op EXCEPT ![p] = "undo"]
    BY DEF Undo, committed, locks
  <1>2. op[p] # "cleanup"
    BY <1>1 DEF PublishInv, ProcInv, CommandInv, Indexing
  <1>3. cstate[coll[p]] = "live"
    BY <1>2 DEF SoloInv
  <1>4. pc'[p] = "rows" /\ rows'[p] = {f \in FilesOf(coll[p]) : doc[f] # None}
    BY <1>3 DEF Undo, TypeOK
  <1>5. \A f \in File : View(p, f)' = doc[f]
    BY <1>1 DEF LinkInv, RestInv, AtRest, View
  <1> QED
    BY <1>1, <1>3, <1>4, <1>5 DEF SoloInv, FilesOf

LEMMA SoloOwn ==
  ASSUME TypeOK, LinkInv, PublishInv, NEW p \in Proc, Turn(p), SoloInv(p), Solo(p),
         pc'[p] # "idle"
  PROVE  SoloInv(p)'
  <1>1. ASSUME Rollback(p)
        PROVE  SoloInv(p)'
    <2>1. UNCHANGED <<cstate, op, coll>> /\ pc' = [pc EXCEPT ![p] = "undo"]
      BY <1>1 DEF Rollback, Forget, committed, job, TypeOK
    <2> QED
      BY <2>1, SoloBefore DEF TypeOK
  <1>2. ASSUME UNCHANGED <<cstate, op, coll>>,
               NEW l \in {"scan", "sweep", "sweeping", "commit"}, pc' = [pc EXCEPT ![p] = l]
        PROVE  SoloInv(p)'
    BY <1>2, SoloBefore DEF TypeOK
  <1>3. CASE Crash(p) \/ Commit(p)
    BY <1>3 DEF Crash, Commit, TypeOK
  <1>4. CASE Resolve(p)
    <2>1. UNCHANGED <<cstate, op, coll>> /\ pc' = [pc EXCEPT ![p] = "scan"]
      BY <1>4 DEF Resolve, committed, job, TypeOK
    <2> QED
      BY <1>2, <2>1
  <1>5. CASE WriteDocument(p)
    BY <1>1, <1>2, <1>5 DEF WriteDocument, StoreRow, committed, job
  <1>6. CASE ListActive(p)
    <2>1. UNCHANGED <<cstate, op, coll>> /\ pc[p] = "scan" /\ pc'[p] = "rows"
      BY <1>6 DEF ListActive, committed, job, TypeOK
    <2>2. op[p] \notin Removing
      BY <2>1 DEF PublishInv, ProcInv, CommandInv, Indexing, Removing
    <2> QED
      BY <2>1, <2>2, SoloBefore
  <1>7. CASE RowsChanged(p)
    <2>1. /\ UNCHANGED <<cstate, doc, cur, lock, op, coll>>
          /\ pc[p] = "rows" /\ rows[p] = {}
          /\ pc'[p] = IF op[p] \in Removing THEN "drop" ELSE "sweep"
      BY <1>7 DEF RowsChanged, committed, locks, job, TypeOK, Removing
    <2>2. \A f \in File : View(p, f)' = View(p, f)
      BY <2>1 DEF View
    <2> QED
      BY <2>1, <2>2 DEF SoloInv, FilesOf
  <1>8. CASE DropCollection(p)
    BY <1>1, <1>2, <1>8 DEF DropCollection, committed, job
  <1>9. CASE BeginSweep(p)
    BY <1>2, <1>9 DEF BeginSweep, committed, job
  <1>10. CASE \E h \in Hash : SweepOne(p, h)
    BY <1>10, SoloBefore DEF SweepOne, committed, job
  <1>11. CASE EndSweep(p)
    BY <1>1, <1>2, <1>11 DEF EndSweep, committed, job
  <1> QED
    BY <1>1, <1>3, <1>4, <1>5, <1>6, <1>7, <1>8, <1>9, <1>10, <1>11,
       SoloLookAt, SoloInsert, SoloChangeRow, SoloUndo
    DEF Turn, DeadlockAbort, Statement

\* A command starts on a collection that is there, and a removal with all the
\* documents of its collection.
LEMMA SoloBegin ==
  ASSUME TypeOK, LinkInv, NEW p \in Proc, NEW o, NEW c, Start(p, o, c),
         NEW l \in {"resolve", "rows"}, pc' = [pc EXCEPT ![p] = l],
         o # "cleanup" => cstate'[c] = "live",
         o \in Removing => rows' = [rows EXCEPT ![p] = {f \in FilesOf(c) : doc[f] # None}],
         o \in Removing => l = "rows"
  PROVE  SoloInv(p)'
  <1>1. /\ UNCHANGED <<doc, cur, lock>> /\ pc[p] = "idle"
        /\ op' = [op EXCEPT ![p] = o] /\ coll' = [coll EXCEPT ![p] = c]
    BY DEF Start, locks, Running
  <1>2. pc'[p] = l /\ op'[p] = o /\ coll'[p] = c
    BY <1>1 DEF TypeOK
  <1>3. \A f \in File : View(p, f)' = doc[f]
    BY <1>1 DEF LinkInv, RestInv, AtRest, View
  <1>4. o \in Removing => rows'[p] = {f \in FilesOf(c) : doc[f] # None}
    BY DEF TypeOK
  <1> QED
    BY <1>2, <1>3, <1>4 DEF SoloInv, FilesOf

LEMMA NextSolos ==
  ASSUME TypeOK, ScanInv, LinkInv, PublishInv, RivalInv, SolosInv, [Next]_vars
  PROVE  SolosInv'
  <1>1. ASSUME NEW p \in Proc, Turn(p), NEW q \in Proc
        PROVE  SoloInv(q)'
    <2> SUFFICES ASSUME Solo(q)'
                 PROVE  SoloInv(q)'
      BY DEF SoloInv
    <2>1. p = q /\ Solo(q)
      BY <1>1, SoloTurn
    <2>2. pc'[q] # "idle"
      BY DEF Solo, Running
    <2> QED
      BY <1>1, <2>1, <2>2, SoloOwn DEF SolosInv
  <1>2. ASSUME NEW p \in Proc, NEW o, NEW c, Start(p, o, c), NEW l \in {"resolve", "rows"},
               pc' = [pc EXCEPT ![p] = l], NEW q \in Proc \ {p}
        PROVE  SoloInv(q)'
    BY <1>2, SoloStart DEF SoloInv
  <1>3. ASSUME NEW p \in Proc, NEW c \in Coll, StartReindex(p, c) \/ StartAdd(p, c)
        PROVE  SolosInv'
    <2>1. PICK o \in {"reindex", "add"} :
               Start(p, o, c) /\ pc' = [pc EXCEPT ![p] = "resolve"] /\ cstate'[c] = "live"
      BY <1>3 DEF StartReindex, StartAdd, TypeOK
    <2>2. SoloInv(p)'
      BY <2>1, SoloBegin DEF Removing
    <2> QED
      BY <1>2, <2>1, <2>2 DEF SolosInv
  <1>4. ASSUME NEW p \in Proc, NEW c \in Coll, StartRemove(p, c)
        PROVE  SolosInv'
    <2>1. /\ Start(p, "remove", c) /\ pc' = [pc EXCEPT ![p] = "rows"] /\ cstate'[c] = "live"
          /\ rows' = [rows EXCEPT ![p] = {f \in FilesOf(c) : doc[f] # None}]
      BY <1>4 DEF StartRemove
    <2>2. SoloInv(p)'
      BY <2>1, SoloBegin
    <2> QED
      BY <1>2, <2>1, <2>2 DEF SolosInv
  <1>5. ASSUME NEW p \in Proc, StartCleanup(p)
        PROVE  SolosInv'
    <2>1. Start(p, "cleanup", None) /\ pc' = [pc EXCEPT ![p] = "rows"]
      BY <1>5 DEF StartCleanup
    <2>2. SoloInv(p)'
      BY <2>1, SoloBegin DEF Removing
    <2> QED
      BY <1>2, <2>1, <2>2 DEF SolosInv
  <1>6. ASSUME UNCHANGED <<committed, locks, job, scanning, pc, rows>>
        PROVE  SolosInv'
    BY <1>6 DEF SolosInv, SoloInv, Solo, Running, NewReference, View,
       committed, locks, job, scanning
  <1>7. CASE \/ \E f \in File, v \in Hash \cup {None} : Edit(f, v)
             \/ UNCHANGED vars
    BY <1>6, <1>7 DEF Edit, vars
  <1> QED
    BY <1>1, <1>3, <1>4, <1>5, <1>7, NextTurn DEF SolosInv

\* How a command that nothing overlaps can come to fail.
LEMMA SoloFails ==
  ASSUME TypeOK, ScanInv, LinkInv, PublishInv, RivalInv, SessionInv, SweepsInv, SolosInv,
         NEW p \in Proc, Turn(p), Solo(p), outcome'[p] = "failed"
  PROVE  \/ op[p] = "reindex" /\ seen[p][file[p]] \in Poison
         \/ op[p] = "undo" /\ cstate'[coll[p]] = "removed"
  <1> USE StoreAssumption
  <1>1. outcome[p] = "running" /\ SoloInv(p) /\ SweepInv(p) /\ CommandInv(p)
    BY DEF SessionInv, Solo, SolosInv, SweepsInv, PublishInv, ProcInv
  <1>2. CASE Crash(p) \/ DeadlockAbort(p)
    BY <1>2, SoloWaits DEF Crash, TypeOK
  <1>3. CASE Resolve(p) \/ Undo(p)
    <2>1. pc[p] \in {"resolve", "undo"}
      BY <1>3 DEF Resolve, Undo
    <2>2. cstate[coll[p]] = "live"
      BY <1>1, <2>1 DEF SoloInv, CommandInv, Indexing
    <2> QED
      BY <1>1, <1>3, <2>2 DEF Resolve, Undo
  <1>4. CASE WriteDocument(p)
    <2>1. WriteRaises(p) /\ pc[p] = "write" /\ op[p] # "add"
      BY <1>1, <1>4 DEF WriteDocument, StoreRow, Rollback, UndoesOnFailure
    <2>2. op[p] = "reindex"
      BY <1>1, <2>1 DEF CommandInv, Indexing
    <2>3. /\ cstate[coll[p]] = "live" /\ found[p] = doc[file[p]] /\ p \notin stale
          /\ NewReference(p) => seen[p][file[p]] \in content \cup ins[p]
      BY <1>1, <2>1, <2>2 DEF SoloInv
    <2> QED
      BY <2>1, <2>2, <2>3 DEF WriteRaises
  <1>5. CASE DropCollection(p)
    <2>1. pc[p] = "drop" /\ CollectionInUse(p)
      BY <1>1, <1>5 DEF DropCollection
    <2> QED
      BY <1>1, <2>1 DEF CollectionInUse, SoloInv, CommandInv
  <1>6. CASE EndSweep(p)
    <2>1. pc[p] = "sweeping" /\ victims[p] = {} /\ ContentInUse(p)
      BY <1>1, <1>6 DEF EndSweep
    <2> QED
      BY <1>1, <2>1 DEF ContentInUse, SweepInv, Orphans
  <1>7. CASE Commit(p)
    <2>1. op[p] = "undo" /\ pc[p] = "commit"
      BY <1>7 DEF Commit, TypeOK
    <2>2. p \in cdel /\ coll[p] \in Coll
      BY <1>1, <2>1 DEF SoloInv, CommandInv, Sweeping, Removing
    <2> QED
      BY <1>7, <2>1, <2>2 DEF Commit, TypeOK
  <1> QED
    BY <1>1, <1>2, <1>3, <1>4, <1>5, <1>6, <1>7
    DEF Turn, Statement, LookAt, InsertContent, ListActive, ChangeRow, RowsChanged,
        BeginSweep, SweepOne

\* The order of the statements, the ON CONFLICT insert and the sweep's query
\* never make a command that nothing overlaps fail: it fails for a body the
\* database refuses, or a failed `collection add` has taken its collection back.
THEOREM LoneFailure == Spec => SoloFailure
  <1> DEFINE Inv == TypeOK /\ ScanInv /\ LinkInv /\ PublishInv /\ RivalInv /\ SessionInv
                      /\ SweepsInv /\ SolosInv
  <1>1. Init => Inv
    <2> SUFFICES ASSUME Init
                 PROVE  Inv
      OBVIOUS
    <2>1. TypeOK /\ ScanInv /\ LinkInv /\ PublishInv
      BY InitPublish
    <2>2. RivalInv /\ SessionInv /\ SweepsInv /\ SolosInv
      BY DEF Init, RivalInv, SessionInv, SweepsInv, SweepInv, SolosInv, SoloInv, Running, Solo
    <2> QED
      BY <2>1, <2>2
  <1>2. Inv /\ [Next]_vars => Inv'
    BY NextType, NextScan, NextLinks, NextPublish, NextRivals, NextSession, NextSweeps,
       NextSolos
  <1>3. Inv /\ [Next]_vars =>
          [\A p \in Proc :
             Running(p) /\ rivals[p] = {} /\ outcome'[p] = "failed" =>
               \/ op[p] = "reindex" /\ seen[p][file[p]] \in Poison
               \/ op[p] = "undo" /\ cstate'[coll[p]] = "removed"]_vars
    <2> SUFFICES ASSUME Inv, [Next]_vars, NEW p \in Proc,
                        Running(p), rivals[p] = {}, outcome'[p] = "failed"
                 PROVE  \/ op[p] = "reindex" /\ seen[p][file[p]] \in Poison
                        \/ op[p] = "undo" /\ cstate'[coll[p]] = "removed"
      OBVIOUS
    <2>1. Solo(p) /\ outcome[p] = "running"
      BY DEF Solo, SessionInv
    <2>2. CASE Turn(p)
      BY <2>1, <2>2, SoloFails
    <2>3. CASE \E q \in Proc \ {p} : Turn(q)
      BY <2>1, <2>3, TurnSession
    <2>4. ASSUME NEW q \in Proc, NEW o, NEW c, Start(q, o, c)
          PROVE  outcome'[p] = "running"
      BY <2>1, <2>4 DEF Start, TypeOK
    <2>5. CASE UNCHANGED outcome
      BY <2>1, <2>5
    <2> QED
      BY <2>2, <2>3, <2>4, <2>5, NextTurn
      DEF StartReindex, StartAdd, StartRemove, StartCleanup, Edit, vars
  <1> QED
    BY <1>1, <1>2, <1>3, PTL DEF Spec, SoloFailure

=============================================================================
