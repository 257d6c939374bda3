------------------------------- MODULE Store -------------------------------
(***************************************************************************)
(* The shared index of marq and the commands that write it.                *)
(*                                                                         *)
(* Every marq process owns one database session.  A command is a sequence  *)
(* of SQL statements in one READ COMMITTED transaction: each statement     *)
(* sees what was committed when it began, overlaid with the transaction's  *)
(* own writes.  The commands modelled are the initial and the repeated     *)
(* reindex of a collection (store/indexing.py), the removal of a           *)
(* collection (store/collection.py), `cleanup` (store/cleanup.py), and     *)
(* `collection add`, which commits the new collection before its first     *)
(* reindex and takes it back when that fails (cli/commands/write.py).      *)
(*                                                                         *)
(* Bodies are stored once, under their hash, and shared by every           *)
(* collection, so the sweep at the end of a command on one collection      *)
(* reads and deletes what a command on another one is about to use.        *)
(* PostgreSQL's row locks and foreign keys are part of the model: they are *)
(* what the commands rely on, and what makes them wait for, and fail       *)
(* because of, each other.                                                 *)
(***************************************************************************)
EXTENDS Naturals

CONSTANTS
  Proc,          \* the marq processes, one database session each
  Coll,          \* collection ids (a sequence: an id is never reused)
  File,          \* <<collection, path>>; paths are numbers, for their order
  Hash,          \* bodies, identified by their SHA-256
  Poison,        \* bodies whose search vector PostgreSQL refuses to build
  Ops,           \* the commands the processes run
  Cron,          \* processes that run `update` for ever
  MaxOps,        \* bound: commands started by a process outside Cron
  MaxMishaps,    \* bound: edits of the working trees and crashes, in all
  None

Row == [hash : Hash, active : BOOLEAN]
Command == {"reindex", "add", "undo", "remove", "cleanup"}
Location == {"idle", "scan", "body", "write", "rows", "drop", "sweep",
             "sweeping", "commit", "undo", "resolve"}

ASSUME StoreAssumption ==
  /\ File \subseteq Coll \X Nat
  /\ Poison \subseteq Hash
  /\ Ops \subseteq {"reindex", "add", "remove", "cleanup"}
  /\ Cron \subseteq Proc
  /\ MaxOps \in Nat /\ MaxMishaps \in Nat
  /\ None \notin Proc /\ None \notin Coll /\ None \notin File
  /\ None \notin Hash /\ None \notin Row

VARIABLES
  disk,      \* file -> its body, None when there is nothing to index there
  held,      \* file -> every value disk has had for it (history)
  cstate,    \* committed collection rows: "unused", "live" or "removed"
  doc,       \* committed document rows: file -> Row or None
  content,   \* committed content rows
  cur,       \* newest version of each document row, committed or not
  lock,      \* the transaction that wrote the uncommitted version, or None
  ins,       \* content rows a transaction has inserted
  del,       \* content rows a transaction has deleted
  share,     \* content rows a transaction holds FOR KEY SHARE
  cshare,    \* transactions holding their collection row FOR KEY SHARE
  cdel,      \* transactions that have deleted their collection row
  op, coll,  \* the command a process runs, or ran last, and on what
  pc,        \* the statement it is at
  todo,      \* files discovered and not yet looked at
  file,      \* the file being indexed
  found,     \* the document row the SELECT for that file returned
  stale,     \* processes whose found row has been deleted since
  seen,      \* file -> the body this reindex read, None if not in seen_paths
  rows,      \* document rows the current statement has still to change
  victims,   \* content rows the sweep's DELETE has still to delete
  outcome,   \* how the last command of a process ended
  rivals,    \* targets of the transactions that overlapped it (history)
  started, mishaps

disks == <<disk, held>>
committed == <<cstate, doc, content>>
locks == <<cur, lock, ins, del, share, cshare, cdel>>
job == <<op, coll, rivals, started>>
scanning == <<todo, file, found, stale, seen>>
vars == <<disks, committed, locks, job, scanning, pc, rows, victims, outcome,
          mishaps>>

CollOf(f) == f[1]
FilesOf(c) == {f \in File : CollOf(f) = c}

\* The version of a document row a statement of p sees.
View(p, f) == IF lock[f] = p THEN cur[f] ELSE doc[f]

\* The hashes the document rows refer to, as a statement of p sees them.
Referenced(p) == {View(p, f).hash : f \in {g \in File : View(p, g) # None}}

Running(p) == pc[p] # "idle"

TypeOK ==
  /\ disk \in [File -> Hash \cup {None}]
  /\ held \in [File -> SUBSET (Hash \cup {None})]
  /\ cstate \in [Coll -> {"unused", "live", "removed"}]
  /\ doc \in [File -> Row \cup {None}]
  /\ content \in SUBSET Hash
  /\ cur \in [File -> Row \cup {None}]
  /\ lock \in [File -> Proc \cup {None}]
  /\ ins \in [Proc -> SUBSET Hash]
  /\ del \in [Proc -> SUBSET Hash]
  /\ share \in [Proc -> SUBSET Hash]
  /\ cshare \in SUBSET Proc /\ cdel \in SUBSET Proc
  /\ op \in [Proc -> Command \cup {None}]
  /\ coll \in [Proc -> Coll \cup {None}]
  /\ pc \in [Proc -> Location]
  /\ todo \in [Proc -> SUBSET File]
  /\ file \in [Proc -> File \cup {None}]
  /\ found \in [Proc -> Row \cup {None}]
  /\ stale \in SUBSET Proc
  /\ seen \in [Proc -> [File -> Hash \cup {None}]]
  /\ rows \in [Proc -> SUBSET File]
  /\ victims \in [Proc -> SUBSET Hash]
  /\ outcome \in [Proc -> {"none", "running", "ok", "failed", "crashed"}]
  /\ rivals \in [Proc -> SUBSET (Coll \cup {None})]
  /\ started \in [Proc -> Nat] /\ mishaps \in Nat

\* Any database the commands can have left behind, at rest, over any trees:
\* documents active or not, bodies nobody refers to any more included.
Init ==
  /\ disk \in [File -> Hash \cup {None}]
  /\ held = [f \in File |-> {disk[f]}]
  /\ cstate \in [Coll -> {"unused", "live"}]
  /\ doc \in [File -> Row \cup {None}]
  /\ \A f \in File : doc[f] # None => cstate[CollOf(f)] = "live"
  /\ content \in SUBSET Hash
  /\ \A f \in File : doc[f] # None => doc[f].hash \in content
  /\ cur = doc
  /\ lock = [f \in File |-> None]
  /\ ins = [p \in Proc |-> {}] /\ del = [p \in Proc |-> {}]
  /\ share = [p \in Proc |-> {}]
  /\ cshare = {} /\ cdel = {} /\ stale = {}
  /\ op = [p \in Proc |-> None] /\ coll = [p \in Proc |-> None]
  /\ pc = [p \in Proc |-> "idle"]
  /\ todo = [p \in Proc |-> {}] /\ file = [p \in Proc |-> None]
  /\ found = [p \in Proc |-> None]
  /\ seen = [p \in Proc |-> [f \in File |-> None]]
  /\ rows = [p \in Proc |-> {}] /\ victims = [p \in Proc |-> {}]
  /\ outcome = [p \in Proc |-> "none"]
  /\ rivals = [p \in Proc |-> {}]
  /\ started = [p \in Proc |-> 0] /\ mishaps = 0

-----------------------------------------------------------------------------
(* Plausible bugs: what an operator below would be if the code were wrong. *)
(* No action uses them; they show that the properties would notice.        *)

\* `collection add` does not take back the collection it committed.
UndoesNever(o) == FALSE

\* A blank or unreadable file counts as read.
IndexableAlways(f) == TRUE

\* The loop compares hashes only, and leaves a reappeared file inactive.
AfterLookIgnoringActive(row, h) ==
  IF row # None /\ row.hash = h THEN "scan" ELSE "body"

\* update_document does not set active.
IndexedRowStillInactive(row, newest, h) ==
  IF row = None THEN [hash |-> h, active |-> TRUE]
  ELSE [hash |-> IF row.hash # h THEN h ELSE newest.hash,
        active |-> newest.active]

\* The DELETE of inactive documents trusts the row it selected.
ChangedRowNoRecheck(o, row) ==
  IF o \in {"reindex", "add"} THEN [hash |-> row.hash, active |-> FALSE] ELSE None

\* document.collection_id and document.hash without their foreign keys.
CollectionInUseUnchecked(p) == FALSE
ContentInUseUnchecked(p) == FALSE

\* The sweep looks at active documents only, as an earlier version did.
OrphansOfActive(p) ==
  (content \cup ins[p])
    \ {View(p, f).hash : f \in {g \in File : View(p, g) # None /\ View(p, g).active}}

\* The sweep looks only at what this command has stopped referring to.
OrphansOfThisCommand(p) ==
  {doc[f].hash : f \in {g \in File : doc[g] # None}} \ Referenced(p)

-----------------------------------------------------------------------------
(* What a statement waits for.  PostgreSQL holds every lock to the end of  *)
(* the transaction.                                                        *)

\* The statement sets document.hash to a value its row does not have yet,
\* so the foreign key to content is checked.
NewReference(p) ==
  LET f == file[p] IN
  seen[p][f] \notin {row.hash : row \in {found[p], doc[f]} \ {None}}

Deleting(q, f) == lock[f] = q /\ cur[f] = None

\* The transactions that hold what the statement p is at needs.
WaitsFor(p) ==
  {q \in Proc \ {p} :
    \/ /\ pc[p] = "body"
       /\ seen[p][file[p]] \in ins[q] \cup del[q]
    \/ /\ pc[p] = "write"
       /\ \/ lock[file[p]] = q
          \/ NewReference(p) /\ seen[p][file[p]] \in del[q]
          \/ found[p] = None /\ q \in cdel /\ coll[q] = coll[p]
    \/ /\ pc[p] = "rows"
       /\ \E f \in rows[p] : lock[f] = q
    \/ /\ pc[p] = "drop"
       /\ \/ q \in cshare \cup cdel /\ coll[q] = coll[p]
          \/ \E f \in FilesOf(coll[p]) : Deleting(q, f)
    \/ /\ pc[p] = "sweeping"
       /\ \/ victims[p] \cap (share[q] \cup del[q]) # {}
          \/ /\ victims[p] = {}
             /\ \E f \in File : /\ Deleting(q, f) /\ doc[f] # None
                                /\ doc[f].hash \in del[p]}

\* A cycle of waiting transactions: nobody in S can go on before another one
\* of S has, and no part of S is already such a cycle.
Knot(S) == S # {} /\ \A p \in S : WaitsFor(p) \cap S # {}
Deadlocked(p) ==
  \E S \in SUBSET Proc :
    p \in S /\ Knot(S) /\ \A T \in SUBSET S : Knot(T) => T = S

-----------------------------------------------------------------------------
(* Ends of a transaction.                                                  *)

\* Locks, uncommitted rows and the session's objects go with it.
Release(p) ==
  /\ lock' = [f \in File |-> IF lock[f] = p THEN None ELSE lock[f]]
  /\ ins' = [ins EXCEPT ![p] = {}]
  /\ del' = [del EXCEPT ![p] = {}]
  /\ share' = [share EXCEPT ![p] = {}]
  /\ cshare' = cshare \ {p}
  /\ cdel' = cdel \ {p}
  /\ todo' = [todo EXCEPT ![p] = {}]
  /\ file' = [file EXCEPT ![p] = None]
  /\ found' = [found EXCEPT ![p] = None]
  /\ seen' = [seen EXCEPT ![p] = [f \in File |-> None]]

Forget(p) ==
  /\ Release(p)
  /\ cur' = [f \in File |-> IF lock[f] = p THEN doc[f] ELSE cur[f]]
  /\ stale' = stale \ {p}
  /\ rows' = [rows EXCEPT ![p] = {}]
  /\ victims' = [victims EXCEPT ![p] = {}]
  /\ UNCHANGED <<committed, disks>>

\* A failed initial reindex takes the committed collection back.
UndoesOnFailure(o) == o = "add"

\* A statement raised: the transaction is rolled back.
Rollback(p) ==
  /\ Forget(p)
  /\ \/ /\ UndoesOnFailure(op[p])
        /\ pc' = [pc EXCEPT ![p] = "undo"]
        /\ UNCHANGED outcome
     \/ /\ ~UndoesOnFailure(op[p])
        /\ pc' = [pc EXCEPT ![p] = "idle"]
        /\ outcome' = [outcome EXCEPT ![p] = "failed"]
  /\ UNCHANGED <<job, mishaps>>

\* COMMIT: the uncommitted versions become the committed ones.  A row another
\* process has SELECTed and that is deleted now is gone for its UPDATE by id.
Commit(p) ==
  LET deleted == {f \in File : Deleting(p, f)} IN
  /\ pc[p] = "commit"
  /\ doc' = [f \in File |-> View(p, f)]
  /\ content' = (content \cup ins[p]) \ del[p]
  /\ cstate' = IF p \in cdel THEN [cstate EXCEPT ![coll[p]] = "removed"]
                             ELSE cstate
  /\ stale' = (stale \cup {q \in Proc : file[q] \in deleted}) \ {p}
  /\ Release(p)
  /\ pc' = [pc EXCEPT ![p] = "idle"]
  /\ outcome' = [outcome EXCEPT ![p] = IF op[p] = "undo" THEN "failed" ELSE "ok"]
  /\ UNCHANGED <<disks, cur, job, rows, victims, mishaps>>

\* The process dies, or its connection does: the server rolls back.
Crash(p) ==
  /\ Running(p)
  /\ mishaps < MaxMishaps
  /\ mishaps' = mishaps + 1
  /\ Forget(p)
  /\ pc' = [pc EXCEPT ![p] = "idle"]
  /\ outcome' = [outcome EXCEPT ![p] = "crashed"]
  /\ UNCHANGED job

\* PostgreSQL's deadlock detector ends one transaction of the cycle.
DeadlockAbort(p) == Deadlocked(p) /\ Rollback(p)

\* An editor, a branch switch, an update command: a file of a tree changes.
Edit(f, v) ==
  /\ mishaps < MaxMishaps
  /\ mishaps' = mishaps + 1
  /\ disk[f] # v
  /\ disk' = [disk EXCEPT ![f] = v]
  /\ held' = [held EXCEPT ![f] = @ \cup {v}]
  /\ UNCHANGED <<committed, locks, job, scanning, pc, rows, victims, outcome>>

-----------------------------------------------------------------------------
(* Starting a command.                                                     *)

Start(p, o, c) ==
  /\ ~Running(p) /\ o \in Ops
  /\ \/ p \in Cron /\ o = "reindex"
     \/ p \notin Cron /\ started[p] < MaxOps
  /\ started' = [started EXCEPT ![p] = IF p \in Cron THEN @ ELSE @ + 1]
  /\ op' = [op EXCEPT ![p] = o]
  /\ coll' = [coll EXCEPT ![p] = c]
  /\ outcome' = [outcome EXCEPT ![p] = "running"]
  /\ rivals' = [q \in Proc |->
       IF q = p THEN {coll[r] : r \in {s \in Proc : Running(s)}}
       ELSE IF Running(q) THEN rivals[q] \cup {c} ELSE rivals[q]]
  /\ UNCHANGED <<disks, locks, scanning, doc, content, victims, mishaps>>

StartReindex(p, c) ==
  /\ cstate[c] = "live"
  /\ Start(p, "reindex", c)
  /\ pc' = [pc EXCEPT ![p] = "resolve"]
  /\ UNCHANGED <<cstate, rows>>

\* `collection add` commits the collection row, then reindexes.
StartAdd(p, c) ==
  /\ cstate[c] = "unused"
  /\ Start(p, "add", c)
  /\ cstate' = [cstate EXCEPT ![c] = "live"]
  /\ pc' = [pc EXCEPT ![p] = "resolve"]
  /\ UNCHANGED rows

\* `collection remove`: DELETE FROM document WHERE collection_id = c.
StartRemove(p, c) ==
  /\ cstate[c] = "live"
  /\ Start(p, "remove", c)
  /\ pc' = [pc EXCEPT ![p] = "rows"]
  /\ rows' = [rows EXCEPT ![p] = {f \in FilesOf(c) : doc[f] # None}]
  /\ UNCHANGED cstate

\* `cleanup`: DELETE FROM document WHERE NOT active, in every collection.
StartCleanup(p) ==
  /\ Start(p, "cleanup", None)
  /\ pc' = [pc EXCEPT ![p] = "rows"]
  /\ rows' = [rows EXCEPT ![p] =
                {f \in File : doc[f] # None /\ ~doc[f].active}]
  /\ UNCHANGED cstate

\* remove_collection again, for an initial reindex that failed; it raises
\* CollectionNotFoundError when another process has removed the collection.
Undo(p) ==
  /\ pc[p] = "undo"
  /\ op' = [op EXCEPT ![p] = "undo"]
  /\ \/ /\ cstate[coll[p]] = "live"
        /\ pc' = [pc EXCEPT ![p] = "rows"]
        /\ rows' = [rows EXCEPT ![p] = {f \in FilesOf(coll[p]) : doc[f] # None}]
        /\ UNCHANGED outcome
     \/ /\ cstate[coll[p]] # "live"
        /\ pc' = [pc EXCEPT ![p] = "idle"]
        /\ outcome' = [outcome EXCEPT ![p] = "failed"]
        /\ UNCHANGED rows
  /\ UNCHANGED <<disks, committed, locks, coll, rivals, started, scanning,
                 victims, mishaps>>

-----------------------------------------------------------------------------
(* _reindex_collection_impl                                                *)

\* _resolve_owned_collection and _discover_files.  A file that has nothing to
\* index may be there all the same (blank, oversize, not UTF-8), and be listed.
Resolve(p) ==
  /\ pc[p] = "resolve"
  /\ \/ /\ cstate[coll[p]] = "live"
        /\ pc' = [pc EXCEPT ![p] = "scan"]
        /\ seen' = [seen EXCEPT ![p] = [f \in File |-> None]]
        /\ \E S \in SUBSET FilesOf(coll[p]) :
             /\ {f \in FilesOf(coll[p]) : disk[f] # None} \subseteq S
             /\ todo' = [todo EXCEPT ![p] = S]
        /\ UNCHANGED outcome
     \/ /\ cstate[coll[p]] # "live"
        /\ pc' = [pc EXCEPT ![p] = "idle"]
        /\ outcome' = [outcome EXCEPT ![p] = "failed"]
        /\ UNCHANGED <<seen, todo>>
  /\ UNCHANGED <<disks, committed, locks, job, file, found, stale, rows,
                 victims, mishaps>>

\* Where the loop goes with a body read and the row found for its path.
\* Titles are a function of path and body.
AfterLook(row, h) ==
  IF row # None /\ row.hash = h
    THEN IF row.active THEN "scan" ELSE "write"
    ELSE "body"

\* A file that can be read, is not blank and is not oversize goes on to be
\* indexed; any other is passed over, and is not in seen_paths.
Indexable(f) == disk[f] # None

\* The files are read in sorted order.
LookAt(p, f) ==
  /\ pc[p] = "scan" /\ f \in todo[p]
  /\ \A g \in todo[p] : f[2] <= g[2]
  /\ todo' = [todo EXCEPT ![p] = @ \ {f}]
  /\ \/ ~Indexable(f) /\ UNCHANGED <<pc, seen, file, found, stale>>
     \/ /\ Indexable(f)
        /\ seen' = [seen EXCEPT ![p] = [@ EXCEPT ![f] = disk[f]]]
        /\ file' = [file EXCEPT ![p] = f]
        /\ found' = [found EXCEPT ![p] = View(p, f)]
        /\ stale' = stale \ {p}
        /\ pc' = [pc EXCEPT ![p] = AfterLook(View(p, f), disk[f])]
  /\ UNCHANGED <<disks, committed, locks, job, rows, victims, outcome, mishaps>>

\* insert_content: INSERT ... ON CONFLICT DO NOTHING locks no existing row.
InsertContent(p) ==
  LET h == seen[p][file[p]] IN
  /\ pc[p] = "body" /\ WaitsFor(p) = {}
  /\ ins' = [ins EXCEPT ![p] = @ \cup ({h} \ content)]
  /\ pc' = [pc EXCEPT ![p] = "write"]
  /\ UNCHANGED <<disks, committed, cur, lock, del, share, cshare, cdel, job,
                 scanning, rows, victims, outcome, mishaps>>

\* The unique key on (collection_id, path), the two foreign keys, and the row
\* the ORM updates by id.
WriteRaises(p) ==
  LET f == file[p]
      h == seen[p][f] IN
  \/ h \in Poison
  \/ found[p] = None /\ (doc[f] # None \/ cstate[coll[p]] # "live")
  \/ found[p] # None /\ (doc[f] = None \/ p \in stale)
  \/ NewReference(p) /\ h \notin content \cup ins[p]

\* insert_document, or update_document, whose UPDATE sets the columns whose
\* value differs from the row that was SELECTed, on the newest version.
IndexedRow(row, newest, h) ==
  IF row = None THEN [hash |-> h, active |-> TRUE]
  ELSE [hash |-> IF row.hash # h THEN h ELSE newest.hash,
        active |-> newest.active \/ ~row.active]

StoreRow(p) ==
  LET f == file[p]
      h == seen[p][f] IN
  /\ cur' = [cur EXCEPT ![f] = IndexedRow(found[p], doc[f], h)]
  /\ lock' = [lock EXCEPT ![f] = p]
  /\ share' = IF NewReference(p)
                THEN [share EXCEPT ![p] = @ \cup {h}] ELSE share
  /\ cshare' = IF found[p] = None THEN cshare \cup {p} ELSE cshare
  /\ pc' = [pc EXCEPT ![p] = "scan"]
  /\ UNCHANGED <<disks, committed, ins, del, cdel, job, scanning, rows, victims,
                 outcome, mishaps>>

WriteDocument(p) ==
  /\ pc[p] = "write" /\ WaitsFor(p) = {}
  /\ \/ WriteRaises(p) /\ Rollback(p)
     \/ ~WriteRaises(p) /\ StoreRow(p)

\* get_active_document_paths, less seen_paths: what is to be deactivated.
NotRead(p) ==
  {f \in FilesOf(coll[p]) :
    View(p, f) # None /\ View(p, f).active /\ seen[p][f] = None}

ListActive(p) ==
  /\ pc[p] = "scan" /\ todo[p] = {}
  /\ rows' = [rows EXCEPT ![p] = NotRead(p)]
  /\ pc' = [pc EXCEPT ![p] = "rows"]
  /\ UNCHANGED <<disks, committed, locks, job, scanning, victims, outcome, mishaps>>

-----------------------------------------------------------------------------
(* Statements that change several document rows, one row at a time.        *)

\* What becomes of a row that exists: deactivate_document, the DELETE of
\* remove_collection, and that of delete_inactive_documents, which looks at
\* the newest version again once it has the row's lock.
ChangedRow(o, row) ==
  IF o \in {"reindex", "add"} THEN [hash |-> row.hash, active |-> FALSE]
  ELSE IF o = "cleanup" /\ row.active THEN row
  ELSE None

Changes(p, f) ==
  View(p, f) # None /\ ChangedRow(op[p], View(p, f)) # View(p, f)

ChangeRow(p, f) ==
  /\ pc[p] = "rows" /\ f \in rows[p] /\ lock[f] \in {None, p}
  /\ rows' = [rows EXCEPT ![p] = @ \ {f}]
  /\ \/ ~Changes(p, f) /\ UNCHANGED <<cur, lock>>
     \/ /\ Changes(p, f)
        /\ cur' = [cur EXCEPT ![f] = ChangedRow(op[p], View(p, f))]
        /\ lock' = [lock EXCEPT ![f] = p]
  /\ UNCHANGED <<disks, committed, ins, del, share, cshare, cdel, job, scanning,
                 pc, victims, outcome, mishaps>>

RowsChanged(p) ==
  /\ pc[p] = "rows" /\ rows[p] = {}
  /\ pc' = [pc EXCEPT ![p] = IF op[p] \in {"remove", "undo"} THEN "drop"
                                                              ELSE "sweep"]
  /\ UNCHANGED <<disks, committed, locks, job, scanning, rows, victims, outcome,
                 mishaps>>

\* The foreign key document.collection_id: DELETE FROM collection is refused
\* while a document refers to the collection.
CollectionInUse(p) == \E f \in FilesOf(coll[p]) : View(p, f) # None

DropCollection(p) ==
  /\ pc[p] = "drop" /\ WaitsFor(p) = {}
  /\ \/ CollectionInUse(p) /\ Rollback(p)
     \/ /\ ~CollectionInUse(p)
        /\ cdel' = IF cstate[coll[p]] = "live" THEN cdel \cup {p} ELSE cdel
        /\ pc' = [pc EXCEPT ![p] = "sweep"]
        /\ UNCHANGED <<disks, committed, cur, lock, ins, del, share, cshare,
                       job, scanning, rows, victims, outcome, mishaps>>

-----------------------------------------------------------------------------
(* cleanup_orphaned_content: the last statement of every command.          *)

\* Content no document refers to, active or not, in any collection.
Orphans(p) == (content \cup ins[p]) \ Referenced(p)

BeginSweep(p) ==
  /\ pc[p] = "sweep"
  /\ victims' = [victims EXCEPT ![p] = Orphans(p)]
  /\ pc' = [pc EXCEPT ![p] = "sweeping"]
  /\ UNCHANGED <<disks, committed, locks, job, scanning, rows, outcome, mishaps>>

\* One row of the DELETE, once no other transaction needs it to stay or is
\* deleting it; it may have been deleted since the snapshot.
SweepOne(p, h) ==
  /\ pc[p] = "sweeping" /\ h \in victims[p]
  /\ \A q \in Proc \ {p} : h \notin share[q] \cup del[q]
  /\ victims' = [victims EXCEPT ![p] = @ \ {h}]
  /\ del' = [del EXCEPT ![p] = @ \cup ({h} \cap (content \cup ins[p]))]
  /\ UNCHANGED <<disks, committed, cur, lock, ins, share, cshare, cdel, job,
                 scanning, pc, rows, outcome, mishaps>>

\* The foreign key document.hash, checked at the end of the DELETE on what is
\* committed by then.
ContentInUse(p) == Referenced(p) \cap del[p] # {}

EndSweep(p) ==
  /\ pc[p] = "sweeping" /\ victims[p] = {} /\ WaitsFor(p) = {}
  /\ \/ ContentInUse(p) /\ Rollback(p)
     \/ /\ ~ContentInUse(p)
        /\ pc' = [pc EXCEPT ![p] = "commit"]
        /\ UNCHANGED <<disks, committed, locks, job, scanning, rows, victims,
                       outcome, mishaps>>

-----------------------------------------------------------------------------
Statement(p) ==
  \/ Resolve(p)
  \/ \E f \in File : LookAt(p, f)
  \/ InsertContent(p)
  \/ WriteDocument(p)
  \/ ListActive(p)
  \/ \E f \in File : ChangeRow(p, f)
  \/ RowsChanged(p)
  \/ DropCollection(p)
  \/ BeginSweep(p)
  \/ \E h \in Hash : SweepOne(p, h)
  \/ EndSweep(p)
  \/ Undo(p)
  \/ Commit(p)

\* Nothing has to happen once every process is at rest.
Rest == /\ \A p \in Proc : ~Running(p)
        /\ UNCHANGED vars

Next ==
  \/ \E p \in Proc :
       \/ Statement(p)
       \/ DeadlockAbort(p)
       \/ Crash(p)
       \/ \E c \in Coll : StartReindex(p, c) \/ StartAdd(p, c) \/ StartRemove(p, c)
       \/ StartCleanup(p)
  \/ \E f \in File, v \in Hash \cup {None} : Edit(f, v)
  \/ Rest

Spec == Init /\ [][Next]_vars

\* A session runs its next statement, the server detects deadlocks, and the
\* scheduled processes come round to every collection again and again.
Fairness ==
  /\ \A p \in Proc : WF_vars(Statement(p)) /\ WF_vars(DeadlockAbort(p))
  /\ \A p \in Cron, c \in Coll : SF_vars(StartReindex(p, c))

FairSpec == Spec /\ Fairness

-----------------------------------------------------------------------------
(* Properties.                                                             *)

\* What a reader of the index sees at a path.
Indexed(D, f) == IF D[f] # None /\ D[f].active THEN D[f].hash ELSE None

\* Every document, active or not, has its body: no interleaving of the sweeps
\* with the reindexes that are about to use an unreferenced body loses one.
BodyPresent == \A f \in File : doc[f] # None => doc[f].hash \in content

\* A document belongs to a collection that exists: a reindex under way cannot
\* bring documents back into a collection that another process removes.
NoOrphanDocument ==
  \A f \in File : doc[f] # None => cstate[CollOf(f)] = "live"

\* A command no other transaction overlaps fails for one reason only, a body
\* the database refuses, and then a failed `collection add` has taken its
\* collection back.  The ON CONFLICT insert, the order of the statements and
\* the sweep's query never make a lone command trip over a constraint.
SoloFailure ==
  [][\A p \in Proc :
       Running(p) /\ rivals[p] = {} /\ outcome'[p] = "failed" =>
         \/ op[p] = "reindex" /\ seen[p][file[p]] \in Poison
         \/ op[p] = "undo" /\ cstate'[coll[p]] = "removed"]_vars

\* A reindex that commits, and that no other command on the same collection
\* overlapped, leaves exactly what it read: each file it read is active with
\* the body read, and nothing else of the collection is active, whatever
\* commands on other collections and `cleanup` did meanwhile.
PublishesWhatItRead ==
  [][\A p \in Proc :
       /\ pc[p] = "commit" /\ outcome'[p] = "ok"
       /\ op[p] \in {"reindex", "add"} /\ coll[p] \notin rivals[p]
       => \A f \in FilesOf(coll[p]) : Indexed(doc', f) = seen[p][f]]_vars

\* A command that no other transaction overlaps leaves no content row that
\* nobody refers to, those earlier commands left behind included.
SoloSweepReclaims ==
  [][\A p \in Proc :
       pc[p] = "commit" /\ outcome'[p] # outcome[p] /\ rivals[p] = {}
         /\ outcome'[p] # "crashed"
       => content' = {doc'[f].hash : f \in {g \in File : doc'[g] # None}}]_vars

\* Once the trees rest and the other commands are over, the scheduled reindex
\* brings the index to what is on disk, and there it stays.
InSync == \A f \in File : cstate[CollOf(f)] = "live" => Indexed(doc, f) = disk[f]
Converges == <>[]InSync

\* Readers see the commands as single steps on one collection (Catalog.tla).
Cat == INSTANCE Catalog WITH idx <- [f \in File |-> Indexed(doc, f)]
ImplementsCatalog == Cat!Spec

=============================================================================
