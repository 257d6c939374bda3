-------------------------------- MODULE Update --------------------------------
(***************************************************************************)
(* `marq update`: the loop that runs each collection's update command and  *)
(* reindexes it (cli/commands/write.py, _update_impl).                     *)
(*                                                                         *)
(* A reindex is one step here: what it does to the shared store, and how   *)
(* it fares against other commands there, is Store's subject.  This module *)
(* is about the loop: which failures it survives, what it reports, and     *)
(* what the other commands and the file system do between its steps.       *)
(***************************************************************************)
EXTENDS Naturals

CONSTANTS
  Name,         \* collection names; numbers, for the order they are listed in
  Tree,         \* what the files of a collection can be
  Gone,         \* a source directory that is not there, an index without files
  NoName,
  MaxChanges    \* bound: what other processes change, over all

ASSUME UpdateAssumption ==
  /\ Name \subseteq Nat
  /\ Gone \notin Tree
  /\ NoName \notin Name
  /\ MaxChanges \in Nat

VARIABLES
  registered,   \* names in the collection table
  commanded,    \* names with an update command
  tree,         \* name -> what is in its source directory now, or Gone
  index,        \* name -> what its active documents are
  pc,           \* where the loop is
  todo,         \* listed collections it has not come to
  row,          \* the collection it is at
  listed,       \* the collections list_collections returned
  failures,     \* those it has noted a failure for
  reindexed,    \* those whose reindex it has committed (history)
  exit,         \* how the last run ended
  quiet,        \* nobody else has changed anything during the run (history)
  changes

shared == <<registered, commanded, tree, index>>
run == <<pc, todo, row, listed, failures, reindexed, exit>>
vars == <<shared, run, quiet, changes>>

Files == Tree \cup {Gone}

TypeOK ==
  /\ registered \in SUBSET Name /\ commanded \in SUBSET Name
  /\ tree \in [Name -> Files] /\ index \in [Name -> Files]
  /\ pc \in {"idle", "next", "command", "reindex"}
  /\ todo \in SUBSET Name /\ row \in Name \cup {NoName}
  /\ listed \in SUBSET Name /\ failures \in SUBSET Name
  /\ reindexed \in SUBSET Name
  /\ exit \in {"none", "ok", "failed", "traceback", "killed"}
  /\ quiet \in BOOLEAN /\ changes \in Nat
  /\ commanded \subseteq registered /\ todo \subseteq listed
  /\ row = NoName <=> pc \in {"idle", "next"}
  /\ \A n \in Name \ registered : index[n] = Gone

Init ==
  /\ registered \in SUBSET Name /\ commanded \in SUBSET registered
  /\ tree \in [Name -> Files]
  /\ index \in [Name -> Files]
  /\ \A n \in Name \ registered : index[n] = Gone
  /\ pc = "idle" /\ todo = {} /\ row = NoName
  /\ listed = {} /\ failures = {} /\ reindexed = {}
  /\ exit = "none" /\ quiet = TRUE /\ changes = 0

-----------------------------------------------------------------------------
(* Plausible bugs, for the sensitivity checks.                             *)

\* A failed update command is logged but not kept for the summary.
NotedSilently(n) == failures
\* A failed update command does not stop the reindex of its collection.
AfterFailureGoesOn == "reindex"
\* The update command runs without a time limit.
MayTimeOutNever == FALSE
\* Only files that are there are brought in; none is deactivated.
SyncedAddsOnly(n) == IF tree[n] = Gone THEN index[n] ELSE tree[n]
\* The new name of a collection is not written back to its row.
RenamedNowhere(S, n, m) == S

-----------------------------------------------------------------------------
(* The loop.                                                               *)

\* list_collections, by name; without any there is nothing to do.
Begin ==
  /\ pc = "idle"
  /\ listed' = registered /\ todo' = registered
  /\ failures' = {} /\ reindexed' = {}
  /\ quiet' = TRUE
  /\ \/ registered = {} /\ exit' = "ok" /\ UNCHANGED pc
     \/ registered # {} /\ exit' = "none" /\ pc' = "next"
  /\ UNCHANGED <<shared, row, changes>>

\* An exception nothing in the loop catches ends the process.
Abort ==
  /\ pc' = "idle" /\ row' = NoName /\ todo' = {}
  /\ exit' = "traceback"
  /\ UNCHANGED <<shared, listed, failures, reindexed, quiet, changes>>

\* get_collection raises CollectionNotFoundError for a collection that has been
\* removed or renamed since it was listed.  subprocess.run raises
\* FileNotFoundError when the directory it is to run the command in is gone.
Take(n) ==
  /\ pc = "next" /\ n \in todo /\ \A m \in todo : n <= m
  /\ \/ n \notin registered /\ Abort
     \/ n \in registered \cap commanded /\ tree[n] = Gone /\ Abort
     \/ /\ n \in registered
        /\ \/ n \notin commanded /\ pc' = "reindex"
           \/ n \in commanded /\ tree[n] # Gone /\ pc' = "command"
        /\ todo' = todo \ {n} /\ row' = n
        /\ UNCHANGED <<shared, listed, failures, reindexed, exit, quiet, changes>>

\* What the summary at the end of the run keeps of a failure.
Noted(n) == failures \cup {n}

\* `continue`
AfterFailure == "next"

Fail ==
  /\ failures' = Noted(row)
  /\ pc' = AfterFailure
  /\ row' = IF AfterFailure = "next" THEN NoName ELSE row
  /\ UNCHANGED <<registered, commanded, todo, listed, reindexed, exit, quiet, changes>>

\* The command has brought the tree up to date.
CommandSucceeds(t) ==
  /\ pc = "command"
  /\ tree' = [tree EXCEPT ![row] = t]
  /\ pc' = "reindex"
  /\ UNCHANGED <<registered, commanded, index, todo, row, listed, failures,
                 reindexed, exit, quiet, changes>>

\* It exits with another status; the tree may be half updated.
CommandFails(t) ==
  /\ pc = "command"
  /\ tree' = [tree EXCEPT ![row] = t]
  /\ Fail
  /\ UNCHANGED index

\* It is killed when its time is up.
MayTimeOut == TRUE
CommandTimesOut(t) ==
  /\ pc = "command" /\ MayTimeOut
  /\ tree' = [tree EXCEPT ![row] = t]
  /\ Fail
  /\ UNCHANGED index

\* Its output is not text in the locale's encoding: subprocess.run, asked for
\* text, raises UnicodeDecodeError.
CommandGarbles == pc = "command" /\ Abort

\* What a reindex leaves active: what is on disk, and nothing of a directory
\* that is gone, which the walk takes for an empty one.
Synced(n) == tree[n]

ReindexSucceeds ==
  /\ pc = "reindex" /\ row \in registered
  /\ index' = [index EXCEPT ![row] = Synced(row)]
  /\ reindexed' = reindexed \cup {row}
  /\ pc' = "next" /\ row' = NoName
  /\ UNCHANGED <<registered, commanded, tree, todo, listed, failures, exit, quiet,
                 changes>>

\* A SQLAlchemyError or an OSError: rolled back and noted.
ReindexFails ==
  /\ pc = "reindex" /\ row \in registered
  /\ failures' = failures \cup {row}
  /\ pc' = "next" /\ row' = NoName
  /\ UNCHANGED <<shared, todo, listed, reindexed, exit, quiet, changes>>

\* reindex_collection raises CollectionNotFoundError, which is neither.
ReindexFindsNothing == pc = "reindex" /\ row \notin registered /\ Abort

Finish ==
  /\ pc = "next" /\ todo = {}
  /\ pc' = "idle"
  /\ exit' = IF failures = {} THEN "ok" ELSE "failed"
  /\ UNCHANGED <<shared, todo, row, listed, failures, reindexed, quiet, changes>>

-----------------------------------------------------------------------------
(* Everybody else.                                                         *)

Killed ==
  /\ pc # "idle" /\ changes < MaxChanges /\ changes' = changes + 1
  /\ pc' = "idle" /\ row' = NoName /\ todo' = {}
  /\ exit' = "killed"
  /\ UNCHANGED <<shared, listed, failures, reindexed, quiet>>

Elsewhere ==
  /\ changes < MaxChanges /\ changes' = changes + 1
  /\ quiet' = FALSE
  /\ UNCHANGED run

\* An edit, a branch switch, a disk that is not mounted.
Touch(n, t) ==
  /\ tree[n] # t /\ tree' = [tree EXCEPT ![n] = t]
  /\ Elsewhere
  /\ UNCHANGED <<registered, commanded, index>>

\* `collection remove`, by another process.
Remove(n) ==
  /\ n \in registered /\ registered' = registered \ {n}
  /\ commanded' = commanded \ {n}
  /\ index' = [index EXCEPT ![n] = Gone]
  /\ Elsewhere
  /\ UNCHANGED tree

Renamed(S, n, m) == IF n \in S THEN (S \ {n}) \cup {m} ELSE S

\* `collection rename`: the row keeps its path, command and documents.
Rename(n, m) ==
  /\ n \in registered /\ m \in Name \ registered
  /\ registered' = Renamed(registered, n, m)
  /\ commanded' = Renamed(commanded, n, m)
  /\ tree' = [tree EXCEPT ![m] = tree[n]]
  /\ index' = [index EXCEPT ![m] = index[n], ![n] = Gone]
  /\ Elsewhere

\* `collection update-cmd`, with or without a command.
SetUpdateCommand(n) ==
  /\ n \in registered
  /\ commanded' \in {commanded \cup {n}, commanded \ {n}} \ {commanded}
  /\ Elsewhere
  /\ UNCHANGED <<registered, tree, index>>

Loop ==
  \/ \E n \in Name : Take(n)
  \/ \E t \in Files : CommandTimesOut(t)
  \/ ReindexSucceeds
  \/ ReindexFails
  \/ ReindexFindsNothing
  \/ Finish

Next ==
  \/ Begin
  \/ Loop
  \/ \E t \in Files : CommandSucceeds(t) \/ CommandFails(t)
  \/ CommandGarbles
  \/ Killed
  \/ \E n \in Name, t \in Files : Touch(n, t)
  \/ \E n \in Name : Remove(n) \/ SetUpdateCommand(n)
  \/ \E n, m \in Name : Rename(n, m)

Spec == Init /\ [][Next]_vars

\* The process goes on, and the clock does; a command need not ever exit.
FairSpec == Spec /\ WF_vars(Loop)

-----------------------------------------------------------------------------
(* Properties.                                                             *)

\* Each listed collection is in one place: still to come, under way, noted as a
\* failure or reindexed, and never both of the last two: a collection whose
\* update command failed is not reindexed over a half-updated tree.
Accounted ==
  /\ failures \cap reindexed = {}
  /\ (failures \cup reindexed) \cap (todo \cup {row}) = {}
  /\ pc # "idle" => listed = failures \cup reindexed \cup todo \cup ({row} \ {NoName})

\* A wrapper can trust the exit status: zero means that this run has reindexed
\* every collection there was when it began.
TruthfulExit ==
  [][exit' = "ok" /\ (exit # "ok" \/ listed' # listed) => reindexed' = listed']_vars

\* After a run that ended well and that nothing disturbed, what is active in
\* the index is what is on disk, for every collection, up to the first change.
FreshAfterRun ==
  exit = "ok" /\ pc = "idle" /\ quiet => \A n \in registered : index[n] = tree[n]

\* A run comes to an end, even when an update command never does.
Ends == pc # "idle" ~> pc = "idle"

\* "One collection's failure doesn't abort the rest": a run that has not been
\* killed has reindexed every listed collection or noted a failure for it.
OneFailureDoesNotAbort ==
  exit \in {"ok", "failed", "traceback"} => listed = reindexed \cup failures

\* "OSError: realistically a vanished/unreadable source directory": to reindex a
\* collection whose directory has vanished is a failure of that collection.
VanishedSourceFails ==
  [][\A n \in Name : pc = "reindex" /\ row = n /\ tree[n] = Gone /\ pc' = "next"
       => n \in failures']_vars

=============================================================================
