-------------------------------- MODULE Embed --------------------------------
(***************************************************************************)
(* `marq embed`: the vectors of the indexed bodies, one table per model    *)
(* (search/vector.py, cli/commands/write.py).                              *)
(*                                                                         *)
(* A run scans for the bodies without vectors, then embeds and commits     *)
(* them one by one.  Between its commits, and while it waits for the       *)
(* embedding service, other processes embed, reindex, remove collections   *)
(* and clean up.  Those commands are single steps here (Store is about     *)
(* their inside), save `cleanup`, which deletes what it found by an older  *)
(* look at the documents.                                                  *)
(***************************************************************************)
EXTENDS Naturals, Sequences, FiniteSets

CONSTANTS
  Coll,
  File,         \* <<collection, path>>
  Hash,
  Headed,       \* bodies with a heading for a title; others are titled by path
  Model,        \* slugs: sequences of characters
  Default,      \* the configured model
  Dimension,    \* model -> the length of the vectors the service returns
  Runner,       \* the processes that run `embed`
  Cron,         \* those among them that do so for ever
  MaxRuns,      \* bound: runs started by a process outside Cron
  MaxChanges,   \* bound: commands by other processes, in all
  MaxFailures,  \* bound: failures of the service and killed runs, in all
  None

Lower == [c \in {"A", "B"} |-> IF c = "A" THEN "a" ELSE "b"]
Word == {"a", "b", "1", "2", "_"}

\* In lower case, each run of other characters an underscore, none at the ends.
embeddings_table_name(slug) ==
  LET lower(i) == IF slug[i] \in DOMAIN Lower THEN Lower[slug[i]] ELSE slug[i]
      word(i) == lower(i) \in Word
      solid(i) == word(i) /\ lower(i) # "_"
      kept(i) == /\ word(i) \/ i = 1 \/ word(i - 1)
                 /\ \E j \in 1..i : solid(j)
                 /\ \E j \in i..Len(slug) : solid(j)
      places == SelectSeq([i \in DOMAIN slug |-> i], kept)
  IN [n \in DOMAIN places |->
        IF word(places[n]) THEN lower(places[n]) ELSE "_"]

TableName == [m \in Model |-> embeddings_table_name(m)]
Table == {TableName[m] : m \in Model}

\* extract_title: the heading of the body, or else the name of the file.
Title(f, h) == IF h \in Headed THEN None ELSE f[2]

Row == [hash : Hash, active : BOOLEAN]

ASSUME EmbedAssumption ==
  /\ File \subseteq Coll \X Nat /\ IsFiniteSet(File) /\ Headed \subseteq Hash
  /\ Default \in Model /\ Dimension \in [Model -> Nat]
  /\ Cron \subseteq Runner
  /\ MaxRuns \in Nat /\ MaxChanges \in Nat /\ MaxFailures \in Nat
  /\ None \notin Row /\ None \notin Nat /\ None \notin Model

VARIABLES
  live,         \* the collections there are
  doc,          \* file -> its Row or None
  content,      \* the bodies stored
  registered,   \* the models with a row in embedding_model
  dim,          \* table -> the dimension of its column, None if it is not there
  vec,          \* table -> body -> the model its vectors are of, or None
  pc, model, scope,   \* where a run is, what it embeds with, which collections
  known,        \* whether it has found its model registered
  pending,      \* <<body, title>> it has still to embed
  due,          \* the bodies it has to leave with vectors: those its scan found
                \* active, unless it failed or their vectors were deleted (history)
  cleaning,     \* `cleanup` has looked at the documents and not yet committed
  victims,      \* <<table, body>> whose vectors it will delete
  alone,        \* nobody else has committed since it looked (history)
  started, changes, failures

store == <<live, doc, content>>
tables == <<registered, dim, vec>>
runs == <<pc, model, scope, known, pending, due, started>>
cleanup == <<cleaning, victims, alone>>
vars == <<store, tables, runs, cleanup, changes, failures>>

CollOf(f) == f[1]
Active(D, C) == {D[f].hash : f \in {g \in File :
                   CollOf(g) \in C /\ D[g] # None /\ D[g].active}}
Referenced(D) == {D[f].hash : f \in {g \in File : D[g] # None}}
Vectors(t) == {h \in Hash : vec[t][h] # None}
TableOf(p) == TableName[model[p]]

\* The shape of the database includes its keys: vectors have their body, in a
\* table that exists; the registered models have a table.
TypeOK ==
  /\ live \in SUBSET Coll /\ doc \in [File -> Row \cup {None}]
  /\ content \in SUBSET Hash /\ Referenced(doc) \subseteq content
  /\ registered \in SUBSET Model /\ dim \in [Table -> Nat \cup {None}]
  /\ \A m \in registered : dim[TableName[m]] # None
  /\ vec \in [Table -> [Hash -> Model \cup {None}]]
  /\ \A t \in Table : /\ Vectors(t) \subseteq content
                      /\ dim[t] = None => Vectors(t) = {}
  /\ pc \in [Runner -> {"idle", "probe", "register", "scan", "embed"}]
  /\ model \in [Runner -> Model] /\ scope \in [Runner -> SUBSET Coll]
  /\ known \in [Runner -> BOOLEAN]
  /\ \A p \in Runner : \A r \in pending[p] : r[1] \in Hash
  /\ due \in [Runner -> SUBSET Hash]
  /\ cleaning \in BOOLEAN /\ victims \in SUBSET (Table \X Hash) /\ alone \in BOOLEAN
  /\ started \in [Runner -> Nat] /\ changes \in Nat /\ failures \in Nat

Init ==
  /\ live = Coll
  /\ doc \in [File -> Row \cup {None}]
  /\ content = Referenced(doc)
  /\ registered = {} /\ dim = [t \in Table |-> None]
  /\ vec = [t \in Table |-> [h \in Hash |-> None]]
  /\ pc = [p \in Runner |-> "idle"]
  /\ model = [p \in Runner |-> Default] /\ scope = [p \in Runner |-> {}]
  /\ known = [p \in Runner |-> FALSE] /\ pending = [p \in Runner |-> {}]
  /\ due = [p \in Runner |-> {}]
  /\ cleaning = FALSE /\ victims = {} /\ alone = TRUE
  /\ started = [p \in Runner |-> 0] /\ changes = 0 /\ failures = 0

-----------------------------------------------------------------------------
(* Plausible bugs, for the sensitivity checks.                             *)

\* The pending query forgets that deactivated documents need no vectors.
PendingOfAll(m, C) ==
  {<<doc[f].hash, Title(f, doc[f].hash)>> : f \in {g \in File :
     /\ CollOf(g) \in C /\ doc[g] # None
     /\ doc[g].hash \notin Vectors(TableName[m])}}
\* A new body is taken for embedded when any model has embedded it.
PendingOfNew(m, C) ==
  {<<doc[f].hash, Title(f, doc[f].hash)>> : f \in {g \in File :
     /\ CollOf(g) \in C /\ doc[g] # None /\ doc[g].active
     /\ \A t \in Table : doc[g].hash \notin Vectors(t)}}
\* `cleanup` looks only at the configured model's table.
StaleInDefault ==
  {v \in Table \X Hash :
     /\ v[1] = TableName[Default]
     /\ v[2] \in Vectors(v[1]) \ Active(doc, Coll)}
\* The vectors do not refer to their bodies.
CascadeNone(V, S) == V
\* ensure_embedding_model inserts its row without a look.
CollidesWhenRegistered(p) == model[p] \in registered

-----------------------------------------------------------------------------
(* One run of embed.                                                       *)

\* By default over all collections; `-c` looks its collection up first.
Begin(p, m, C) ==
  /\ pc[p] = "idle"
  /\ C = Coll \/ \E c \in live : C = {c}
  /\ \/ p \in Cron /\ m = Default /\ C = Coll
     \/ p \notin Cron /\ started[p] < MaxRuns
  /\ started' = [started EXCEPT ![p] = IF p \in Cron THEN @ ELSE @ + 1]
  /\ pc' = [pc EXCEPT ![p] = "probe"]
  /\ model' = [model EXCEPT ![p] = m] /\ scope' = [scope EXCEPT ![p] = C]
  /\ due' = [due EXCEPT ![p] = {}]
  /\ UNCHANGED <<store, tables, cleanup, known, pending, changes, failures>>

Stop(p) ==
  /\ pc' = [pc EXCEPT ![p] = "idle"]
  /\ pending' = [pending EXCEPT ![p] = {}]
  /\ known' = [known EXCEPT ![p] = FALSE]
  /\ scope' = [scope EXCEPT ![p] = {}]
  /\ UNCHANGED <<model, started>>

\* An exception, which nothing catches, or a signal; what is committed stays.
Fail(p) == Stop(p) /\ due' = [due EXCEPT ![p] = {}]

\* get_or_probe_dimension, then the look for the model's row.
Probe(p) ==
  /\ pc[p] = "probe"
  /\ known' = [known EXCEPT ![p] = model[p] \in registered]
  /\ pc' = [pc EXCEPT ![p] = "register"]
  /\ UNCHANGED <<store, tables, cleanup, model, scope, pending, due, started, changes, failures>>

\* The slug is unique: another run may have registered it since the look.
Collides(p) == ~known[p] /\ model[p] \in registered

\* CREATE TABLE IF NOT EXISTS leaves a table of that name as it is.
Register(p) ==
  /\ pc[p] = "register"
  /\ \/ /\ Collides(p)
        /\ Fail(p)
        /\ UNCHANGED tables
     \/ /\ ~Collides(p)
        /\ registered' = registered \cup {model[p]}
        /\ dim' = [dim EXCEPT ![TableOf(p)] =
                     IF @ = None THEN Dimension[model[p]] ELSE @]
        /\ pc' = [pc EXCEPT ![p] = "scan"]
        /\ UNCHANGED <<vec, model, scope, known, pending, due,
                       started>>
  /\ UNCHANGED <<store, cleanup, changes, failures>>

\* The bodies of active documents without vectors, once for each title.
Pending(m, C) ==
  {<<doc[f].hash, Title(f, doc[f].hash)>> : f \in {g \in File :
     /\ CollOf(g) \in C /\ doc[g] # None /\ doc[g].active
     /\ doc[g].hash \notin Vectors(TableName[m])}}

Scan(p) ==
  /\ pc[p] = "scan"
  /\ pending' = [pending EXCEPT ![p] = Pending(model[p], scope[p] \cap live)]
  /\ due' = [due EXCEPT ![p] = Active(doc, scope[p] \cap live)]
  /\ pc' = [pc EXCEPT ![p] = "embed"]
  /\ UNCHANGED <<store, tables, cleanup, model, scope, known,
                 started, changes, failures>>

\* One request, one INSERT ... ON CONFLICT DO UPDATE for all chunks, one commit.
\* The insert is refused when the body has been deleted since the scan, or when
\* the vectors do not fit the table.
EmbedOne(p, r) ==
  /\ pc[p] = "embed" /\ r \in pending[p]
  /\ \/ /\ r[1] \in content /\ dim[TableOf(p)] = Dimension[model[p]]
        /\ vec' = [vec EXCEPT ![TableOf(p)][r[1]] = model[p]]
        /\ pending' = [pending EXCEPT ![p] = @ \ {r}]
        /\ alone' = FALSE
        /\ UNCHANGED <<pc, model, scope, known, due, started>>
     \/ /\ r[1] \notin content \/ dim[TableOf(p)] # Dimension[model[p]]
        /\ Fail(p)
        /\ UNCHANGED <<vec, alone>>
  /\ UNCHANGED <<store, registered, dim, cleaning, victims, changes, failures>>

\* The service answers with an error, or not in time.
ServiceFails(p) ==
  /\ failures < MaxFailures /\ failures' = failures + 1
  /\ \/ pc[p] = "probe" /\ model[p] \notin registered
     \/ pc[p] = "embed" /\ pending[p] # {}
  /\ Fail(p)
  /\ UNCHANGED <<store, tables, cleanup, changes>>

Finish(p) ==
  /\ pc[p] = "embed" /\ pending[p] = {}
  /\ Stop(p)
  /\ UNCHANGED due
  /\ UNCHANGED <<store, tables, cleanup, changes, failures>>

Killed(p) ==
  /\ pc[p] # "idle"
  /\ failures < MaxFailures /\ failures' = failures + 1
  /\ Fail(p)
  /\ UNCHANGED <<store, tables, cleanup, changes>>

Step(p) ==
  \/ Probe(p) \/ Register(p) \/ Scan(p) \/ Finish(p)
  \/ \E r \in pending[p] : EmbedOne(p, r)

-----------------------------------------------------------------------------
(* The commands of other processes, as they commit.                        *)

\* ON DELETE CASCADE: what is left of vectors V when only bodies S are stored.
Cascade(V, S) ==
  [t \in Table |-> [h \in Hash |-> IF h \in S THEN V[t][h] ELSE None]]

\* What is due to a run is so until somebody deletes vectors of it.
DueStill(V) == [p \in Runner |->
  {h \in due[p] : vec[TableOf(p)][h] # None => V[TableOf(p)][h] # None}]

\* A command deletes vectors down to V, leaves documents D, and sweeps; when
\* another one overlaps it, a body nobody refers to may stay (see Store).
Leaves(D, V) ==
  /\ changes < MaxChanges /\ changes' = changes + 1
  /\ doc' = D
  /\ \E S \in SUBSET (content \cup Referenced(D)) :
       /\ Referenced(D) \subseteq S
       /\ content' = S
       /\ vec' = Cascade(V, S)
       /\ due' = DueStill(Cascade(V, S))
  /\ UNCHANGED <<registered, dim, pc, model, scope, known, pending, started, failures>>

\* A reindex, with the file new, changed or back.
IndexFile(f, h) ==
  /\ CollOf(f) \in live /\ doc[f] # [hash |-> h, active |-> TRUE]
  /\ Leaves([doc EXCEPT ![f] = [hash |-> h, active |-> TRUE]], vec)
  /\ alone' = FALSE
  /\ UNCHANGED <<live, cleaning, victims>>

\* A reindex, with the file gone.
Deactivate(f) ==
  /\ doc[f] # None /\ doc[f].active
  /\ Leaves([doc EXCEPT ![f].active = FALSE], vec)
  /\ alone' = FALSE
  /\ UNCHANGED <<live, cleaning, victims>>

RemoveCollection(c) ==
  /\ c \in live /\ live' = live \ {c}
  /\ Leaves([f \in File |-> IF CollOf(f) = c THEN None ELSE doc[f]], vec)
  /\ alone' = FALSE
  /\ UNCHANGED <<cleaning, victims>>

\* cleanup_orphaned_embeddings, as its DELETEs see tables and documents: the
\* vectors, of every registered model, of bodies without an active document.
Stale ==
  {v \in Table \X Hash :
     /\ \E m \in registered : v[1] = TableName[m]
     /\ v[2] \in Vectors(v[1]) \ Active(doc, Coll)}

BeginCleanup ==
  /\ ~cleaning /\ cleaning' = TRUE
  /\ changes < MaxChanges
  /\ victims' = Stale
  /\ alone' = TRUE
  /\ UNCHANGED <<store, tables, runs, changes, failures>>

\* They delete the rows found, then inactive documents and orphaned bodies go.
EndCleanup ==
  /\ cleaning /\ cleaning' = FALSE
  /\ Leaves([f \in File |-> IF doc[f] # None /\ doc[f].active THEN doc[f] ELSE None],
            [t \in Table |-> [h \in Hash |->
               IF <<t, h>> \in victims THEN None ELSE vec[t][h]]])
  /\ victims' = {}
  /\ UNCHANGED <<live, alone>>

Next ==
  \/ \E p \in Runner :
       \/ \E m \in Model, C \in SUBSET Coll : Begin(p, m, C)
       \/ Step(p)
       \/ ServiceFails(p)
       \/ Killed(p)
  \/ \E f \in File : Deactivate(f) \/ \E h \in Hash : IndexFile(f, h)
  \/ \E c \in Coll : RemoveCollection(c)
  \/ BeginCleanup
  \/ EndCleanup

Spec == Init /\ [][Next]_vars

\* A run goes on, and the scheduled ones come round; nobody else has to act.
Fairness ==
  /\ \A p \in Runner : WF_vars(Step(p))
  /\ \A p \in Cron : WF_vars(Begin(p, Default, Coll))

FairSpec == Spec /\ Fairness

-----------------------------------------------------------------------------
(* Properties.                                                             *)

\* A run passes nothing over: each body its scan found active has vectors of
\* its model, or is still to come, whatever other runs, other models and a
\* cleanup do meanwhile; so a run that ends well has left nothing out.
Covered ==
  \A p \in Runner : \A h \in due[p] :
    h \in Vectors(TableOf(p)) \/ \E r \in pending[p] : r[1] = h

\* get_vector_index_health: what the status and the MCP instructions call out.
NeedsEmbedding(m) ==
  LET t == TableName[m]
      open == {f \in File : CollOf(f) \in live /\ doc[f] # None /\ doc[f].active}
  IN IF dim[t] = None THEN Cardinality(open)
     ELSE Cardinality({doc[f].hash : f \in open} \ Vectors(t))

\* The health report and the embedding run agree on whether there is anything
\* to do, for every model, from before its first run on.
HealthAgrees == \A m \in Model : NeedsEmbedding(m) = 0 <=> Pending(m, live) = {}

\* A cleanup that nobody else's commit came between leaves vectors of active
\* documents only, in the tables of all models.
SoloCleanupReclaims ==
  [][cleaning /\ ~cleaning' /\ alone =>
       \A t \in Table, h \in Hash :
         vec'[t][h] # None => h \in Active(doc', live)]_vars

\* Once failures and changes are over, every active document comes to have
\* vectors of the configured model, and keeps them: a killed or failed run, a
\* body that vanished, vectors that a cleanup took from a document that was
\* coming back, are all made up for.
Searchable ==
  <>[](Active(doc, live) \subseteq Vectors(TableName[Default]))

\* "Each model gets its own table": what is in a registered model's table has
\* been embedded with that model.
OwnTable ==
  \A m \in registered, h \in Hash : vec[TableName[m]][h] \in {None, m}

=============================================================================
