# A TLA+ model of marq

marq (`src/qmd_py`) indexes the Markdown and code of several directories
("collections") into one PostgreSQL database, and searches them by text, by
embedding, or by both. Several processes share the database: the commands of a
user, a scheduled `marq update`, and a long-running MCP server. This directory
models the commands that write the index, those that read it, the pure functions
both are built from, and the two that start and stop the server; checks the
models with TLC, and proves their safety with TLAPS.

## The system

| component | source (`src/src/qmd_py/`) | state | operations | what makes it hard | what makes it correct |
|---|---|---|---|---|---|
| indexing | `store/indexing.py`, `store/documents.py` | document and content rows, uncommitted work of a session | `reindex_collection`: discover, read, insert or update, deactivate, sweep | read-then-write in READ COMMITTED; files change during the walk; unique and foreign keys; one bad file | a commit publishes what was read, all or nothing; a document has its body |
| cleanup | `store/cleanup.py` | the same rows | `cleanup_orphaned_content`, `delete_inactive_documents` | bodies are shared across collections: a sweep for one deletes what a reindex of another is about to use | nothing in use is deleted; nothing unused stays for ever |
| collections | `store/collection.py` | collection rows | add, remove, rename, update-cmd, include/exclude, list | removal under a running reindex | no document without collection |
| write commands | `cli/commands/write.py`, `cli/runtime.py` | one transaction, later several | add with compensation, remove, update loop, embed, cleanup | several commits per command; subprocesses with a time limit | a failed add leaves no collection; exit status tells the truth; a run ends |
| session, schema | `db/engine.py`, `db/models.py` | keys, foreign keys | commit, rollback | everybody relies on the server's locks | |
| embedding | `search/vector.py` | vector tables, model registry | pending scan, batch, commit; nearest neighbours; orphans; health | batches commit one by one; bodies vanish meanwhile; probed dimensions | resumable; counts are right |
| retrieval | `store/retrieval.py` | none | find, multi-get, list, ls, status | several statements an answer; docid, exact path and suffix compete | finds what was meant; shows only what was true |
| full text | `search/fts.py` | search vectors | syntax of a query, update of a vector, search | vectors a rename leaves stale; names looked up late | hits are in scope; no word of a query is lost |
| hybrid query | `search/hybrid.py`, `llm/client.py` | none | expand, search by list, fuse, rerank, blend | services that fail half-way; weights depend on lists | degrades, loses nothing it found, ends |
| contexts | `store/context.py` | context rows | add, remove, list, check | text prefixes when inherited, exact names when checked | a document the check passes has a context |
| MCP server | `mcp/server.py` | none | tools, resources, REST | scopes, a resource's path | a resource reads its document |
| MCP daemon | `cli/commands/mcp.py` | pid file, two logs of stray output, the port | start in the background, stop | no locks; a pid outlives its process; death between two system calls | `stop` finds every daemon; a traceback survives the next start |
| access | `auth.py`, `search/_acl.py` | grants | `can_access` | a stub today | |
| pure functions | `bench.py`, `cli/snippet.py`, `vpath.py`, and parts of the above | none | chunks, snippets, syntax, braces, edit distance, scores | boundaries | positions, words and scores are true |
| the rest | `formatter.py`, `doctor.py`, `config.py`, ... | none | output, checks of the installation | | |

The components call one another within a process, and meet across processes
only in the database and in the file system; the daemon's commands meet in a pid file. There is no lock in Python: what
commands rely on are PostgreSQL's row locks, its unique and foreign keys, and
READ COMMITTED, in which every statement sees what is committed when it begins.

## The modules

| module | models |
|---|---|
| `Catalog` | what the index promises a reader, as an abstract specification |
| `Store` | reindex, add, remove and cleanup as sequences of SQL statements of concurrent sessions |
| `StoreProofs` | `Store`'s invariants |
| `CatalogProofs` | on top of `StoreProofs`: `Store` implements `Catalog`, and what one command achieves, whatever runs beside it |
| `Update` | the loop of `marq update`, its subprocesses and its interference |
| `UpdateProofs` | `Update`'s theorems |
| `Embed` | the runs of `marq embed`, the tables of vectors, and the commands that change the documents meanwhile |
| `EmbedProofs` | `Embed`'s theorems |
| `Readers` | the commands that read, statement by statement, beside the commits of those that write |
| `ReadersProofs` | `Readers`' theorems |
| `Fusion` | the arithmetic of a hybrid query: rank fusion, the blend with the reranker |
| `Query` | one hybrid query, on top of `Fusion`: its searches, its requests to the router, and what changes meanwhile |
| `QueryProofs` | the theorems of `Query` and `Fusion` |
| `Text` | the pure functions on text |
| `TextProofs` | theorems about what these functions return, for inputs of any length |
| `Daemon` | `marq mcp --http --daemon`, `marq mcp stop`, and the processes they deal with |
| `DaemonProofs` | `Daemon`'s theorems |
| `MCStore`, `MCUpdate`, `MCEmbed`, `MCReaders`, `MCQuery`, `MCText`, `MCDaemon` | instances for TLC |

They meet in what they abstract from each other: `Store` is about the inside of
the commands that `Embed`, `Readers` and `Query` take as single steps, `Readers`
about that of a search, which is a single step in `Query`. `Daemon` stands alone: it
shares no state with the index.

### Store and Catalog

A process has one session (`pc`, `op`, `coll`). A document row has a committed
version (`doc`), and a newest one (`cur`) with the transaction that holds it
(`lock`); content rows have the sets a transaction has inserted, deleted, or
locked FOR KEY SHARE through a foreign key (`ins`, `del`, `share`), collection
rows `cshare` and `cdel`. `View(p, f)` is what a statement of `p` sees.

| action | code |
|---|---|
| `StartReindex`, `StartAdd`, `StartRemove`, `StartCleanup` | the command begins; `StartAdd` includes the commit of the collection row, `StartRemove` and `StartCleanup` the first statement's snapshot |
| `Resolve` | `_resolve_owned_collection`, `_discover_files` |
| `LookAt` | the body of the loop up to the row found: read, skip (blank, oversize, undecodable, vanished), compare |
| `InsertContent` | `INSERT ... ON CONFLICT DO NOTHING` |
| `WriteDocument` | `insert_document`, `update_document`, and every way they can raise |
| `ListActive`, `ChangeRow`, `RowsChanged` | deactivation; the two bulk DELETEs, row by row |
| `DropCollection` | `DELETE FROM collection`, with its foreign key |
| `BeginSweep`, `SweepOne`, `EndSweep` | `cleanup_orphaned_content`: snapshot, row by row, foreign key at the end |
| `Commit`, `Rollback` (within others), `Undo` | ends of a transaction; `_collection_add_impl`'s compensation |
| `DeadlockAbort`, `Crash`, `Edit` | the server's detector, a dead process, a file that changes |

What the model simplifies. The locks one INSERT needs are taken in one step. A
set of transactions counts as deadlocked when none can go on before another of
them has. A title is a function of path and body. `None` on disk stands for
anything that cannot be indexed, listed by discovery or not. Rows of one
statement are changed in any order. The clean-up of contexts and grants in
`remove_collection`, which nothing else in these commands refers to, is left
out; so are the cache table, which the code empties and never fills, and the
vectors, which belong to the embedding pipeline. `collection remove` of a row
another process has just deleted is a warning of the ORM, not a failure. Ids
come from a sequence and are never reused. One user owns everything.

`Catalog` has no sessions: a command changes the paths of one collection in one
step, to bodies their files have had, or changes nothing. `ImplementsCatalog`
says that `Store`, seen through what is active and committed, is a `Catalog`.

### Update

One run of the loop over the listed names, in their order. A reindex is a
single step, successful or rolled back, since `Store` is about its inside. An
update command may succeed, exit with an error, run out of time, produce output
that is not text, or never end; whatever it does, it may have changed the tree
of the collection it belongs to. Meanwhile other processes rename, remove or
reconfigure collections, trees change, and the process may be killed. An
exception the code does not catch is `Abort`. When a command is killed, what it
had started may go on changing the tree: that is `Touch`.

### Embed

A run of `embed` registers its model (`Probe`, `Register`), scans for bodies
without vectors (`Scan`) and embeds them one by one, a request and a commit
each (`EmbedOne`); nothing catches a failure of the service or of the database
(`Fail`). `vec[t][h]` is the model whose vectors of body `h` are in table `t`:
what the vectors are, how many chunks a body has, and the number the command
reports are left out. A body is pending once for each title it has. Table names
are computed from the slugs as the code does it. Other commands are single
steps that leave documents and sweep bodies, sometimes not all of them, since
`Store` shows that overlapping commands can leave one; vectors go with their
bodies (ON DELETE CASCADE). `cleanup` is two steps, because it deletes by the
documents it saw when its DELETE began; its DELETEs, one a model, see the same
state. The dimension the service returns for a model does not change.

### Readers

A reader is a sequence of SELECTs, each of which sees what is committed when it
begins, with a commit of a writer possible between any two. Readers change
nothing and take no locks, so one at a time is enough. `ask` is the request,
`pc` the statement it is at, `hits` what is still to be completed, `answer`
what is. `past` collects what has been true since the request began; the
properties compare the answer with it, or, when nothing was committed meanwhile
(`quiet`), with the index itself.

| request | code | statements |
|---|---|---|
| `get`, `resource` | `find_document`; `_read_resource` | `ResolveIds`, `ActiveDocumentRefs`, `DocumentBody`, `GlobalContext`, `GetContextForPath` |
| `list`, `glob` | `multi_get` and its two kinds of argument | for each document the contexts, `DocumentBodyLength`, and `DocumentBody` if it is not too large |
| `files`, `ls` | `glob_files`, `list_files` | `DocumentBodyLength` for each; `ListFiles` |
| `search`, `vsearch` | `_search_impl`, `_vsearch_impl`, `search_fts`, `search_vec` | `ResolveScope`, `ResolveIds`, `EmbedQuery`, `SelectRows`, `CollectionNamesById`, contexts; then `Kept` filters and cuts |
| `check`, `status` | `context_check`; `get_status` | `ListCollections`, then `ListPrefixes` and `CheckPaths`, or `CountDocuments` and `VectorIndexHealth` |

Paths are sequences of segments in the order the database sorts them, and
`Begins` says which segments begin with the text of which. What PostgreSQL
matches and how it ranks are constants: `Matching` bodies, the `Rank` of a document by
its search vector, `Chunks` in their order of distance with the `Closeness` of each;
which of two equal ones comes first is a choice. `Kept` is what the two commands do
with the hits at the end: those outside several named collections are dropped, then
those that score less than `min` (`--min-score`, 0.3 unless given for `vsearch`), and
the rest is cut to the limit. A collection is told by the name a path begins with; names
are taken to have no slash, which nothing in the code checks: with one, a search in
`a` would also keep what it finds in `a/b`. The writers are their commits: `Reindex`,
`RemoveCollection`, `RenameCollection`, `SetIncludeByDefault`, `Cleanup`,
`Embed`, the contexts. What a vector was built from is in `vector`, because a
rename leaves it. Suggestions for a miss, docids inside lists, and line ranges
are left out.

What a statement returns is described as a set first and then put in an order: an
ORDER BY is the sequence in which a hit's position is the number of hits before it, a
list without one is any `Enumerations` of the set. That is what SQL says of a result,
and it is what can be reasoned about.

### Query and Fusion

`Query` is one call of `run_hybrid_query` with the validation before it and the
filter after it: `ResolveScope`, `Probe` (the search whose strong signal spares
the expansion), `expand_query`, `SearchLex`, `EmbedQueries` (one request for
all), `SearchVec`, `Fuse`, `Rerank`. Each request to the router can fail, an
expansion can be any set of variants, an answer that is JSON but no object
included. A bad answer to `rerank` costs the reranking alone where the `try` around it
reaches, to `hybrid.py:643`; a `relevance_score` that is null or no number passes the
client, and raises at the blend below it (fault "score"). Between the steps a collection can be renamed or removed. What a
search finds is one of `Rankings`, restricted to the collections searched; the
lexical sub-queries are searched one at a time, as the vectors are. The chunk of a
document the reranker is shown, snippets and contexts of the results are left out.

Both sorts (fusion and blend) are `Ordered`, which puts a set in the order of a
relation; ties are in the relation, as the code's stable sorts leave them. A filter is
`Select`, a sum `Total`.

`Fusion` is exact: `Scale` and `Unit` stand for 1 and are multiples of all
denominators in the instance, so that no division rounds, where the code has
floating-point numbers. The proofs do not need that: they hold for quotients rounded
down, as for exact ones. Scores of the reranker are taken to be in 0..1, as the default model's are and as
`server.py:416` describes them; `client.py` passes on whatever number it is sent, and
`TopStays` is about numbers in that range only.

### Text

A behavior is one call of one function: `chunk_document`, `extract_snippet`,
`build_ts_query` with its tokenizers, `parse_structured_query`,
`_expand_braces`, `_levenshtein`, `score_results`. Text is a sequence over `Char`, of
whose members the functions tell some kinds apart: in a query, letters, of which one is
Chinese, blanks, quotes, hyphens and dots. The references they are compared
with are in the properties: every short passage lies in a chunk, expansion of
braces in every order, negation read off the text, the metric laws.

`Only` is a comprehension with a condition: what a sequence has at some positions, in
order. `Token` is a turn of `build_ts_query`'s loop, the blanks apart: what begins at a
position and where it is over; `Items` goes from token to token. An item keeps what the
code writes as tsquery: the lexemes that follow one another, whether the last is a
prefix, and whether it is negated, where the code has two lists. `WrittenIsMeant` is
`WordsAreMeant`, `LinesAreMeant` and `BracesAreMeant`. `Denied` reads negation off
the text alone: whether the quotes before a character are even in number says whether it
is in a phrase, and so where what it belongs to begins.

`chunk_document` is in closed form: chunk `i` begins at `(i - 1) * Step`, and the last is
the first that reaches the end of the body, as the loop's `break` has it.
`levenshtein` is the table whose rows the code fills one after the other, keeping
one. `Split` says where each piece ends (`Cut`) instead of cutting one piece after the
other. A snippet is `Window`, the lines of it, the `Best` of them and the lines `Shown`
around it (`numbered`); a query has one word. The lines are then `Joined` and
`Shortened` to `max_len`, after the numbers of the header are settled: a long line
before the reported one can push it out of the text, and the header counts it all the same.
`SnippetsAreTrue` says of the numbers that they are those of `numbered`, and of the text
when it reaches the end of the reported line.

### Daemon

Two commands, each given at a `Terminal`, one system call a step; `pc` is the call
a command comes to next, `pid` the process it has read of or spawned. `proc` is what
each pid stands for: a daemon that is `booting`, `serving` or `ending`, some `other`
program, or nothing.

| action | code |
|---|---|
| `Begin`, `Exists`, `Read`, `Check` | the command, `_PID_FILE.exists()`, `int(read_text())`, `_process_alive` |
| `Signal`, `Unlink` | `os.kill(pid, SIGTERM)`, `_PID_FILE.unlink()`; each raises when what it acts on has gone |
| `Rotate`, `Replace`, `Open` | the last daemon's stray output becomes the backup |
| `Spawn`, `Record`, `Fill` | `Popen`; `write_text`, which empties the file and then writes the number |
| `Bind`, `Exit` | the daemon gets its port or ends; it ends some time after the signal |
| `Die`, `Kill`, `Reuse`, `OtherEnds` | a daemon or a command dies, a pid is given out again |

`runs` numbers the daemons' output, so that the properties can tell whose is where.
`calm` remembers that no start has overlapped another command, nor been killed
between the spawn and the end of the write: two starts at once both find no pid
file and both bring up a daemon, which nothing in the code prevents, so the
properties are about everything else: stops that overlap, daemons and commands that
die anywhere, pids that come to name other programs. What the model simplifies: a
process of another user cannot be signalled, and counts as none; a daemon that ends
while the start that spawned it runs is gone at once, though it is a zombie until
then; which of two overlapping starts writes to a log both have opened is not told
apart, nor how the foreground server differs from the daemon that runs it.

## The runs

| run | instance | what it shows |
|---|---|---|
| `pair` | two processes, two collections with one file each, two bodies, one crash or edit; any database at rest | every pair of commands: `BodyPresent`, `NoOrphanDocument`, `SoloFailure`, `PublishesWhatItRead`, `SoloSweepReclaims`, `ImplementsCatalog` |
| `files` | two processes, one collection with two files, one body refused by the database, one crash or edit | work half done, a body refused: `SoloFailure`, `ImplementsCatalog` |
| `converge` | a scheduled `update` and one other command, one edit or crash | `Converges`: the index comes to agree with the disk, and stays so |
| `update` | three names, two versions of a tree, one change by others | `Accounted`, `FreshAfterRun`, `TruthfulExit`, `Ends` |
| `embed` | a scheduled and a user's run, two models, two files with one body between them, three commands and one failure by others | `Covered`, `HealthAgrees`, `SoloCleanupReclaims`, `Searchable` |
| `readers` | seventeen requests over two collections whose paths and names are ambiguous, a docid two bodies share, one body too large, two commits | `LookupExact`, `FetchExact`, `SearchExact`, `CheckFindsEveryGap`, undisturbed; `AnswerWasTrue`, `ScopeKept`, `RaisesOnlyForTheDeleted`, disturbed |
| `query` | nine requests of the three entries, three documents in two collections, every outcome of the router, one collection renamed or removed | `AnswerIsWhatWasFound`, `FusionRespectsTheLists`, `TopStays`, `SurvivesServices` |
| `text` | all inputs up to the lengths in `MCText` | `PlacesAreTrue` (`ChunksCover` and `SnippetsAreTrue`), `WrittenIsMeant` (`WordsAreMeant`, `LinesAreMeant`, `BracesAreMeant`), `MeasuresAreHonest` (`DistanceIsMetric` and `ScoresAreHonest`) |
| `daemon` | two terminals, four commands, three pids, two mishaps | `NoneUnreachable`, `TracebackSurvives`, `StopLeavesNothing`, `OnlyTheStoppedIsInTheWay` |
| `embed_tables` | two models named alike, one process | the claim "each model gets its own table" fails |
| `update_abort` | two names | the claim "one collection's failure doesn't abort the rest" fails |
| `update_vanished` | two names, nothing interferes | the claim that a vanished directory is an error of its collection fails |

**Bounds.** Two processes are where every race between two commands shows; the
waits and deadlocks modelled are cycles, of which two transactions already make
one. Two collections of one file that share two bodies are the least in which
commands on different collections meet through a body and exchange bodies in
opposite orders; two files in one collection are the least in which a scan can
fail half-way. `MaxOps` is 1 for each process outside `Cron`, as runs start from
every database an earlier history can have left; `MaxMishaps` and `MaxChanges`
cap the crashes, edits and interferences at one. In `embed`, vectors are kept,
looked for and deleted body by body, so one body, at two paths, is enough; three
changes (a deactivation, a reindex that brings the document back, the end of the cleanup
that saw it away) are the least in which a cleanup takes the vectors of a document that
is active: `Searchable` says that a scheduled run makes them anew, `SoloCleanupReclaims`
leaves that overlap out. In `readers`, the
two files `notes/x` of collection `z` and `x` of collection `notes` are the least that
compete for one path, and two commits the least between which a change is taken back
(a removal after a rename, a context added and removed); `Fetch` and `Limit` are 1, so
that every cut is reached, and the scores asked for lie above, at and below those of the
hits. In `query`, `Top` and `Mid` are 1 and 2 (3 and 10 in the
code) and `Headroom` 2 (50), so that three candidates meet all three weights and every
cut; three lists of three documents are the most its requests make, and `Scale` and
`Unit` are chosen for them. In `text`, chunks of three characters with an overlap of one
stand for 2700 and 405, and snippets of five characters for 300 and 500, so that some of
six are cut before, in and after the reported line; the functions do not depend on
the values, and the proofs do without them.
In `daemon`, three pids let a new daemon meet one that ends and one that has
another's pid, four commands are a start, a stop and a start beside another
stop, and two mishaps a death and a pid given out again. A query and a call of
`text` end, and the commands of `daemon` are used up, so their runs do not look
for deadlocks. Processes and bodies are interchangeable in `pair` and `files`,
in `pair` the collections too, terminals and pids in `daemon`, so these use
symmetry; the others, which check liveness or name their values, do not. The
proofs do without the bounds.

**Fairness.** `Store`: a session with a statement to run runs it (the process is
alive, its connection is open), the server's deadlock detector fires, and the
scheduled process comes round to each collection again and again (strong
fairness: another command may hide the collection for a while). Nothing is
assumed of edits, crashes or the user's commands. `Update`: the loop's own steps
and the time limit on the subprocess are weakly fair; that a command ever
succeeds, fails or returns is not assumed, which is why `Ends` depends on the
time limit. `Embed`: runs go on, and the scheduled ones come round.
The other modules are about safety and assume none.

**Sensitivity.** Each property is paired, in `PROJECT.json`, with a plausible
bug of the code (the operators under "Plausible bugs") that breaks it: a sweep
of active documents only, a deletion that trusts its snapshot, an update that
forgets to reactivate, a foreign key not declared, a path compared by its end alone, an
empty scope taken for none, a reranker's failure that fails the query, weights turned
round, a pid file taken for stale whatever it names. They stand beside the operators they would replace in the later modules.

## What is proved

`StoreProofs`, for any processes, collections, files and bodies, and any number
of commands, crashes and edits:

- `TypeCorrect`: `Spec => []TypeOK`.
- `BodiesPresent`: `Spec => []BodyPresent`. Not inductive alone: a commit is
  safe because of what its transaction holds. The strengthening `BodyInv` says
  that a row a transaction has written and not committed refers to a body that
  the transaction holds a key share of, or to that of the row's committed
  version (`RefInv`); that such a body exists and no other transaction has
  deleted it (`ShareInv`); and that from the end of its sweep to its commit no
  row a transaction sees refers to what it has deleted (`CheckedInv`). `ScanInv`
  ties the row found and the body read to the statement the session is at.
- `NoDocumentOrphaned`: `Spec => []NoOrphanDocument`, with `LinkInv`: a new row
  holds its collection's key share (`AddInv`), which excludes that the
  collection is deleted (`HeldInv`); and a transaction that has deleted the
  collection sees no document of it, now or later (`DropInv`, `RestInv`).

`CatalogProofs`: `StoreImplementsCatalog`: `Spec => ImplementsCatalog`. A commit is the
only step a reader sees, so the proof is about what a transaction will publish when it
commits. `PublishInv` says, of each process, that what a reindex has read has been on
disk, and what it knows it has not read has been away (`ReadInv`); that the row it
SELECTed still has its hash, or a hash the file has had, because only another reindex
can have changed it (`FoundInv`: this is what an UPDATE that leaves the hash column
alone relies on); that what is left of a bulk statement lies in its collection
(`RowsInv`); that each uncommitted row shows what its file has shown, nothing, or what
it showed before (`WriteInv`); and what has become of the collection at each statement
(`CommandInv`). `Apart` is what a step of one process leaves of the others; each action
is shown to keep it, and it keeps the others' invariants (`ApartKept`). Then a commit of
a reindex maps to `Catalog`'s publication (`PublishCatalog`), that of a removal to a
retirement (`RetireCatalog`), and everything else, `cleanup` included, to a stutter.

Then, on that invariant, and on `RivalInv` (of two commands that overlap each
knows the other's target) and `SessionInv` (a session at rest holds nothing):

- `PublishedIsRead` (`PublishesWhatItRead`): `DoneInv` says, of a reindex that no command
  on its collection overlaps, that each file it has done with shows the body read, that
  what it has not read is going to be deactivated, and that a row it found is still as
  found or gone. A commit of anybody else takes inactive rows from it at most
  (`DocElsewhere`).
- `SweepReclaims` (`SoloSweepReclaims`): `SweepInv`: what a lone sweep has deleted and has
  still to delete is what nobody refers to.
- `LoneFailure` (`SoloFailure`): `SoloInv` says that the collection, the row and the body
  a lone command relies on are there, and that it has deleted every document before its
  collection; `SoloWaits` that it waits for nobody, so no deadlock ends it.

`UpdateProofs`, for any collections, trees and interference:

- `UpdateTypeCorrect`, `AllAccounted` (`Accounted`, by the pointwise `PlaceInv`),
  `ExitIsTruthful` (`TruthfulExit`), and `FreshAfterGoodRun` (`FreshAfterRun`,
  by `QuietInv`: the trees a command may still change are not those of the
  collections already reindexed).

`EmbedProofs`, for any models, files, runs, failures and commands:

- `EmbedTypeCorrect` (`TypeOK`, which includes the foreign keys of vectors).
- `RunsPassNothingOver` (`Covered`, inductive given the types): a scan has all it
  owes pending, and a body leaves the queue only with its vectors.
- `HealthReportIsTrue` (`HealthAgrees`): follows from the types in every state,
  because a table that does not exist holds nothing; needs that files are finite.
- `CleanupReclaims` (`SoloCleanupReclaims`): `ReclaimInv` says that every table
  with vectors is that of a registered model, that documents are of live
  collections, and that what an undisturbed cleanup found is still all there is.

`ReadersProofs`, for any index, requests and commits, and any path prefixes:

- `ReadersTypeCorrect` (`TypeOK`): between any two statements of a reader, documents
  have their collection, body and search vector, vectors their body, contexts and
  defaults their collection. The commits of the writers are proved one by one.
- `ReadersAnswerWasTrue` (`AnswerWasTrue`), `ReadersRaisesOnlyForTheDeleted`
  (`RaisesOnlyForTheDeleted`) and `ReadersScopeKept` (`ScopeKept`), by `BesideInv`: the
  request's past contains what is in the index now, and what was in it and is not any
  more is among what is gone (`PastInv`); every hit in hand is a row of that past, under
  a name of the past once it is labelled, and of a collection the search was restricted
  to, which has had a name that was wanted (`TruthInv`). `Flow` says what has been
  gathered at each statement.
- `ReadersLookupExact` (`LookupExact`), by `LookupInv`: what a lookup nothing interferes
  with has in hand is one of the documents that were meant, with what the statements so
  far have added, or there is none. This and the next three need `IdsInv` (statements
  are restricted to the collections that were wanted) and `NamesDiffer` (no two
  collections share a name).
- `ReadersFetchExact` (`FetchExact`): `BodiesInv` (a body is shown unless it is too
  large) and `MembersInv` (what is answered and what is still to come is, together, what
  matched, without repetition).
- `ReadersSearchExact` (`SearchExact`), by `RankedInv`: a row that is not in hand did not
  fit into `Fetch`, fell to `Limit`, is out of scope, or scores less than was asked for,
  which it can be told by because a hit in hand carries its collection's name and the
  score it was ranked by; and a document that has no row
  matches nothing, or has 3 * `Fetch` chunks of others before its nearest.
- `ReadersCheckFindsEveryGap` (`CheckFindsEveryGap`), by `CheckInv`: each document is
  covered by a context, reported, or in a collection still to be looked at, and the
  prefixes in hand are those of the collection they are compared with.

The second half is about requests nothing interferes with, the first about all.

`QueryProofs`, for any collections, documents, requests, rankings, rerank scores,
failures and changes, and for any numbers that satisfy `FusionAssumption`:

- `QueryTypeCorrect` (`TypeOK`).
- `QueriesSurvive` (`SurvivesServices`), by `SurvivesInv`, which knows which
  requests are still to come at each step: a query that fails has not asked for a
  reranking, or has been given a score that is no number.
- `FusionAgrees`, about `Fusion` alone, and from it `QueryFusionRespectsTheLists`
  (`FusionRespectsTheLists`): if every list with `v` has `u` before it, each list
  contributes at least as much to `u` (`ContributionFalls`), so does the sum
  (`TotalGrows`) and the bonus (`BonusFalls`), and a tie is broken by first appearance,
  which is `u`'s. It holds whatever the constants of the fusion; what it needs is that
  contribution and bonus do not grow with the rank.
- `BlendKeepsTheFirst`, about `Fusion` alone: with the weights 75, 60 and 40, no
  two scores of the reranker bring a later candidate before the first, whatever
  `Top` >= 1 and `Mid` >= 2; and from it `QueryTopStays` (`TopStays`), for any number of
  candidates, `MaxRank` or not.
- `QueryAnswersWhatWasFound` (`AnswerIsWhatWasFound`): `HitsInv` (while nothing changes,
  a hit is under the name of its collection, which is in the scope if the search was
  restricted) and `AnswerInv` (candidates are the fused lists, cut; an answer is an
  injective selection of them, all of those in scope unless something cut it or they
  score too low by the fused rank alone, which is the least a reranker can leave of
  it). Documents
  and hits are counted by bijections.

The order of a set is not defined by recursion: `OrderedFacts` (the position of an element
is the number of elements before it, and this is a bijection) and `SelectFacts` are what
the two modules reason with. The one recursive function, the sum `Total`, is reasoned
about with its least counterexample (`LeastOf`), which needs no operator as a parameter.

`DaemonProofs`, for any terminals, processes, commands and mishaps:

- `DaemonTypeCorrect`: `Spec => []TypeOK`.
- `DaemonsAreReachable` (`NoneUnreachable`), by `CalmInv`: while it is calm, a start
  is alone (`AloneInv`); the file is empty only while one fills it (`EmptyInv`); and
  where a command has read a pid, the file holds that pid or is gone, and what it is
  about to unlink names no daemon that is up (`TermInv`). The last is what could be
  wrong: the check and the unlink are two calls, and hold together because a pid can
  come to name another program between them but never a daemon.
- `StopsLeaveNothing` (`StopLeavesNothing`) and `OnlyTheStoppedBlocks`
  (`OnlyTheStoppedIsInTheWay`), from that invariant: a daemon that is up is the one in
  the file, so there is one at most.
- `TracebacksSurvive` (`TracebackSurvives`), with `LogInv`: a start opens a log only
  where it has moved the last one or found none.

`TextProofs`, for a body of any length, any `MaxChars` and any `Overlap` below it, for
texts of any length, and for any results, fixture and cut-off. The invariant only says
that a result is what the function computes (`TextInv`); what is proved is about the
functions. `TextPlacesAreTrue` (`PlacesAreTrue`) joins the first two that follow,
`TextWrittenIsMeant` (`WrittenIsMeant`) the next three, and
`TextMeasuresAreHonest` (`MeasuresAreHonest`) the last two:

- `TextChunksCover` (`ChunksCover`): `MultipleBefore` finds the last chunk that begins at
  or before a passage; it reaches the end of the body, or is one step short of the next.
- `TextSnippetsAreTrue` (`SnippetsAreTrue`), for any body, `Margin` and place of a chunk:
  `CutFacts` says when a cut is reached, by the separators counted so far (`UpTo`);
  separators of a window are those of the body between its ends (`CountOfPart`). So the
  `k`-th line of a window lies within the line of the body whose number is `k` plus the
  newlines before the window, and is what the window left of it (`PieceOfWindow`). A word
  of the body lies in one of its lines (`WordIsAHit`), which the best line then has. The
  text of the first lines begins that of all (`JoinedInTwo`), and what has room before
  the ellipsis stays (`ShortenedFacts`).
- `TextWordsAreMeant` (`WordsAreMeant`), for queries of any length. What is kept of a text
  (`Kept`) is kept of its parts, of its pieces between separators (`KeptOfSplit`), and
  of it with blanks around Chinese characters (`NormalizeFacts`), so no term or phrase
  loses a word (`TermFacts`, `SpacedFacts`). `Ready` is the invariant of the tokenizer's
  loop: where a token may begin, the quotes so far are even, and what is before is a
  blank, a quote, or the text's beginning, or else what follows is a blank, or a quote
  without a negating hyphen before it. From such a place on, the letters of a token are
  denied, by the text, just when it begins with a hyphen (`DeniedInPhrase`,
  `DeniedInPlain`), and its end is such a place again. The rest is descending induction
  (`RestIsSaid`).
- `TextLinesAreMeant` (`LinesAreMeant`): the typed lines of a document are its
  sub-queries, each at its place, and its intent is the last intent line. `OnlyLength`
  counts what is picked, `OnlyPlaced` says where in the result a picked line is, and
  `OnlyLast` which comes last.
- `TextBracesAreMeant` (`BracesAreMeant`), for patterns of any length. Groups do not
  overlap (`GroupsApart`), so the alternatives of two may be taken in either order
  (`CrossOver`); by induction on the length, any group that comes first gives all the
  expansions there are (`AnyOrder`), and there are finitely many. Cutting the
  expansions of each alternative at the maximum loses nothing the maximum leaves room for.
- `TextDistanceIsMetric` (`DistanceIsMetric`): the table exists (`TableExists`, from
  tables that are right for lengths that add up to `s`), its entries are numbers,
  and each is the least of three neighbours (`Lawful`). Then symmetry, zero and the bounds
  by `OverTheGrid`, and the triangle inequality by `OverTheBox`: what holds
  at the edges and at a place whenever it holds at those before it holds everywhere.
  `Detour` has the nine ways in which the last edits of the two halves can meet.
- `TextScoresAreHonest` (`ScoresAreHonest`): hits grow with the results counted
  (`HitsGrow`), more hits than results make one result count twice
  (`MoreHitsThanResults`, by the pigeonhole principle), and the harmonic mean of two
  fractions lies between them (`MeanInBetween`).

The library's induction theorems take an operator as a parameter, which the provers
cannot instantiate. `TextProofs` has its own for sets: a set of sequences that has the
empty one, and with a sequence what is appended to, has all (`FromEmpty`); a set of
numbers that has each number whose predecessors it has, has all (`FromBelow`). Both come
from the least counterexample. A recursive function exists if its value at an argument
depends on its values at arguments of a lower rank (`ByRank`): `Items` by the rest of the
query, `expand_braces` and `Expansions` by the length of the pattern. Flattening and
filtering are reasoned about by what they do to a sequence with one more member.

The assumptions are those on the constants: `StoreAssumption`, `UpdateAssumption`,
`EmbedAssumption`, `ReadersAssumption`, `FusionAssumption`, `QueryAssumption`,
`TextAssumption`, `BlankAssumption`, `DaemonAssumption`.

They ask little of the code: that collections and files are finitely many, that a
document has a path and a body a chunk (`chunk_document` never returns an empty list),
that names are unique when collections are added (a constraint of the schema), that a
text begins with itself, that `Unit` and `Scale` are numbers, and that chunks overlap by
less than their length and begin within the body. `BlankAssumption` says that the
blank and the Chinese letter of the model are characters: `normalize_cjk_for_fts` adds
the one and copies the other.

Only model-checked: liveness (`Converges`, `Ends`, `Searchable`), which
the prover does not reach.
Every safety property that a passing run checks is proved.

## Where the code and its words disagree

- `write.py:275` says that one collection's failure does not abort the rest. An
  update command whose directory is gone (`FileNotFoundError` from
  `subprocess.run`) and a collection removed or renamed after it was listed
  (`CollectionNotFoundError`) end the run with a traceback: `update_abort`.
- `write.py:349` expects an `OSError` for a vanished source directory. The walk
  finds no files in one and raises nothing: the reindex deactivates all
  documents of the collection and reports success: `update_vanished`.
- `vector.py:82` says that each model gets its own table. Slugs that differ only
  in case or punctuation share one: `embed_tables`.

Others, which have no run of their own; the properties state what the code does:

- docs/mcp-server.md says that `marq://collection/path` reads a document as a
  resource (line 87). `_read_resource` looks the path up without the scheme, and a
  document of another collection with exactly that path comes first (`LookupExact`).
- It shows "MCP daemon started ..., listening on ..." (line 19), which is printed before
  the daemon binds its port and whether or not it can: after a stop, which does not
  wait, the old one may still have it (`OnlyTheStoppedIsInTheWay`).
- It says that `mcp stop` cleans up a stale pid file (line 31). An empty one, left by a
  start that died while writing it, makes `stop` and `start` raise, and stays (`Read`).
- The description of the MCP `query` tool says that the first sub-query weighs
  double (`server.py:373`); all weigh the same (`hybrid_rrf_weights`).
- `find_document` "never raises for a miss" (`retrieval.py:217`), but a body removed
  between its two statements is a `NoResultFound` (`RaisesOnlyForTheDeleted`).
- docs/architecture.md calls the search vector always current; a rename leaves the
  old collection name in it (`SearchExact` compares with `vector`).
- A Chinese or Japanese term with a hyphen or a dot is not split into characters, and
  finds nothing; a quoted `"multi-agent"` is searched as `multiagent` (`WrittenIsMeant`).
- An expansion that is JSON but no object is an `AttributeError`, where other bad
  expansions fall back on the query itself (`SurvivesServices`, fault "reply").
- A reranker that answers badly is to cost the reranking alone (`hybrid.py:616-620`). A
  `relevance_score` that is null or no number loses the whole answer, because the blend
  is below the `try` (`SurvivesServices`, fault "score").
- The header of a snippet counts lines that the cut at `max_len` has taken from its text,
  the reported one among them (`SnippetsAreTrue`).
- Of two `intent:` lines of a query document the first is dropped without a word, where
  other repeated lines are all searched (`LinesAreMeant`).
- Precision exceeds 1 when one result matches several expected files (`ScoresAreHonest`).
- `context check` wants a context of a directory's very name, inheritance takes any
  text prefix: it reports directories that inherit one (`CheckFindsEveryGap` is one way).
- The nearest chunks are cut, and several named collections filtered, after the
  database has answered: a scoped search can miss what it was asked for (`SearchExact`).

## Not modelled

Access control (a stub that grants everything), the transport of the MCP server (the
SDK's), output formats, the runner of the benchmark (it only calls and prints), the
doctor, skills, logging and configuration (input and output only), the bootstrap of
the schema, PostgreSQL's parsing, stemming and ranking of text, the quality of the
models, and the number of bodies `embed` reports.
