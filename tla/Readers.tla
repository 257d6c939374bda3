------------------------------ MODULE Readers ------------------------------
(***************************************************************************)
(* The commands that read the index (store/retrieval.py, search/fts.py,    *)
(* search/vector.py, store/context.py), as the CLI and the MCP server call *)
(* them, beside the commands that write it.                                *)
(*                                                                         *)
(* A reader is a sequence of SELECTs in a READ COMMITTED session: each     *)
(* sees what is committed when it begins, so a commit can fall between any *)
(* two of them.  Store models how the writers get to their commits; here a *)
(* write is one atomic step, because a reader sees nothing else of it.     *)
(* Readers change nothing and take no locks: one of them is enough.        *)
(***************************************************************************)
EXTENDS Naturals, SequencesExt, FiniteSetsExt

CONSTANTS
  Coll,       \* collection ids, in the order they were added
  Segment,    \* names of collections and components of paths, numbered in
              \* the order the database sorts them
  Begins,     \* <<s, t>>: the text of segment s begins with that of t
  File,       \* <<collection, path>>, a path being a sequence of segments
  Hash,       \* bodies
  Hex,        \* segments that look like a docid
  Docid,      \* body -> the segment that is its docid; two may share one
  Huge,       \* bodies longer than max_bytes
  Matching,   \* bodies that match the words of the search
  Rank,       \* what ts_rank makes of a document, its search vector and the
              \* word looked for, in whole units
  Chunks,     \* the body of every chunk, the nearest to the query first
  Closeness,  \* the similarity of each chunk, in the same units
  Prefix,     \* path prefixes contexts are attached to
  Tree,       \* states of a working tree: file -> its body or None
  Born,       \* the name each collection is added under
  Names,      \* names a collection can be renamed to
  Asks,       \* requests
  Fetch,      \* hits a search asks the database for
  Limit,      \* hits a search shows
  MaxWrites,  \* bound: commits beside the readers
  None

CollOf(f) == f[1]
PathOf(f) == f[2]

Row == [hash : Hash, active : BOOLEAN]

ASSUME ReadersAssumption ==
  /\ Coll \subseteq Nat /\ IsFiniteSet(Coll) /\ Segment \subseteq Nat
  /\ File \subseteq Coll \X (Seq(Segment) \ {<<>>}) /\ IsFiniteSet(File)
  /\ Hex \subseteq Segment /\ Docid \in [Hash -> Hex]
  /\ Huge \subseteq Hash /\ Matching \subseteq Hash /\ Chunks \in Seq(Hash)
  /\ Hash \subseteq ToSet(Chunks)   \* chunk_document never returns an empty list
  /\ Closeness \in [DOMAIN Chunks -> Nat]
  /\ \A i, j \in DOMAIN Chunks : i < j => Closeness[i] >= Closeness[j]
  /\ Rank \in [File \X [name : Segment, hash : Hash] \X (Segment \cup {None}) -> Nat]
  /\ Tree \subseteq [File -> Hash \cup {None}]
  /\ \A s \in Segment : <<s, s>> \in Begins
  /\ Born \in [Coll -> Segment] /\ IsInjective(Born) /\ Names \subseteq Segment
  /\ \A a \in Asks : /\ a.op \in {"search", "vsearch"} =>
                          a.scope \subseteq Segment /\ a.min \in Nat
                     /\ a.op = "search" => a.word \in Segment \cup {None}
                     /\ a.op = "list" => a.items \in Seq([virtual : BOOLEAN, path : Seq(Segment)])
  /\ None \notin Segment \cup Row \cup Asks \cup Hash \cup [name : Segment, hash : Hash]
  /\ \A S \in SUBSET Hash : S # None
  /\ Limit \in Nat /\ Fetch \in Nat /\ Fetch >= Limit /\ MaxWrites \in Nat

VARIABLES
  name,      \* collection -> its name, None when there is no such row
  default,   \* collections searched when none is named
  doc,       \* document rows: file -> Row or None
  content,   \* bodies stored
  vector,    \* what the search vector of a row was built from, None if NULL
  embedded,  \* bodies with vectors, None while their table does not exist
  ctx,       \* <<collection, prefix>> that have a context
  global,    \* there is a global context
  ask,       \* the request being answered, None when there is none
  pc,        \* the statement it is at
  scope,     \* collection names a search was asked for, or found by default
  ids,       \* collections the statements are restricted to
  hits,      \* what is still to be looked at, in order
  answer,    \* what has been found, in order
  past,      \* what has been true since the request began (history)
  quiet,     \* nothing has been committed since it began (history)
  writes

index == <<name, default, doc, content, vector, embedded, ctx, global>>
reader == <<ask, pc, scope, ids, hits, answer>>
vars == <<index, reader, past, quiet, writes>>

Live == {c \in Coll : name[c] # None}
Active == {f \in File : doc[f] # None /\ doc[f].active}
Shown(f) == <<name[CollOf(f)]>> \o PathOf(f)

Location == {"idle", "scope", "ids", "refs", "embed", "rows", "labels", "length",
             "body", "global", "context", "files", "collections", "prefixes", "paths",
             "health", "done", "missing", "failed", "refused"}
Ended == {"done", "missing", "failed", "refused"}

Never == [rows |-> {}, names |-> {}, offered |-> {}, gone |-> {}]
Past == [rows |-> {[file |-> f, name |-> name[CollOf(f)], hash |-> doc[f].hash] : f \in Active},
         names |-> {<<c, name[c]>> : c \in Live},
         offered |-> {name[c] : c \in default},
         gone |-> {}]

TypeOK ==
  /\ name \in [Coll -> Segment \cup {None}] /\ default \subseteq Live
  /\ doc \in [File -> Row \cup {None}] /\ content \subseteq Hash
  /\ \A f \in File : doc[f] # None => doc[f].hash \in content /\ CollOf(f) \in Live
  /\ \A f \in File : (vector[f] # None) = (doc[f] # None)
  /\ embedded # None => embedded \subseteq content
  /\ ctx \subseteq Live \X Prefix /\ global \in BOOLEAN
  /\ ask \in Asks \cup {None} /\ pc \in Location
  /\ scope \subseteq Segment /\ ids \subseteq Coll
  /\ quiet \in BOOLEAN /\ writes \in 0..MaxWrites

Clear ==
  /\ ask' = None /\ scope' = {} /\ ids' = {} /\ hits' = <<>>
  /\ answer' = <<>>

\* Collections freshly indexed, each from some state of its tree.
Init ==
  /\ name = Born /\ default = Coll
  /\ \E tree \in Tree :
       /\ doc = [f \in File |-> IF tree[f] = None THEN None
                                ELSE [hash |-> tree[f], active |-> TRUE]]
       /\ content = {tree[f] : f \in File} \ {None}
       /\ vector = [f \in File |-> IF tree[f] = None THEN None
                                   ELSE [name |-> Born[CollOf(f)], hash |-> tree[f]]]
  /\ embedded = None /\ ctx = {} /\ global = FALSE
  /\ ask = None /\ pc = "idle" /\ scope = {} /\ ids = {} /\ hits = <<>>
  /\ answer = <<>>
  /\ past = Never /\ quiet = TRUE /\ writes = 0

-----------------------------------------------------------------------------
(* The writers, as seen by a reader: their commits.                        *)

\* (Plausible bugs stand before the operators they would replace.)
\* Bug: the sweep forgets the deactivated documents.
ReferencedByActive(d) == {d[f].hash : f \in {g \in File : d[g] # None /\ d[g].active}}
Referenced(d) == {d[f].hash : f \in {g \in File : d[g] # None}}

\* Every commit: while a request is under way, what has been true grows.
Committed(lost) ==
  /\ writes < MaxWrites /\ writes' = writes + 1
  /\ quiet' = (pc = "idle")
  /\ past' = IF pc \in Ended \cup {"idle"} THEN past
             ELSE LET now == Past' IN
                  [rows |-> past.rows \cup now.rows, names |-> past.names \cup now.names,
                   offered |-> past.offered \cup now.offered, gone |-> past.gone \cup lost]
  /\ UNCHANGED reader

\* The sweep at the end of a reindex, a removal and a cleanup; vectors go
\* with the bodies they were made from.
Swept ==
  /\ content' = content \cap Referenced(doc')
  /\ embedded' = IF embedded = None THEN None ELSE embedded \cap content'

Lost == content \ content'

\* A reindex: rows follow the tree, vanished files are deactivated, and a
\* search vector is rebuilt only with the row it belongs to.
Reindex(c, tree) ==
  LET Mine(f) == CollOf(f) = c
      Changes(f) == Mine(f) /\ tree[f] # None
                    /\ doc[f] # [hash |-> tree[f], active |-> TRUE] IN
  /\ name[c] # None
  /\ doc' = [f \in File |->
       IF Changes(f) THEN [hash |-> tree[f], active |-> TRUE]
       ELSE IF Mine(f) /\ tree[f] = None /\ doc[f] # None
            THEN [doc[f] EXCEPT !.active = FALSE] ELSE doc[f]]
  /\ doc' # doc
  /\ vector' = [f \in File |-> IF Changes(f) THEN [name |-> name[c], hash |-> tree[f]]
                               ELSE vector[f]]
  /\ content' = Referenced(doc')
  /\ embedded' = IF embedded = None THEN None ELSE embedded \cap content'
  /\ UNCHANGED <<name, default, ctx, global>>
  /\ Committed(Lost)

RemoveCollection(c) ==
  /\ name[c] # None
  /\ name' = [name EXCEPT ![c] = None] /\ default' = default \ {c}
  /\ doc' = [f \in File |-> IF CollOf(f) = c THEN None ELSE doc[f]]
  /\ vector' = [f \in File |-> IF CollOf(f) = c THEN None ELSE vector[f]]
  /\ ctx' = {x \in ctx : x[1] # c}
  /\ Swept
  /\ UNCHANGED global
  /\ Committed(Lost \cup {c})

RenameCollection(c, n) ==
  /\ name[c] # None /\ n \notin {name[d] : d \in Coll}
  /\ name' = [name EXCEPT ![c] = n]
  /\ UNCHANGED <<default, doc, content, vector, embedded, ctx, global>>
  /\ Committed({})

SetIncludeByDefault(c) ==
  /\ name[c] # None
  /\ default' = IF c \in default THEN default \ {c} ELSE default \cup {c}
  /\ UNCHANGED <<name, doc, content, vector, embedded, ctx, global>>
  /\ Committed({})

Cleanup ==
  /\ Active # {f \in File : doc[f] # None}
  /\ doc' = [f \in File |-> IF f \in Active THEN doc[f] ELSE None]
  /\ vector' = [f \in File |-> IF f \in Active THEN vector[f] ELSE None]
  /\ Swept
  /\ UNCHANGED <<name, default, ctx, global>>
  /\ Committed(Lost)

\* An embedding run that got as far as it did.
Embed ==
  /\ \E S \in SUBSET {doc[f].hash : f \in Active} :
       /\ embedded' = (IF embedded = None THEN {} ELSE embedded) \cup S
       /\ embedded' # embedded
  /\ UNCHANGED <<name, default, doc, content, vector, ctx, global>>
  /\ Committed({})

\* `context add` and `context rm` of a path; "/" is the global context.
ContextOnly == UNCHANGED <<name, default, doc, content, vector, embedded>> /\ Committed({})
AddContext(c, prefix) ==
  /\ name[c] # None /\ <<c, prefix>> \notin ctx
  /\ ctx' = ctx \cup {<<c, prefix>>} /\ UNCHANGED global /\ ContextOnly
RemoveContext(c, prefix) ==
  /\ <<c, prefix>> \in ctx
  /\ ctx' = ctx \ {<<c, prefix>>} /\ UNCHANGED global /\ ContextOnly
SetGlobalContext == global' = ~global /\ UNCHANGED ctx /\ ContextOnly

Write ==
  \/ \E c \in Coll, tree \in Tree : Reindex(c, tree)
  \/ \E c \in Coll : RemoveCollection(c) \/ SetIncludeByDefault(c)
  \/ \E c \in Coll, n \in Names : RenameCollection(c, n)
  \/ \E c \in Coll, x \in Prefix : AddContext(c, x) \/ RemoveContext(c, x)
  \/ Cleanup \/ Embed \/ SetGlobalContext

-----------------------------------------------------------------------------
(* What a request means.                                                   *)

Search == {"search", "vsearch"}
Lookups == {"get", "resource"}
Batch == {"list", "glob"}

\* Paths and prefixes are compared as text: `jour` covers `journal/a.md`.
Covers(prefix, path) ==
  \/ prefix = <<>>
  \/ /\ Len(prefix) <= Len(path)
     /\ \A i \in 1..Len(prefix) - 1 : prefix[i] = path[i]
     /\ <<path[Len(prefix)], Last(prefix)>> \in Begins

Inheriting(f) == {x \in Prefix : <<CollOf(f), x>> \in ctx /\ Covers(x, PathOf(f))}
Inherited(f) == [global |-> global, prefixes |-> Inheriting(f)]
NoContext == [global |-> FALSE, prefixes |-> {}]

\* The order of the database: by collection name, then by path.
Before(s, t) ==
  \/ IsStrictPrefix(s, t)
  \/ \E i \in 1..Len(s) : /\ i <= Len(t) /\ s[i] < t[i]
                          /\ SubSeq(s, 1, i - 1) = SubSeq(t, 1, i - 1)
Hit(f, n) == [file |-> f, name |-> n, hash |-> doc[f].hash, ctx |-> NoContext,
              body |-> FALSE, score |-> 0]
\* Bug: deactivated documents are listed too.
ShownRowsInactiveToo(d) == {f \in File : d[f] # None}
ShownRows(d) == {f \in File : d[f] # None /\ d[f].active}
Refs == {Hit(f, name[CollOf(f)]) : f \in {g \in ShownRows(doc) : CollOf(g) \in ids}}

Key(h) == <<h.name>> \o PathOf(h.file)

\* A finite set in any order, hits in the database's, positions in theirs.
Enumerations(S) == Bijection(1..Cardinality(S), S)
ByKey(S) ==
  {s \in Enumerations(S) : \A i, j \in DOMAIN s : i < j => Before(Key(s[i]), Key(s[j]))}
Ascending(S) == {s \in Enumerations(S) : \A i, j \in DOMAIN s : i < j => s[i] < s[j]}

\* A request for one document: [virtual, path].
LooksLikeDocid(q) == ~q.virtual /\ Len(q.path) = 1 /\ q.path[1] \in Hex
WithDocid(refs, q) == {r \in refs : Docid[r.hash] = q.path[1]}
\* Bug: a bare path is only compared with the ends of paths.
NamedBySuffix(refs, q) ==
  {r \in refs : IF q.virtual THEN Key(r) = q.path ELSE IsSuffix(q.path, Key(r))}
Named(refs, q) ==
  LET exact == {r \in refs : PathOf(r.file) = q.path} IN
  IF q.virtual THEN {r \in refs : Key(r) = q.path}
  ELSE IF exact # {} THEN exact
  ELSE {r \in refs : IsSuffix(q.path, Key(r))}
First(refs) == {r \in refs : \A other \in refs \ {r} : Before(Key(r), Key(other))}

\* The MCP resource handler takes the scheme off the URI before it looks.
Lookup(a) == [virtual |-> a.op = "get" /\ a.virtual, path |-> a.path]

\* A pattern is the set of paths it matches, with or without a collection.
Matches(h, pattern) == PathOf(h.file) \in pattern \/ Key(h) \in pattern

\* What is found among the rows read: one document, one for each of the
\* items that name any, or all that match.
FoundOne(refs, q) ==
  LET meant == IF LooksLikeDocid(q) THEN WithDocid(refs, q) ELSE Named(refs, q)
  IN IF meant = {} THEN {<<>>} ELSE {<<r>> : r \in First(meant)}
FoundEach(refs, items) ==
  LET found == {i \in DOMAIN items : Named(refs, items[i]) # {}} IN
  {t \in [1..Cardinality(found) -> refs] : \E s \in Ascending(found) :
     \A j \in DOMAIN s : t[j] \in First(Named(refs, items[s[j]]))}
FoundAll(refs, pattern) == ByKey({r \in refs : Matches(r, pattern)})
Found(refs) == CASE ask.op \in Lookups -> FoundOne(refs, Lookup(ask))
                 [] ask.op = "list" -> FoundEach(refs, ask.items)
                 [] OTHER -> FoundAll(refs, ask.pattern)

-----------------------------------------------------------------------------
(* The statements of a reader.                                             *)

At(p) == pc = p /\ UNCHANGED <<index, ask, past, quiet, writes>>
Goto(p) == pc' = p

Ask(a) ==
  /\ pc = "idle"
  /\ ask' = a /\ past' = Past /\ quiet' = TRUE
  /\ Goto(CASE a.op \in Search -> "scope" [] a.op \in {"check", "status"} -> "collections"
            [] OTHER -> "ids")
  /\ UNCHANGED <<index, scope, ids, hits, answer, writes>>

\* The answer is read; the session ends.
Leave ==
  /\ pc \in Ended
  /\ Clear /\ Goto("idle") /\ past' = Never /\ quiet' = TRUE
  /\ UNCHANGED <<index, writes>>

\* The collections named with -c, or those searched by default.
ResolveScope ==
  /\ At("scope")
  /\ scope' = IF ask.scope # {} THEN ask.scope ELSE {name[c] : c \in default}
  /\ Goto("ids") /\ UNCHANGED <<ids, hits, answer>>

\* Bug: the scope of a search does not reach the query.
WantedUnscoped == IF ask.op = "ls" THEN {ask.coll} ELSE {}
\* A single name narrows the query; several are filtered afterwards.
Wanted == IF ask.op = "ls" THEN {ask.coll}
          ELSE IF Cardinality(scope) = 1 THEN scope ELSE {}
ResolveIds ==
  /\ At("ids")
  /\ ids' = {c \in Live : Wanted = {} \/ name[c] \in Wanted}
  /\ Goto(IF ids' # {} THEN
            CASE ask.op = "search" -> "rows" [] ask.op = "vsearch" -> "embed"
              [] ask.op = "ls" -> "files" [] ask.op = "status" -> "health"
              [] OTHER -> "refs"
          ELSE IF ask.op \in Lookups \cup {"ls"} THEN "missing" ELSE "done")
  /\ UNCHANGED <<scope, hits, answer>>

ActiveDocumentRefs ==
  /\ At("refs")
  /\ hits' \in Found(Refs)
  /\ Goto(IF hits' = <<>> THEN IF ask.op \in Lookups THEN "missing" ELSE "done"
          ELSE CASE ask.op \in Lookups -> "body" [] ask.op \in Batch -> "global"
                 [] OTHER -> "length")
  /\ UNCHANGED <<scope, ids, answer>>

\* Bug: the body is read through the document's row.
BodyGoneOrChanged(h) == doc[h.file] = None \/ doc[h.file].hash # h.hash
\* scalar_one() raises when the body is not there any more.
BodyGone(h) == h.hash \notin content

\* Bug: no name at all stands for every name.
InScopeEmptyIsAll(h) == scope = {} \/ h.name \in scope
\* What is kept of a search: hits in scope that score enough, as many as
\* are shown.  A single name has narrowed the query already.
InScope(h) == h.name \in scope
\* Bug: the score asked for has to be exceeded.
PassesAbove(h) == (Cardinality(scope) = 1 \/ InScope(h)) /\ h.score > ask.min
Passes(h) == (Cardinality(scope) = 1 \/ InScope(h)) /\ h.score >= ask.min
Cut(s, n) == SubSeq(s, 1, IF Len(s) < n THEN Len(s) ELSE n)
Filtered(s) == {[i \in DOMAIN k |-> s[k[i]]] :
                  k \in Ascending({i \in DOMAIN s : Passes(s[i])})}
Kept(s) == IF ask.op \in Search THEN {Cut(t, Limit) : t \in Filtered(s)} ELSE {s}

Finish(h, again) ==
  /\ hits' = Tail(hits)
  /\ answer' \in IF hits' = <<>> THEN Kept(Append(answer, h)) ELSE {Append(answer, h)}
  /\ Goto(IF hits' = <<>> THEN "done" ELSE again)
  /\ UNCHANGED <<scope, ids>>
Improve(h, next) ==
  /\ hits' = <<h>> \o Tail(hits)
  /\ Goto(next) /\ UNCHANGED <<scope, ids, answer>>
Raise == Goto("failed") /\ UNCHANGED <<scope, ids, hits, answer>>

\* get_context_for_path: the global context, then those of the collection.
GlobalContext ==
  /\ At("global")
  /\ Improve([Head(hits) EXCEPT !.ctx.global = global], "context")
GetContextForPath ==
  /\ At("context")
  /\ LET h == [Head(hits) EXCEPT !.ctx.prefixes = Inheriting(Head(hits).file)] IN
     IF ask.op \in Batch THEN Improve(h, "length") ELSE Finish(h, "global")

\* Bug: a body that is too large ends the batch.
DocumentBodyLengthEndsBatch ==
  /\ At("length")
  /\ LET h == Head(hits) IN
     IF BodyGone(h) THEN Raise
     ELSE IF ask.op = "files" THEN Finish(h, "length")
     ELSE IF h.hash \in Huge
          THEN Goto("done") /\ answer' = Append(answer, h) /\ UNCHANGED <<scope, ids, hits>>
     ELSE Improve(h, "body")
DocumentBodyLength ==
  /\ At("length")
  /\ LET h == Head(hits) IN
     IF BodyGone(h) THEN Raise
     ELSE IF ask.op = "files" THEN Finish(h, "length")
     ELSE IF h.hash \in Huge THEN Finish(h, "global")
     ELSE Improve(h, "body")

DocumentBody ==
  /\ At("body")
  /\ LET h == [Head(hits) EXCEPT !.body = TRUE] IN
     IF BodyGone(h) THEN Raise
     ELSE IF ask.op \in Lookups THEN Improve(h, "global") ELSE Finish(h, "global")

ListFiles ==
  /\ At("files")
  /\ answer' \in Enumerations({Hit(f, ask.coll) :
       f \in {g \in ShownRows(doc) : CollOf(g) \in ids /\ Covers(ask.prefix, PathOf(g))}})
  /\ Goto("done") /\ UNCHANGED <<scope, ids, hits>>

-----------------------------------------------------------------------------
(* Searches.                                                               *)

\* The query is embedded when there are vectors to compare it with.
EmbedQuery ==
  /\ At("embed")
  /\ IF embedded = None THEN Goto("done") ELSE Goto("rows") \/ Goto("refused")
  /\ UNCHANGED <<scope, ids, hits, answer>>

\* Words are looked for in the search vector, as it was last built.
HasWord(f) == IF ask.word = None THEN vector[f].hash \in Matching
                ELSE vector[f].name = ask.word
\* The nearest chunks of all collections, whatever the scope is.
Pool == {i \in DOMAIN Chunks : /\ Chunks[i] \in embedded
                              /\ Cardinality({j \in 1..i - 1 : Chunks[j] \in embedded}) < 3 * Fetch}
Near(f) == \E i \in Pool : Chunks[i] = doc[f].hash
Distance(f) == Min({i \in DOMAIN Chunks : Chunks[i] = doc[f].hash})
Rows(op) == {f \in ShownRows(doc) : /\ CollOf(f) \in ids
                                   /\ IF op = "search" THEN HasWord(f) ELSE Near(f)}

\* A document scores by its search vector, or by the nearest of its chunks.
Score(op, f) == IF op = "search" THEN Rank[f, vector[f], ask.word]
                ELSE Closeness[Distance(f)]

\* The rows, in an order PostgreSQL ranks them in.
Ranked(op, C) ==
  {s \in Enumerations(C) : \A i, j \in DOMAIN s : i < j =>
     IF op = "search" THEN Score(op, s[i]) >= Score(op, s[j])
     ELSE Distance(s[i]) <= Distance(s[j])}

\* A row as it is read: its body with it, its collection not yet by name.
Candidate(f) == [Hit(f, None) EXCEPT !.body = TRUE, !.score = Score(ask.op, f)]
SelectRows ==
  /\ At("rows")
  /\ \E s \in Ranked(ask.op, Rows(ask.op)) : LET best == Cut(s, Fetch) IN
       /\ hits' = [i \in DOMAIN best |-> Candidate(best[i])]
       /\ Goto(IF best = <<>> THEN "done" ELSE "labels")
  /\ UNCHANGED <<scope, ids, answer>>

\* A collection that is gone is a KeyError for the first of its hits.
CollectionNamesById ==
  /\ At("labels")
  /\ IF \E h \in ToSet(hits) : name[CollOf(h.file)] = None THEN Raise
     ELSE /\ hits' = [i \in DOMAIN hits |-> [hits[i] EXCEPT !.name = name[CollOf(hits[i].file)]]]
          /\ Goto("global") /\ UNCHANGED <<scope, ids, answer>>

-----------------------------------------------------------------------------
(* `context check` and `status`: a statement for the collections, then one *)
(* or two for each of them.                                                *)

Listed == [c \in Coll |-> [coll |-> c, name |-> name[c], prefixes |-> {}]]
ListCollections ==
  /\ At("collections")
  /\ hits' \in Enumerations({Listed[c] : c \in Live})
  /\ \A i, j \in DOMAIN hits' : i < j => hits'[i].name < hits'[j].name
  /\ Goto(IF hits' = <<>> THEN IF ask.op = "status" THEN "ids" ELSE "done"
          ELSE IF ask.op = "status" THEN "paths" ELSE "prefixes")
  /\ UNCHANGED <<scope, ids, answer>>

NextRow(entry, again, end) ==
  /\ hits' = Tail(hits) /\ answer' = answer \o entry
  /\ Goto(IF hits' = <<>> THEN end ELSE again)
  /\ UNCHANGED <<scope, ids>>

\* A context of the whole collection leaves nothing to check.
ListPrefixes ==
  /\ At("prefixes")
  /\ LET c == Head(hits).coll
         prefixes == {x \in Prefix : <<c, x>> \in ctx} IN
     IF <<>> \in prefixes THEN NextRow(<<>>, "prefixes", "done")
     ELSE Improve([Head(hits) EXCEPT !.prefixes = prefixes], "paths")

\* A top-level directory counts as covered if a context has its very name.
TopLevel(c) == {PathOf(f)[1] : f \in {g \in Active : CollOf(g) = c /\ Len(PathOf(g)) > 1}}
\* Bug: one context is enough for a collection.
UncoveredWithoutAny(c, prefixes) == IF prefixes = {} THEN TopLevel(c) ELSE {}
Uncovered(c, prefixes) == {d \in TopLevel(c) : <<d>> \notin prefixes}

CheckPaths ==
  /\ At("paths") /\ ask.op = "check"
  /\ LET c == Head(hits).coll
         missing == Uncovered(c, Head(hits).prefixes) IN
     NextRow(IF Head(hits).prefixes = {} THEN <<[coll |-> c, all |-> TRUE, dirs |-> {}]>>
           ELSE IF missing = {} THEN <<>>
           ELSE <<[coll |-> c, all |-> FALSE, dirs |-> missing]>>, "prefixes", "done")

CountDocuments ==
  /\ At("paths") /\ ask.op = "status"
  /\ LET c == Head(hits).coll IN
     NextRow(<<[coll |-> c, count |-> Cardinality({f \in Active : CollOf(f) = c})]>>,
           "paths", "ids")

\* get_vector_index_health: documents without a table, bodies with one.
NeedsEmbedding(C) ==
  LET S == {f \in ShownRows(doc) : CollOf(f) \in C} IN
  IF embedded = None THEN Cardinality(S)
  ELSE Cardinality({doc[f].hash : f \in S} \ embedded)
VectorIndexHealth ==
  /\ At("health")
  /\ answer' = Append(answer, [index |-> embedded # None, needs |-> NeedsEmbedding(ids)])
  /\ Goto("done") /\ UNCHANGED <<scope, ids, hits>>

Statement ==
  \/ ResolveScope \/ ResolveIds \/ ActiveDocumentRefs \/ GlobalContext \/ GetContextForPath
  \/ DocumentBodyLength \/ DocumentBody \/ ListFiles \/ EmbedQuery \/ SelectRows
  \/ CollectionNamesById \/ ListCollections \/ ListPrefixes \/ CheckPaths
  \/ CountDocuments \/ VectorIndexHealth

Next == Statement \/ Leave \/ Write \/ \E a \in Asks : Ask(a)

Spec == Init /\ [][Next]_vars

-----------------------------------------------------------------------------
(* Properties.                                                             *)

Undisturbed == quiet /\ pc \in {"done", "missing"}
Files(s) == {h.file : h \in ToSet(s)}

\* A lookup nothing interferes with finds a document that was meant, with
\* its body and its contexts, and finds one whenever there is one: a docid
\* one of the documents that have it, `marq://c/p` exactly that document, a
\* bare path the document with exactly that path before those that end with
\* it (store/retrieval.py: find_document).  The URI of a resource is taken
\* for a bare path, and can find another document (mcp/server.py:
\* _read_resource).
LookupExact ==
  Undisturbed /\ ask.op \in Lookups =>
    LET q == Lookup(ask)
        exact == {f \in Active : PathOf(f) = q.path}
        meant == IF LooksLikeDocid(q) THEN {f \in Active : Docid[doc[f].hash] = q.path[1]}
                 ELSE IF q.virtual THEN {f \in Active : Shown(f) = q.path}
                 ELSE IF exact # {} THEN exact
                 ELSE {f \in Active : IsSuffix(q.path, Shown(f))} IN
    IF pc = "missing" THEN meant = {}
    ELSE \E f \in meant : answer = <<[Hit(f, name[CollOf(f)]) EXCEPT !.body = TRUE,
                                       !.ctx = Inherited(f)]>>

\* A batch nothing interferes with has every document that matches, once,
\* and holds back exactly the bodies that are too large; `ls` lists exactly
\* the documents below its path (store/retrieval.py).
FetchExact ==
  Undisturbed =>
    /\ ask.op \in {"glob", "files"} =>
         /\ Files(answer) = {f \in Active : Matches(Hit(f, name[CollOf(f)]), ask.pattern)}
         /\ Len(answer) = Cardinality(Files(answer))
    /\ ask.op = "list" => \A i \in 1..Len(ask.items) : \A f \in Active :
         ask.items[i].virtual /\ ask.items[i].path = Shown(f) => f \in Files(answer)
    /\ ask.op \in Batch => \A h \in ToSet(answer) : h.body = (h.hash \notin Huge)
    /\ ask.op = "ls" /\ pc = "done" =>
         Files(answer) = {f \in Active : name[CollOf(f)] = ask.coll
                                         /\ Covers(ask.prefix, PathOf(f))}

\* A search nothing interferes with shows only active documents in scope
\* that match and score what was asked for, and misses one of these only if
\* it shows as many as it may, if the database was asked for fewer
\* candidates than there are (then hits outside several named collections
\* can push out those inside), or if the nearest chunks are all of other
\* bodies, in scope or not (cli/commands/read.py, search/vector.py:
\* search_vec).
SearchExact ==
  Undisturbed /\ ask.op \in Search =>
    LET all == {f \in Active : IF ask.op = "search" THEN HasWord(f)
                               ELSE embedded # None /\ doc[f].hash \in embedded}
        mine == {f \in all : name[CollOf(f)] \in scope}
        good == {f \in mine : Score(ask.op, f) >= ask.min}
        cut == IF Cardinality(scope) = 1 THEN mine ELSE all IN
    /\ Files(answer) \subseteq good
    /\ \A f \in good \ Files(answer) :
         \/ Len(answer) = Limit \/ Cardinality(cut) > Fetch
         \/ ask.op = "vsearch" /\ 3 * Fetch <=
              Cardinality({i \in 1..Distance(f) - 1 : Chunks[i] \in embedded})

\* A document below a directory `context check` does not report, in a
\* collection it does not report, inherits a context
\* (store/context.py: context_check, search/fts.py: get_context_for_path).
CheckFindsEveryGap ==
  Undisturbed /\ ask.op = "check" =>
    \A f \in Active :
      \/ Len(PathOf(f)) = 1 \/ Inherited(f).prefixes # {}
      \/ \E r \in ToSet(answer) : /\ r.coll = CollOf(f)
                                  /\ r.all \/ PathOf(f)[1] \in r.dirs

\* Whatever is committed meanwhile, what is shown was true: an active
\* document with that body was at that path at some time since the request
\* began, and its collection had the name it is shown under; for a document
\* that is looked up, at the same time (store/retrieval.py, search/fts.py).
AnswerWasTrue ==
  pc = "done" /\ ask.op \in Search \cup Lookups \cup Batch \cup {"files", "ls"} =>
    \A h \in ToSet(answer) :
      /\ <<CollOf(h.file), h.name>> \in past.names
      /\ \E r \in past.rows : /\ r.file = h.file /\ r.hash = h.hash
                              /\ ask.op \in Search \cup {"ls"} \/ r.name = h.name

\* A search shows no document of a collection it was not asked for: not one
\* excluded from default queries, even if every collection is, and not one
\* renamed in the middle (cli/commands/read.py: _filter_by_collections).
ScopeKept ==
  pc = "done" /\ ask.op \in Search => \A h \in ToSet(answer) :
    \E n \in scope : /\ <<CollOf(h.file), n>> \in past.names
                      /\ ask.scope = {} => n \in past.offered

\* A reader raises only if what it was about to read has been deleted since
\* it began: the body of a document it had found, or a hit's collection
\* (store/retrieval.py: scalar_one, search/fts.py: collection_names).
RaisesOnlyForTheDeleted ==
  pc = "failed" => \E h \in ToSet(hits) : {h.hash, CollOf(h.file)} \cap past.gone # {}

=============================================================================
