-------------------------------- MODULE Query --------------------------------
(***************************************************************************)
(* One hybrid query (search/hybrid.py) as the `query` command, the MCP     *)
(* tool and the REST endpoint make it: searches of the index and requests  *)
(* to the router that expands, embeds and reranks, any of which can fail,  *)
(* while other processes rename and remove collections.                    *)
(*                                                                         *)
(* A search is one step here, with whatever hits it finds in whatever      *)
(* order; Readers is about the statements it consists of.                  *)
(***************************************************************************)
EXTENDS Fusion

CONSTANTS
  Coll, Doc,
  CollOf,       \* document -> its collection
  Born,         \* collection -> its name
  Defaults,     \* sets of collections searched when none is named
  Names,        \* names a collection can be renamed to
  Rankings,     \* orders in which a search can find documents
  Vectors,      \* whether the table of vectors can exist
  Relevance,    \* scores the reranker can give, in 0..Unit
  Requests,     \* see Request
  Headroom,     \* results fetched at least when they are filtered afterwards
  MaxChanges,   \* bound: renamed and removed collections during a query
  None

Type == {"lex", "vec", "hyde"}
Types == <<"lex", "vec", "hyde">>

\* plain: there is a query text; typed: the sub-queries the caller spelled
\* out; valid: they pass validation; scope: the names given, {} for none.
Request == [entry : {"cli", "mcp", "rest"}, plain : BOOLEAN, typed : Seq(Type),
            valid : BOOLEAN, scope : SUBSET Names, intent : BOOLEAN, rerank : BOOLEAN,
            candidates : Nat, limit : Nat, min : Nat]

ASSUME QueryAssumption ==
  /\ CollOf \in [Doc -> Coll] /\ Born \in [Coll -> Names]
  /\ Rankings \subseteq Seq(Doc) /\ Relevance \subseteq 0..Unit
  /\ Vectors \subseteq BOOLEAN /\ Defaults \subseteq SUBSET Coll
  /\ Requests \subseteq Request /\ Headroom \in Nat /\ MaxChanges \in Nat
  /\ None \notin Names

VARIABLES
  name,        \* collection -> its name, None when it has been removed
  default,     \* collections searched when none is named
  vectors,     \* the table of vectors exists
  request,     \* None before and after
  pc,
  scope,       \* collection names in effect
  expanded,    \* sub-queries still to be searched
  vecQueries,  \* what is to be embedded, then searched
  lists,       \* ranked lists of hits <<name, document>>
  candidates,  \* fused
  answer,      \* [hit, score], the best first
  calls,       \* requests made to the router (history)
  fault,       \* why the query failed, or what failed without failing it (history)
  changes

index == <<name, default, vectors>>
pipeline == <<request, pc, scope, expanded, vecQueries, lists, candidates, answer>>
vars == <<index, pipeline, calls, fault, changes>>

Live == {c \in Coll : name[c] # None}
Hit == Names \X Doc
Location == {"idle", "scope", "probe", "expand", "lex", "embed", "vec", "fuse",
             "rerank", "done", "failed", "refused"}
Ended == {"done", "failed", "refused"}
Service == {"expand", "embed", "rerank"}
Fault == Service \cup {None, "reply", "removed", "score"}

TypeOK ==
  /\ name \in [Coll -> Names \cup {None}] /\ vectors \in BOOLEAN /\ default \in Defaults
  /\ request \in Requests \cup {None} /\ pc \in Location /\ scope \subseteq Names
  /\ expanded \in Seq(Type) /\ vecQueries \in Seq({"original", "vec", "hyde"})
  /\ \A i \in 1..Len(lists) : /\ lists[i].type \in {"original"} \cup Type
                              /\ lists[i].hits \in Seq(Hit) \ {<<>>}
  /\ candidates \in Seq(Hit)
  /\ \A i \in 1..Len(answer) : answer[i].hit \in ToSet(candidates)
  /\ calls \in [Service -> 0..1] /\ fault \in Fault /\ changes \in 0..MaxChanges

Init ==
  /\ name = Born /\ vectors \in Vectors /\ default \in Defaults
  /\ request = None /\ pc = "idle" /\ scope = {} /\ expanded = <<>> /\ vecQueries = <<>>
  /\ lists = <<>> /\ candidates = <<>> /\ answer = <<>>
  /\ calls = [s \in Service |-> 0] /\ fault = None /\ changes = 0

-----------------------------------------------------------------------------
(* What a request asks for.                                                *)

\* The tool takes a query or sub-queries; the REST endpoint an array of
\* sub-queries, which may be empty.
Refused(r) ==
  \/ r.entry = "mcp" /\ (r.plain = (r.typed # <<>>))
  \/ r.typed # <<>> /\ ~r.valid

Typed == request.typed # <<>>
Single == Cardinality(scope) = 1
Searched == {c \in Live : Single => name[c] \in scope}

\* Results are cut before they are filtered by collection, and after.
Fetch == IF request.entry # "cli" /\ Cardinality(scope) <= 1 THEN request.limit
         ELSE IF Headroom < 2 * request.limit THEN 2 * request.limit ELSE Headroom

\* Bug: hits are not filtered when no name is in effect.
ShownUnfiltered(results) ==
  Cut(IF Cardinality(scope) <= 1 THEN results
      ELSE Select(results, {i \in DOMAIN results : results[i].hit[1] \in scope}), request.limit)
\* No name in effect leaves nothing in scope.
Shown(results) ==
  Cut(IF scope = {} THEN <<>> ELSE IF Single THEN results
      ELSE Select(results, {i \in DOMAIN results : results[i].hit[1] \in scope}), request.limit)

\* By score, equal ones in the order of the candidates.
Results(score) ==
  LET ranks == {i \in DOMAIN candidates : score[i] >= request.min}
      order == Ordered(ranks, {p \in ranks \X ranks :
                 \/ score[p[1]] > score[p[2]]
                 \/ score[p[1]] = score[p[2]] /\ p[1] < p[2]})
  IN Cut([i \in DOMAIN order |-> [hit |-> candidates[order[i]], score |-> score[order[i]]]],
         Fetch)

-----------------------------------------------------------------------------
(* The steps of a query.                                                   *)

At(p) == pc = p /\ UNCHANGED <<index, request, changes>>
Goto(p) == pc' = p
Called(s) == calls' = [calls EXCEPT ![s] = @ + 1]
Quietly == UNCHANGED <<calls, fault>>

Ask(r) ==
  /\ pc = "idle" /\ request' = r
  /\ Goto(IF Refused(r) THEN "refused" ELSE "scope")
  /\ UNCHANGED <<index, scope, expanded, vecQueries, lists, candidates, answer, changes>>
  /\ Quietly

\* The names given, or those of all collections searched by default.
ResolveScope ==
  /\ At("scope")
  /\ scope' = IF request.scope # {} THEN request.scope ELSE {name[c] : c \in default \cap Live}
  /\ expanded' = request.typed
  /\ Goto(IF Typed THEN "lex" ELSE "probe")
  /\ UNCHANGED <<vecQueries, lists, candidates, answer>> /\ Quietly

\* A search, under the names the collections have now.
Found(ranking) ==
  LET s == Select(ranking, {i \in DOMAIN ranking : CollOf[ranking[i]] \in Searched}) IN
  [i \in DOMAIN s |-> <<name[CollOf[s[i]]], s[i]>>]
\* Bug: a search that finds nothing is fused too.
ListedAnyway(type, hits) == lists' = Append(lists, [type |-> type, hits |-> hits])
Listed(type, hits) == lists' = IF hits = <<>> THEN lists
                               ELSE Append(lists, [type |-> type, hits |-> hits])

\* The query as it is, first.  A strong signal needs no expansion; with an
\* intent there is none.
Probe ==
  /\ At("probe")
  /\ \E ranking \in IF request.plain THEN Rankings ELSE {<<>>} :
       /\ Listed("original", Found(ranking))
       /\ \/ Goto("expand")
          \/ ~request.intent /\ Found(ranking) # <<>> /\ Goto("lex")
  /\ UNCHANGED <<scope, expanded, vecQueries, candidates, answer>> /\ Quietly

\* The variants the model came up with, or the query itself if it failed or
\* found none.  An answer that is JSON but not an object is an exception.
expand_query ==
  /\ At("expand") /\ Called("expand")
  /\ \/ /\ \E variants \in SUBSET Type :
             expanded' = IF variants = {} THEN <<"lex", "vec">>
                         ELSE Select(Types, {i \in DOMAIN Types : Types[i] \in variants})
        /\ Goto("lex") /\ UNCHANGED fault
     \/ expanded' = <<"lex", "vec">> /\ fault' = "expand" /\ Goto("lex")
     \/ expanded' = <<>> /\ fault' = "reply" /\ Goto("failed")
  /\ UNCHANGED <<scope, vecQueries, lists, candidates, answer>>

\* One lexical sub-query after the other.
SearchLex ==
  /\ At("lex")
  /\ LET lex == {i \in DOMAIN expanded : expanded[i] = "lex"} IN
     IF lex = {}
     THEN /\ vecQueries' = (IF Typed THEN <<>> ELSE <<"original">>) \o expanded
          /\ expanded' = <<>> /\ Goto("embed") /\ UNCHANGED lists
     ELSE /\ \E ranking \in Rankings : Listed("lex", Found(ranking))
          /\ expanded' = RemoveAt(expanded, Min(lex))
          /\ UNCHANGED <<vecQueries, pc>>
  /\ UNCHANGED <<scope, candidates, answer>> /\ Quietly

\* All at once, if there is a table to search.
EmbedQueries ==
  /\ At("embed")
  /\ IF vecQueries = <<>> \/ ~vectors THEN Goto("fuse") /\ Quietly
     ELSE /\ Called("embed")
          /\ \/ Goto("vec") /\ UNCHANGED fault
             \/ Goto("failed") /\ fault' = "embed"
  /\ UNCHANGED <<scope, expanded, vecQueries, lists, candidates, answer>>

SearchVec ==
  /\ At("vec")
  /\ IF vecQueries = <<>> THEN Goto("fuse") /\ UNCHANGED <<vecQueries, lists>>
     ELSE /\ \E ranking \in Rankings : Listed(Head(vecQueries), Found(ranking))
          /\ vecQueries' = Tail(vecQueries) /\ UNCHANGED pc
  /\ UNCHANGED <<scope, expanded, candidates, answer>> /\ Quietly

Fuse ==
  /\ At("fuse")
  /\ candidates' = Cut(reciprocal_rank_fusion(lists), request.candidates)
  /\ Goto(IF candidates' = <<>> THEN "done" ELSE "rerank")
  /\ UNCHANGED <<scope, expanded, vecQueries, lists, answer>> /\ Quietly

\* By the fused rank alone.
RrfOnly == [i \in DOMAIN candidates |-> PositionScore(i)]

\* Bug: a failing reranker fails the query.
RerankFails ==
  /\ At("rerank")
  /\ \/ ~request.rerank /\ answer' = Shown(Results(RrfOnly)) /\ Goto("done") /\ Quietly
     \/ /\ request.rerank /\ Called("rerank")
        /\ fault' = "rerank" /\ answer' = <<>> /\ Goto("failed")
  /\ UNCHANGED <<scope, expanded, vecQueries, lists, candidates>>
\* A failing reranker, or tokenizer, costs the reranking alone.  A score that
\* is no number passes with the others, and the blend of it is an exception.
Rerank ==
  /\ At("rerank")
  /\ \/ ~request.rerank /\ answer' = Shown(Results(RrfOnly)) /\ Goto("done") /\ Quietly
     \/ /\ request.rerank /\ Called("rerank")
        /\ \/ fault' = "rerank" /\ answer' = Shown(Results(RrfOnly)) /\ Goto("done")
           \/ fault' = "score" /\ Goto("failed") /\ UNCHANGED answer
           \/ /\ \E scores \in [DOMAIN candidates -> Relevance] :
                   answer' = Shown(Results([i \in DOMAIN candidates |-> Blend(i, scores[i])]))
              /\ Goto("done") /\ UNCHANGED fault
  /\ UNCHANGED <<scope, expanded, vecQueries, lists, candidates>>

Step == \/ ResolveScope \/ Probe \/ expand_query \/ SearchLex \/ EmbedQueries
        \/ SearchVec \/ Fuse \/ Rerank

-----------------------------------------------------------------------------
(* Other processes.                                                        *)

Running == pc \notin Ended \cup {"idle"}
Change == Running /\ changes < MaxChanges /\ changes' = changes + 1 /\ UNCHANGED <<default, vectors>>

RenameCollection(c, n) ==
  /\ Change /\ c \in Live /\ n \notin {name[d] : d \in Coll}
  /\ name' = [name EXCEPT ![c] = n]
  /\ UNCHANGED <<pipeline, calls, fault>>

\* In the middle of a search that has a hit in it, the name of the
\* collection is looked up in vain, and the KeyError ends the query.
RemoveCollection(c) ==
  /\ Change /\ c \in Live
  /\ name' = [name EXCEPT ![c] = None]
  /\ \/ UNCHANGED <<pc, fault>>
     \/ pc \in {"probe", "lex", "vec"} /\ c \in Searched /\ Goto("failed") /\ fault' = "removed"
  /\ UNCHANGED <<request, scope, expanded, vecQueries, lists, candidates, answer, calls>>

Next ==
  \/ Step
  \/ \E r \in Requests : Ask(r)
  \/ \E c \in Coll, n \in Names : RenameCollection(c, n)
  \/ \E c \in Coll : RemoveCollection(c)

Spec == Init /\ [][Next]_vars

-----------------------------------------------------------------------------
(* Properties.                                                             *)

Undisturbed == changes = 0
FoundDocs == UNION {{u[2] : u \in ToSet(lists[i].hits)} : i \in 1..Len(lists)}
AnswerDocs == {x.hit[2] : x \in ToSet(answer)}
Fused == pc = "rerank"

\* Whatever the router does, an answered query shows every document its
\* searches found in the collections asked for, once, unless the number of
\* candidates or the limit cut it, or its fused rank, with nothing from the
\* reranker, scores less than the lowest score asked for; a failed reranking
\* loses nothing and invents nothing (search/hybrid.py, cli/commands/query.py,
\* mcp/server.py: _run_query_search).  A collection renamed meanwhile shows
\* the same document twice, under both names.
TooLow(d) == \E i \in DOMAIN candidates : candidates[i][2] = d /\ Blend(i, 0) < request.min
AnswerIsWhatWasFound ==
  pc = "done" /\ Undisturbed =>
    LET mine == {d \in FoundDocs : name[CollOf[d]] \in scope} IN
    /\ AnswerDocs \subseteq mine
    /\ Len(answer) = Cardinality(AnswerDocs)
    /\ \A d \in mine \ AnswerDocs : \/ Cardinality(FoundDocs) > request.candidates
                                   \/ Len(answer) = request.limit
                                   \/ Cardinality(FoundDocs) > Fetch
                                   \/ TooLow(d)

\* Fusion respects what the lists agree on: a document that every list with
\* another one has before it is fused before it, whatever the weights and
\* the bonuses (search/hybrid.py: reciprocal_rank_fusion).
Outranks(u, v) ==
  \A i \in 1..Len(lists) : v \in ToSet(lists[i].hits) =>
    u \in ToSet(lists[i].hits) /\ Rank(lists[i], u) < Rank(lists[i], v)
FusionRespectsTheLists ==
  Fused => \A i, j \in 1..Len(candidates) : i < j => ~Outranks(candidates[j], candidates[i])

\* The reranker never moves another document before the one fused first,
\* whatever scores it gives between 0 and 1, as the configured model does and
\* nothing checks: a query's answer begins with that document, if it is in
\* scope and scores enough (search/hybrid.py: the weights of the blend).
TopStays ==
  pc = "done" /\ answer # <<>> /\ candidates[1][1] \in scope
    => answer[1].hit = candidates[1]

\* A query fails for nothing but a failed embedding, an expansion that is not
\* an object, a collection removed under a search, or a relevance score that is
\* no number; a service that is down, late or answers otherwise costs its own
\* part alone.  Nothing but such a score loses an answer once a reranking has
\* been asked for.  A caller who spelled the sub-queries out asks for no
\* expansion, and no service is asked twice (search/hybrid.py, llm/client.py).
SurvivesServices ==
  /\ pc = "failed" => /\ fault \in {"embed", "reply", "removed", "score"} /\ answer = <<>>
                      /\ (fault = "score") <=> (calls["rerank"] = 1)
                      /\ fault = "score" => request.rerank /\ candidates # <<>>
                      /\ fault = "removed" => changes > 0
                      /\ fault = "embed" => vectors
  /\ pc \notin {"idle", "refused"} /\ Typed => calls["expand"] = 0
  /\ \A s \in Service : calls[s] <= 1

=============================================================================
