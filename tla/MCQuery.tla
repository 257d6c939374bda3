------------------------------ MODULE MCQuery ------------------------------
(* Three documents in two collections.                                       *)
EXTENDS Query

CONSTANTS a, b, spare, d1, d2, d3

DocCollOf == (d1 :> 1) @@ (d2 :> 2) @@ (d3 :> 1)
BornAs == (1 :> a) @@ (2 :> b)
EitherDefault == {{}, {1, 2}}
SomeRankings == {<<>>, <<d1, d2, d3>>, <<d3, d2>>}

Ask0 == [entry |-> "cli", plain |-> TRUE, typed |-> <<>>, valid |-> TRUE, scope |-> {},
         intent |-> FALSE, rerank |-> TRUE, candidates |-> 3, limit |-> 3, min |-> 0]
Tool(types) == [Ask0 EXCEPT !.entry = "mcp", !.plain = FALSE, !.typed = types]
SomeRequests ==
  {Ask0,
   [Ask0 EXCEPT !.scope = {a}, !.intent = TRUE, !.rerank = FALSE, !.min = 50 * Unit],
   [Ask0 EXCEPT !.entry = "mcp", !.typed = <<"lex">>],
   [Ask0 EXCEPT !.plain = FALSE, !.typed = <<"lex", "vec">>, !.scope = {a, spare},
                !.candidates = 2, !.limit = 1],
   [Ask0 EXCEPT !.plain = FALSE, !.typed = <<"vec">>, !.min = 40 * Unit],
   Tool(<<>>), Tool(<<"lex", "vec", "hyde">>),
   [Tool(<<"vec", "lex">>) EXCEPT !.scope = {b}],
   [Tool(<<"lex">>) EXCEPT !.valid = FALSE],
   [Tool(<<>>) EXCEPT !.entry = "rest", !.limit = 2]}
=============================================================================
