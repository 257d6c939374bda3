------------------------------- MODULE MCText -------------------------------
(* All short inputs of every function; a chunk begins inside its body.        *)
EXTENDS Text

Alphabet == {"a", "c", "n", "o", "x", "y", " ", "q", "-", ".", "{", "}", ","}
Strings(chars, n) == UNION {[1..k -> chars] : k \in 0..n}
Line(k) == [kind : {"lex", "intent", "other"}, text : {k}]
\* Expected files, and results, which have a collection before the path.
Paths == {<<"r">>, <<"d", "r">>, <<"e", "r">>, <<"s">>}
Fixtures == {<<>>} \cup {<<p>> : p \in Paths} \cup {<<p, q>> : p, q \in Paths}
Answers == UNION {[1..k -> {<<"c">> \o p : p \in Paths}] : k \in 0..3}

AllCalls ==
  [op : {"chunk"}, length : 0..20]
  \cup {c \in [op : {"snippet"}, body : Strings({"n", "x", "o"}, 6), chunk : {None, 0, 2, 4}] :
          c.chunk \in {None, 0} \/ c.chunk < Len(c.body)}
  \cup [op : {"lex"}, query : Strings({"a", "c", " ", "q", "-", "."}, 5)]
  \cup [op : {"structured"}, lines : {<<l>> : l \in Line(1)} \cup (Line(1) \X Line(2)) \cup (Line(1) \X Line(2) \X Line(3))]
  \cup [op : {"braces"}, pattern : Strings({"{", "}", ",", "x"}, 7)]
  \cup [op : {"distance"}, from : Strings({"x", "y"}, 3), via : Strings({"x", "y"}, 2),
        to : Strings({"x", "y"}, 3)]
  \cup [op : {"score"}, results : Answers, expected : Fixtures, k : 0..3]
=============================================================================
