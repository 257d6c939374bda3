----------------------------- MODULE MCReaders -----------------------------
(* Two collections, one of which has a directory named like the other.        *)
EXTENDS Readers

CONSTANTS h1, h2

\* Segments in the database's order.  `jour` begins like `journal`.
facade == 1   no == 2   notes == 3   x == 4   z == 5
Begun == {<<s, s>> : s \in 1..5} \cup {<<notes, no>>}

\* marq://notes/x and marq://z/notes/x.
TwoFiles == {<<1, <<x>>>>, <<2, <<notes, x>>>>}
BornAs == (1 :> notes) @@ (2 :> z)
\* Both files with some body, or neither.
Trees == [TwoFiles -> {h1, h2}] \cup [TwoFiles -> {None}]
SameDocid == [b \in {h1, h2} |-> facade]
FourChunks == <<h1, h1, h1, h2>>
Similar == <<3, 3, 2, 1>>
\* h2 speaks of the word more than h1 does.
Ranks == [f \in TwoFiles, v \in [name : 1..5, hash : {h1, h2}], w \in 1..5 \cup {None} |->
            IF v.hash = h2 THEN 2 ELSE 1]
SomePrefixes == {<<>>, <<no>>, <<notes>>, <<x>>}

Path(p) == [virtual |-> FALSE, path |-> p]
URI(p) == [virtual |-> TRUE, path |-> p]
Get(q) == [op |-> "get", virtual |-> q.virtual, path |-> q.path]
Find(op, s, w, m) == [op |-> op, scope |-> s, word |-> w, min |-> m]
Both == {<<x>>, <<z, notes, x>>}
AllAsks ==
  {Get(q) : q \in {Path(<<facade>>), Path(<<x>>), Path(<<notes, x>>), URI(<<notes, x>>)}}
  \cup {[op |-> "resource", path |-> <<notes, x>>],
        [op |-> "list", items |-> <<URI(<<notes, x>>), Path(<<z, notes, x>>)>>],
        [op |-> "glob", pattern |-> Both], [op |-> "files", pattern |-> Both],
        [op |-> "ls", coll |-> notes, prefix |-> <<>>], [op |-> "ls", coll |-> z, prefix |-> <<no>>],
        [op |-> "check"], [op |-> "status"]}
  \cup {Find("search", {}, None, 0), Find("search", {notes}, None, 2),
        Find("search", {notes, z}, z, 2), Find("vsearch", {}, None, 3),
        Find("vsearch", {z}, None, 2), Find("vsearch", {z}, None, 0)}

=============================================================================
