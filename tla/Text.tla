-------------------------------- MODULE Text --------------------------------
(***************************************************************************)
(* The pure functions on text the system is built from: chunks of a body   *)
(* (search/vector.py), snippets (cli/snippet.py), the syntax of lexical    *)
(* queries (search/fts.py) and of query documents (search/hybrid.py), the  *)
(* braces of file patterns (store/indexing.py), edit distance              *)
(* (store/retrieval.py) and the scores of a benchmark (bench.py).          *)
(*                                                                         *)
(* Text is a sequence of characters, which are strings of length one; a    *)
(* behavior is one call: its input is chosen, then its result computed.    *)
(***************************************************************************)
EXTENDS Naturals, SequencesExt, FiniteSetsExt, Functions

CONSTANTS
  Char,      \* the characters
  Calls,     \* the calls: records with the function's name in `op`
  MaxChars,  \* length of a chunk
  Overlap,   \* characters two consecutive chunks share
  Margin,    \* characters around a chunk a snippet may come from
  MaxLen,    \* length of a snippet
  MaxBraceExpansions,
  None

\* An item of a lexical query: lexemes that follow one another.
LexItem == [negated : BOOLEAN, prefix : BOOLEAN, words : Seq(Seq(Char))]
\* A line of a query document: typed, an intent, or something else.
SubQuery == {"lex", "vec", "hyde"}
QueryLine == [kind : SubQuery \cup {"intent", "other"}, text : Nat]
Document == [typed : Seq(QueryLine), intent : QueryLine \cup {None}]

ASSUME TextAssumption ==
  /\ MaxChars \in Nat /\ Overlap \in Nat /\ Overlap < MaxChars
  /\ Margin \in Nat /\ MaxLen \in Nat /\ MaxBraceExpansions \in Nat \ {0}
  /\ None \notin Nat /\ None \notin Seq(LexItem) /\ None \notin Document
  /\ \A c \in Calls :
       /\ c.op = "chunk" => c.length \in Nat
       /\ c.op = "snippet" =>
            /\ c.body \in Seq(Char) /\ c.chunk \in Nat \cup {None}
            /\ c.chunk \in Nat => c.chunk <= Len(c.body)
       /\ c.op = "lex" => c.query \in Seq(Char)
       /\ c.op = "structured" => c.lines \in Seq(QueryLine)
       /\ c.op = "braces" => c.pattern \in Seq(Char)
       /\ c.op = "distance" => {c.from, c.via, c.to} \subseteq Seq(Char)
       /\ c.op = "score" => {c.results, c.expected} \subseteq Seq(Seq(STRING)) /\ c.k \in Nat

VARIABLES call, result

\* What a sequence has at some positions, in order.
Only(s, I) == FlattenSeq([i \in 1..Len(s) |-> IF i \in I THEN <<s[i]>> ELSE <<>>])
NonEmpty(s) == Only(s, {i \in 1..Len(s) : s[i] # <<>>})
FirstOf(S, default) == IF S = {} THEN default ELSE Min(S)
Among(s, c) == \E i \in 1..Len(s) : s[i] = c
Count(s, c) == Cardinality({i \in 1..Len(s) : s[i] = c})

\* Where a piece ends: before the k-th separator, or with the text.
Cut(s, separator, k) ==
  Min({i \in 0..Len(s) : Count(SubSeq(s, 1, i), separator) >= k} \cup {Len(s) + 1})
Split(s, separator) ==
  [k \in 1..Count(s, separator) + 1 |->
     SubSeq(s, Cut(s, separator, k - 1) + 1, Cut(s, separator, k) - 1)]

-----------------------------------------------------------------------------
(* Chunks and snippets.  Offsets begin with 0, as in the code.             *)

\* Bug: the next chunk begins where this one ends.
StepWithoutOverlap == MaxChars
Step == MaxChars - Overlap

\* Step after step, up to the first chunk that reaches the end.
chunk_document(length) ==
  LET last == Min({i \in 0..length : i * Step + MaxChars >= length}) IN
  [i \in 1..last + 1 |-> [pos |-> (i - 1) * Step,
                          end |-> Min({(i - 1) * Step + MaxChars, length})]]

Newline == "n"
Lines(s) == Split(s, Newline)

\* Bug: a line that begins right after the window's first character counts.
LinesBeforeByOne(body, start) ==
  Count(SubSeq(body, 1, Min({start + 1, Len(body)})), Newline)
LinesBefore(body, start) == Count(SubSeq(body, 1, start), Newline)

\* What a snippet is taken from: the body, or the surroundings of a chunk.
Start(pos) == IF pos = None THEN 0 ELSE IF pos < Margin THEN 0 ELSE pos - Margin
Window(body, pos) ==
  IF pos = None THEN body
  ELSE SubSeq(body, Start(pos) + 1, Min({Len(body), pos + MaxChars + Margin}))

\* The line with the most words of the query, of which there is one, "x".  A
\* chunk without any is shown where it begins.
Hits(lines) == {i \in 1..Len(lines) : Among(lines[i], "x")}
Best(body, pos) ==
  LET window == Window(body, pos)
      hits == Hits(Lines(window)) IN
  IF hits # {} THEN Min(hits)
  ELSE IF pos = None THEN 1 ELSE LinesBefore(window, pos - Start(pos)) + 1

\* That line and what surrounds it.
First(body, pos) == Max({1, Best(body, pos) - 1})
Shown(body, pos) ==
  LET lines == Lines(Window(body, pos)) IN
  SubSeq(lines, First(body, pos), Min({Len(lines), Best(body, pos) + 2}))

Ellipsis == <<".", ".", ".">>
\* The text of some lines.
Joined(lines) ==
  FlattenSeq([i \in 1..Len(lines) |-> IF i = 1 THEN lines[i] ELSE <<Newline>> \o lines[i]])
\* Bug: no room is left for the ellipsis.
ShortenedWithoutRoom(text) ==
  IF Len(text) <= MaxLen THEN text ELSE SubSeq(text, 1, MaxLen) \o Ellipsis
\* Cut to its length, the ellipsis included where there is room for one.
Shortened(text) ==
  IF Len(text) <= MaxLen THEN text
  ELSE IF MaxLen <= Len(Ellipsis) THEN SubSeq(text, 1, MaxLen)
  ELSE SubSeq(text, 1, MaxLen - Len(Ellipsis)) \o Ellipsis

\* The header numbers and counts whole lines, of which the text may show less.
SnippetAt(body, pos) ==
  LET offset == LinesBefore(body, Start(pos))
      first == offset + First(body, pos)
      lines == Shown(body, pos) IN
  [line |-> offset + Best(body, pos), start |-> first, numbered |-> lines,
   before |-> first - 1, after |-> Len(Lines(body)) + 1 - (first + Len(lines)),
   text |-> Shortened(Joined(lines))]

\* A chunk at the beginning must have a hit, another one something to show.
extract_snippet(body, chunk) ==
  IF \/ chunk = 0 /\ Hits(Lines(Window(body, chunk))) = {}
     \/ chunk \notin {None, 0} /\ ToSet(Shown(body, chunk)) \subseteq {<<>>}
  THEN SnippetAt(body, None)
  ELSE SnippetAt(body, chunk)

-----------------------------------------------------------------------------
(* Lexical queries: letters, one of them ("c") Chinese, blanks, quotes,    *)
(* dots and hyphens.                                                       *)

Blank == " "   Quote == "q"   Hyphen == "-"   Dot == "."   Han == "c"
Letter == {"a", Han}

\* Blanks are added around Chinese characters.
ASSUME BlankAssumption == {Blank, Han} \subseteq Char

sanitize_fts_term(term) == Only(term, {i \in 1..Len(term) : term[i] \in Letter})

\* Words apart, and every Chinese character on its own.
normalize_cjk_for_fts(s) ==
  FlattenSeq([i \in 1..Len(s) |-> IF s[i] = Han THEN <<Blank, Han, Blank>> ELSE <<s[i]>>])
Words(s, separator) ==
  LET pieces == Split(s, separator) IN
  NonEmpty([i \in 1..Len(pieces) |-> sanitize_fts_term(pieces[i])])
SpacedWords(s) == Words(normalize_cjk_for_fts(s), Blank)

is_hyphenated_token(t) ==
  /\ Among(t, Hyphen) /\ t[1] \in Letter /\ Last(t) \in Letter
  /\ ToSet(t) \subseteq Letter \cup {Hyphen}
is_dotted_token(t) ==
  LET parts == Split(t, Dot) IN
  Len(parts) >= 2 /\ \A i \in 1..Len(parts) : parts[i] # <<>> /\ ToSet(parts[i]) \subseteq Letter

\* The lexemes an unquoted term stands for, one after the other in the text;
\* a single one is a prefix, unless it comes from a compound or from Chinese.
Term(t) ==
  IF is_hyphenated_token(t) THEN [prefix |-> FALSE, words |-> Words(t, Hyphen)]
  ELSE IF is_dotted_token(t)
       THEN [prefix |-> TRUE, words |-> <<Only(t, {i \in 1..Len(t) : t[i] \in Letter \cup {Dot}})>>]
  ELSE IF Among(t, Han) THEN [prefix |-> FALSE, words |-> SpacedWords(t)]
  ELSE [prefix |-> TRUE, words |-> NonEmpty(<<sanitize_fts_term(t)>>)]

\* Bug: a negation is forgotten by the phrase that follows.
ItemForgetsNegation(negated, item) ==
  IF item.words = <<>> THEN <<>>
  ELSE <<[negated |-> negated /\ item.prefix, prefix |-> item.prefix, words |-> item.words]>>
Item(negated, item) ==
  IF item.words = <<>> THEN <<>>
  ELSE <<[negated |-> negated, prefix |-> item.prefix, words |-> item.words]>>

\* What begins at a position, not inside of anything: a blank, a phrase or a
\* term, which a hyphen negates; and where it is over.
Token(s, i) ==
  LET negated == s[i] = Hyphen
      j == IF negated THEN i + 1 ELSE i
      phrase == j <= Len(s) /\ s[j] = Quote
      ends == IF phrase THEN {k \in j + 1..Len(s) : s[k] = Quote}
              ELSE {k \in j..Len(s) : s[k] \in {Blank, Quote}}
      end == FirstOf(ends, Len(s) + 1) IN
  IF s[i] = Blank THEN [items |-> <<>>, next |-> i + 1]
  ELSE IF phrase
       THEN [items |-> Item(negated, [prefix |-> FALSE, words |-> SpacedWords(SubSeq(s, j + 1, end - 1))]),
             next |-> end + 1]
  ELSE [items |-> Item(negated, Term(SubSeq(s, j, end - 1))), next |-> end]

\* The items of a query in order, None if none of them is positive.
Items(s) ==
  LET from[i \in 1..Len(s) + 2] ==
        IF i > Len(s) THEN <<>> ELSE Token(s, i).items \o from[Token(s, i).next]
  IN from[1]
build_ts_query(s) ==
  LET items == Items(s) IN
  IF \A i \in 1..Len(items) : items[i].negated THEN None ELSE items

-----------------------------------------------------------------------------
(* Query documents.                                                        *)

\* Bug: the first intent stays.
FirstIntentStays(lines) ==
  LET typed == Only(lines, {i \in 1..Len(lines) : lines[i].kind \in SubQuery})
      intents == Only(lines, {i \in 1..Len(lines) : lines[i].kind = "intent"}) IN
  IF Len(lines) <= 1 \/ typed = <<>> \/ \E i \in 1..Len(lines) : lines[i].kind = "other"
  THEN None
  ELSE [typed |-> typed, intent |-> IF intents = <<>> THEN None ELSE Head(intents)]
parse_structured_query(lines) ==
  LET typed == Only(lines, {i \in 1..Len(lines) : lines[i].kind \in SubQuery})
      intents == Only(lines, {i \in 1..Len(lines) : lines[i].kind = "intent"}) IN
  IF Len(lines) <= 1 \/ typed = <<>> \/ \E i \in 1..Len(lines) : lines[i].kind = "other"
  THEN None
  ELSE [typed |-> typed, intent |-> IF intents = <<>> THEN None ELSE Last(intents)]

-----------------------------------------------------------------------------
(* Braces.  A group holds at least one character and no brace.             *)

Open == "{"   Close == "}"   Comma == ","
Groups(s) ==
  {g \in (1..Len(s)) \X (1..Len(s)) :
     /\ g[1] + 1 < g[2] /\ s[g[1]] = Open /\ s[g[2]] = Close
     /\ \A k \in g[1] + 1..g[2] - 1 : s[k] \notin {Open, Close}}
Alternatives(s, g) ==
  LET parts == Split(SubSeq(s, g[1] + 1, g[2] - 1), Comma) IN
  [i \in 1..Len(parts) |-> SubSeq(s, 1, g[1] - 1) \o parts[i] \o SubSeq(s, g[2] + 1, Len(s))]

\* The first group first, duplicates dropped, cut at the maximum.
FirstGroup(s) == CHOOSE g \in Groups(s) : \A h \in Groups(s) : g[1] <= h[1]
Distinct(ss) == Only(ss, {i \in 1..Len(ss) : \A j \in 1..i - 1 : ss[j] # ss[i]})
expand_braces(pattern) ==
  LET expand[s \in Seq(Char)] ==
        IF Groups(s) = {} THEN <<s>>
        ELSE LET each == Alternatives(s, FirstGroup(s))
                 all == Distinct(FlattenSeq([i \in 1..Len(each) |-> expand[each[i]]]))
             IN SubSeq(all, 1, Min({Len(all), MaxBraceExpansions}))
  IN expand[pattern]

-----------------------------------------------------------------------------
(* Edit distance.                                                          *)

\* Bug: a character more in the second text is not an edit.
CellWithoutInsertion(up, left, diagonal) == Min({up + 1, diagonal})
Cell(up, left, diagonal) == Min({up + 1, left + 1, diagonal})

\* The distances of all beginnings of a from all beginnings of b, of which the
\* code keeps the last row.
levenshtein(a, b) ==
  LET cell[p \in (0..Len(a)) \X (0..Len(b))] ==
        IF p[1] = 0 THEN p[2] ELSE IF p[2] = 0 THEN p[1]
        ELSE Cell(cell[<<p[1] - 1, p[2]>>], cell[<<p[1], p[2] - 1>>],
                  cell[<<p[1] - 1, p[2] - 1>>] + (IF a[p[1]] = b[p[2]] THEN 0 ELSE 1))
  IN IF a = b THEN 0 ELSE cell[<<Len(a), Len(b)>>]

-----------------------------------------------------------------------------
(* Benchmarks.  A result is a URI: a collection, then a path; an expected  *)
(* file is a path as the fixture has it.                                   *)

paths_match(uri, expected) ==
  LET path == Tail(uri) IN IsSuffix(path, expected) \/ IsSuffix(expected, path)

Matched(results, e) == \E i \in 1..Len(results) : paths_match(results[i], e)

\* Bug: hits are results that match, not expected files that are matched.
HitsAreResults(results, expected, k) ==
  Cardinality({i \in 1..Len(results) : i <= k /\ \E j \in 1..Len(expected) :
                                        paths_match(results[i], expected[j])})
hits_within(results, expected, k) ==
  Cardinality({j \in 1..Len(expected) : Matched(SubSeq(results, 1, Min({k, Len(results)})),
                                                expected[j])})

\* Fractions <<numerator, denominator>>; nothing expected scores nothing.
Ratio(n, d) == IF d = 0 THEN <<0, 1>> ELSE <<n, d>>
Harmonic(p, r) == Ratio(2 * p[1] * r[1], p[1] * r[2] + r[1] * p[2])

score_results(results, expected, k) ==
  LET n == Len(expected)
      recall(m) == Ratio(hits_within(results, expected, m), n)
      precision == Ratio(hits_within(results, expected, k), Min({k, n}))
      right == {i \in 1..Len(results) : \E j \in 1..n : paths_match(results[i], expected[j])}
  IN [precision |-> precision, recall |-> recall(Len(results)),
      recall_at |-> [m \in {1, 3, 5} |-> recall(m)],
      mrr |-> IF right = {} THEN <<0, 1>> ELSE <<1, Min(right)>>,
      f1 |-> Harmonic(precision, recall(Len(results)))]

-----------------------------------------------------------------------------
Init == call \in Calls /\ result = None

Called(op) == result = None /\ call.op = op
Return(value) == result' = [value |-> value] /\ UNCHANGED call

Chunk == Called("chunk") /\ Return(chunk_document(call.length))
Snippet == Called("snippet") /\ Return(extract_snippet(call.body, call.chunk))
Lex == Called("lex") /\ Return(build_ts_query(call.query))
Structured == Called("structured") /\ Return(parse_structured_query(call.lines))
Braces == Called("braces") /\ Return(expand_braces(call.pattern))
Distance == Called("distance") /\ Return(levenshtein(call.from, call.to))
Score == Called("score") /\ Return(score_results(call.results, call.expected, call.k))

Next ==
  \/ Chunk
  \/ Snippet
  \/ Lex
  \/ Structured
  \/ Braces
  \/ Distance
  \/ Score

Spec == Init /\ [][Next]_<<call, result>>

-----------------------------------------------------------------------------
(* Properties.                                                             *)

Returned(op) == result # None /\ call.op = op

\* Chunks cover the body, in order, none is longer than a request may be, and
\* a passage no longer than the overlap, and one character more, is whole in
\* one of them (search/vector.py: chunk_document).
ChunksCover ==
  Returned("chunk") =>
    LET chunks == result.value IN
    /\ \A from \in 0..call.length, n \in 0..Overlap + 1 :
         from + n <= call.length /\ n > 0 => \E i \in 1..Len(chunks) :
           chunks[i].pos <= from /\ from + n <= chunks[i].end
    /\ \A i \in 1..Len(chunks) : /\ chunks[i].end - chunks[i].pos <= MaxChars
                                 /\ i < Len(chunks) => chunks[i].end < chunks[i + 1].end

\* Snippets are where they say: the lines a header numbers are those of the
\* body (or what the window around the chunk left of them), the counts around
\* them add up, and the line that is reported is one of them, the one with the
\* query's word if the surroundings of the chunk have it, or for a chunk at the
\* beginning the body.  The text keeps to its length, and begins with the lines
\* up to the reported one if they leave room for the ellipsis or need none; a
\* long line before it can push it out, whatever the header says
\* (cli/snippet.py: extract_snippet).
SnippetsAreTrue ==
  Returned("snippet") =>
    LET s == result.value
        body == Lines(call.body)
        place == s.line - s.before
        upTo == Joined(SubSeq(s.numbered, 1, place)) IN
    /\ s.after \in Nat /\ s.before + Len(s.numbered) + s.after = Len(body)
    /\ s.start = s.before + 1
    /\ s.line \in s.start..s.start + Len(s.numbered) - 1
    /\ \A i \in 1..Len(s.numbered) :
         \E from \in 1..Len(body[s.before + i]) + 1, to \in 0..Len(body[s.before + i]) :
           s.numbered[i] = SubSeq(body[s.before + i], from, to)
    /\ Among(Window(call.body, call.chunk), "x") => Among(s.numbered[place], "x")
    /\ call.chunk = 0 /\ Among(call.body, "x") => Among(s.numbered[place], "x")
    /\ Len(s.text) <= MaxLen
    /\ Len(upTo) + Len(Ellipsis) <= MaxLen \/ Len(Joined(s.numbered)) <= MaxLen
         => SubSeq(s.text, 1, Len(upTo)) = upTo

\* A chunk and a snippet are where they say.
PlacesAreTrue == ChunksCover /\ SnippetsAreTrue

\* No word of a lexical query is lost and the words keep their order; those
\* of the negative items are the ones a hyphen negates; and Chinese characters
\* are words of their own, as in the index, though not in a term with a hyphen
\* or a dot, which therefore finds nothing (search/fts.py: build_ts_query).
Said(item) == sanitize_fts_term(FlattenSeq(item.words))
Denied(s, i) ==
  LET quotes == Count(SubSeq(s, 1, i), Quote)
      begins == IF quotes % 2 = 1 THEN Max({k \in 1..i : s[k] = Quote}) - 1
                ELSE 1 + Max({0} \cup {k \in 1..i : s[k] \in {Blank, Quote}}) IN
  /\ begins \in 1..i /\ s[begins] = Hyphen
  /\ \/ begins = 1
     \/ s[begins - 1] = Blank
     \/ s[begins - 1] = Quote /\ Count(SubSeq(s, 1, begins - 1), Quote) % 2 = 0
WordsAreMeant ==
  Returned("lex") =>
    LET s == call.query
        items == result.value
        affirmed == sanitize_fts_term([i \in 1..Len(s) |-> IF Denied(s, i) THEN Blank ELSE s[i]]) IN
    IF items = None THEN affirmed = <<>>
    ELSE /\ FlattenSeq([i \in 1..Len(items) |-> Said(items[i])]) = sanitize_fts_term(s)
         /\ FlattenSeq([i \in 1..Len(items) |-> IF items[i].negated THEN <<>> ELSE Said(items[i])])
              = affirmed
         /\ \A i \in 1..Len(items) : \A w \in ToSet(items[i].words) :
              Among(w, Han) => w = <<Han>> \/ Among(s, Hyphen) \/ Among(s, Dot)

\* A query document loses no line, save an intent that another one follows:
\* the typed lines become sub-queries, all of them and in their order, the last
\* intent the query's.  Several lines of known kinds, one of them typed, are
\* never taken for a plain query (search/hybrid.py: parse_structured_query).
TypedUpTo(lines, i) == {j \in 1..i : lines[j].kind \in SubQuery}
IntentsOf(lines) == {i \in 1..Len(lines) : lines[i].kind = "intent"}
LinesAreMeant ==
  Returned("structured") =>
    LET lines == call.lines
        document == result.value IN
    IF document = None
    THEN \/ Len(lines) <= 1 \/ TypedUpTo(lines, Len(lines)) = {}
         \/ \E i \in 1..Len(lines) : lines[i].kind = "other"
    ELSE /\ Len(document.typed) = Cardinality(TypedUpTo(lines, Len(lines)))
         /\ \A i \in TypedUpTo(lines, Len(lines)) :
              document.typed[Cardinality(TypedUpTo(lines, i))] = lines[i]
         /\ \A i \in 1..Len(lines) : i \notin TypedUpTo(lines, Len(lines)) =>
              /\ i \in IntentsOf(lines)
              /\ document.intent = lines[i] \/ \E j \in IntentsOf(lines) : i < j
         /\ IntentsOf(lines) = {} => document.intent = None

\* A pattern's braces expand to the strings they would expand to in any other
\* order, each once, up to the maximum (store/indexing.py: _expand_braces).
Expansions(pattern) ==
  LET all[s \in Seq(Char)] ==
        IF Groups(s) = {} THEN {s}
        ELSE UNION {UNION {all[t] : t \in ToSet(Alternatives(s, g))} : g \in Groups(s)}
  IN all[pattern]
BracesAreMeant ==
  Returned("braces") =>
    /\ ToSet(result.value) \subseteq Expansions(call.pattern)
    /\ Len(result.value) = Min({Cardinality(Expansions(call.pattern)), MaxBraceExpansions})
    /\ Len(result.value) = Cardinality(ToSet(result.value))

\* What is written is what is meant: in lexical queries, in query documents
\* and in the patterns of files.
WrittenIsMeant == WordsAreMeant /\ LinesAreMeant /\ BracesAreMeant

\* Scores are honest.  Recall grows with the results it counts and never
\* exceeds 1, the mean of precision and recall lies between them, a first
\* right result is as good as a recall above 0, and precision exceeds 1 only
\* where one result matches several expected files (bench.py: score_results).
AtMost(p, q) == p[1] * q[2] <= q[1] * p[2]
ScoresAreHonest ==
  Returned("score") =>
    LET m == result.value
        low == IF AtMost(m.precision, m.recall) THEN m.precision ELSE m.recall
        high == IF low = m.precision THEN m.recall ELSE m.precision IN
    /\ AtMost(m.recall_at[1], m.recall_at[3]) /\ AtMost(m.recall_at[3], m.recall_at[5])
    /\ AtMost(m.recall_at[5], m.recall) /\ AtMost(m.recall, <<1, 1>>)
    /\ AtMost(low, m.f1) /\ AtMost(m.f1, high)
    /\ (m.mrr[1] > 0) = (m.recall[1] > 0)
    /\ \/ AtMost(m.precision, <<1, 1>>)
       \/ \E i \in 1..Len(call.results), j, k \in 1..Len(call.expected) :
            j # k /\ paths_match(call.results[i], call.expected[j])
                  /\ paths_match(call.results[i], call.expected[k])

\* Edit distance is one: 0 just for equal texts, the same both ways, and no
\* longer than over a detour (store/retrieval.py: _levenshtein).
DistanceIsMetric ==
  Returned("distance") =>
    /\ (result.value = 0) = (call.from = call.to)
    /\ result.value = levenshtein(call.to, call.from)
    /\ result.value <= levenshtein(call.from, call.via) + levenshtein(call.via, call.to)

\* Distances and scores mean what their names say.
MeasuresAreHonest == DistanceIsMetric /\ ScoresAreHonest
=============================================================================
