----------------------------- MODULE TextProofs -----------------------------
(***************************************************************************)
(* Proofs about the functions on text (Text.tla): the chunks of a body of  *)
(* any length, for any length of a chunk and any overlap, the snippets of  *)
(* any body, lexical queries, query documents and patterns with braces of  *)
(* any length, the edit distance of any texts, and the scores of any       *)
(* results against any fixture.                                            *)
(***************************************************************************)
EXTENDS Text, FiniteSetTheorems, FunctionTheorems, SequenceTheorems, WellFoundedInduction,
        TLAPS

-----------------------------------------------------------------------------
(* Numbers.                                                                *)

\* Any set of naturals has a least member.
LEMMA LeastOf ==
  ASSUME NEW T \in SUBSET Nat, T # {}
  PROVE  Min(T) \in T /\ \A m \in T : Min(T) <= m
<1> DEFINE R == OpToRel(<, Nat)
<1>1. IsWellFoundedOn(R, Nat)
  BY NatLessThanWellFounded
<1>2. \A m, n \in Nat : m < n => <<m, n>> \in R
  BY DEF OpToRel
<1> HIDE DEF R
<1>3. PICK n \in T : \A m \in T : ~(<<m, n>> \in R)
  BY <1>1, WFMin
<1>4. n \in Nat /\ \A m \in T : m \in Nat /\ ~(m < n)
  BY <1>2, <1>3
<1>5. n \in Nat /\ \A m \in T : m \in Nat /\ n <= m
  BY <1>4
<1>6. \A k \in T : (\A m \in T : k <= m) => k = n
  BY <1>3, <1>5
<1> QED
  BY <1>3, <1>5, <1>6 DEF Min

\* The smaller of two, and the smallest of three numbers.
LEMMA LesserOf ==
  ASSUME NEW x \in Nat, NEW y \in Nat
  PROVE  /\ Min({x, y}) \in Nat /\ Min({x, y}) \in {x, y}
         /\ Min({x, y}) <= x /\ Min({x, y}) <= y
<1>1. {x, y} \in SUBSET Nat /\ {x, y} # {}
  OBVIOUS
<1>2. Min({x, y}) \in {x, y} /\ \A m \in {x, y} : Min({x, y}) <= m
  BY <1>1, LeastOf
<1> QED
  BY <1>2

LEMMA LeastOfThree ==
  ASSUME NEW x \in Nat, NEW y \in Nat, NEW z \in Nat
  PROVE  /\ Min({x, y, z}) \in Nat /\ Min({x, y, z}) \in {x, y, z}
         /\ Min({x, y, z}) <= x /\ Min({x, y, z}) <= y /\ Min({x, y, z}) <= z
<1>1. {x, y, z} \in SUBSET Nat /\ {x, y, z} # {}
  OBVIOUS
<1>2. Min({x, y, z}) \in {x, y, z} /\ \A m \in {x, y, z} : Min({x, y, z}) <= m
  BY <1>1, LeastOf
<1> QED
  BY <1>2

-----------------------------------------------------------------------------
(* Chunks.                                                                 *)

LEMMA StepForward ==
  /\ Step \in Nat /\ Step >= 1 /\ Step = MaxChars - Overlap
  /\ MaxChars \in Nat /\ Overlap \in Nat
BY TextAssumption DEF Step

\* Multiples of the step, one after the other.
LEMMA Multiples ==
  ASSUME NEW i \in Nat
  PROVE  /\ i * Step \in Nat /\ (i + 1) * Step = i * Step + Step /\ i <= i * Step
<1>1. /\ i * Step \in Nat /\ (i + 1) * Step = i * Step + Step
  BY StepForward
<1>2. i * (Step - 1) \in Nat /\ i * Step = i * (Step - 1) + i
  BY StepForward
<1> QED
  BY <1>1, <1>2

\* The chunk that reaches the end is the only one that does.
LastChunk(length) == Min({i \in 0..length : i * Step + MaxChars >= length})

LEMMA OnlyTheLastReachesTheEnd ==
  ASSUME NEW length \in Nat
  PROVE  /\ LastChunk(length) \in Nat
         /\ LastChunk(length) * Step + MaxChars >= length
         /\ \A i \in 0..LastChunk(length) - 1 : i * Step + MaxChars < length
<1> DEFINE R == {i \in 0..length : i * Step + MaxChars >= length}
<1>1. length * Step + MaxChars >= length
  BY Multiples, StepForward
<1>2. R \in SUBSET Nat /\ length \in R
  BY <1>1
<1>3. Min(R) \in R /\ \A m \in R : Min(R) <= m
  <2> HIDE DEF R
  <2> QED
    BY <1>2, LeastOf
<1>4. LastChunk(length) = Min(R)
  BY DEF LastChunk
<1>5. PICK last \in R : last = LastChunk(length) /\ \A m \in R : last <= m
  BY <1>3, <1>4
<1>6. ASSUME NEW i \in 0..last - 1
      PROVE  i * Step + MaxChars < length
  <2>1. i \in 0..length /\ i \in Nat /\ ~(last <= i)
    BY <1>5
  <2>2. ~(i * Step + MaxChars >= length)
    BY <1>5, <2>1
  <2> QED
    BY <2>1, <2>2, Multiples, StepForward
<1> QED
  BY <1>5, <1>6

\* Where a chunk begins and ends.
LEMMA ChunkPlaces ==
  ASSUME NEW length \in Nat
  PROVE  LET chunks == chunk_document(length) IN
         /\ Len(chunks) = LastChunk(length) + 1
         /\ \A q \in 0..LastChunk(length) :
              /\ q + 1 \in 1..Len(chunks)
              /\ chunks[q + 1].pos = q * Step
              /\ chunks[q + 1].end = Min({q * Step + MaxChars, length})
         /\ \A i \in 1..Len(chunks) : \E q \in 0..LastChunk(length) : i = q + 1
<1> DEFINE last == LastChunk(length)
           chunks == [i \in 1..last + 1 |-> [pos |-> (i - 1) * Step,
                          end |-> Min({(i - 1) * Step + MaxChars, length})]]
<1>1. chunk_document(length) = chunks
  BY DEF chunk_document, LastChunk
<1>2. last \in Nat
  BY OnlyTheLastReachesTheEnd
<1> HIDE DEF last
<1>3. Len(chunks) = last + 1
  BY <1>2
<1>4. ASSUME NEW q \in 0..last
      PROVE  /\ q + 1 \in 1..last + 1
             /\ chunks[q + 1].pos = q * Step
             /\ chunks[q + 1].end = Min({q * Step + MaxChars, length})
  <2>1. q + 1 \in 1..last + 1 /\ (q + 1) - 1 = q
    BY <1>2
  <2> QED
    BY <2>1
<1>5. \A i \in 1..last + 1 : \E q \in 0..last : i = q + 1
  <2> TAKE i \in 1..last + 1
  <2>1. i - 1 \in 0..last /\ i = (i - 1) + 1
    BY <1>2
  <2> QED
    BY <2>1
<1> HIDE DEF chunks
<1>6. /\ Len(chunks) = last + 1
      /\ \A q \in 0..last :
              /\ q + 1 \in 1..Len(chunks)
              /\ chunks[q + 1].pos = q * Step
              /\ chunks[q + 1].end = Min({q * Step + MaxChars, length})
      /\ \A i \in 1..Len(chunks) : \E q \in 0..last : i = q + 1
  BY <1>3, <1>4, <1>5
<1> QED
  BY <1>1, <1>6 DEF last

\* The last multiple of the step that is not after a place in the text.
LEMMA MultipleBefore ==
  ASSUME NEW last \in Nat, NEW from \in Nat
  PROVE  \E q \in 0..last : q * Step <= from /\ (q = last \/ from < q * Step + Step)
<1> DEFINE T == {q \in 0..last : q * Step > from}
<1>1. T \in SUBSET Nat
  OBVIOUS
<1>2. CASE T = {}
  <2>1. last \in 0..last /\ last \notin T /\ last * Step \in Nat
    BY <1>2, Multiples
  <2> QED
    BY <2>1
<1>3. CASE T # {}
  <2> HIDE DEF T
  <2>1. PICK n \in T : \A m \in T : n <= m
    BY <1>1, <1>3, LeastOf
  <2>2. n \in 0..last /\ n * Step > from
    BY <2>1 DEF T
  <2>3. n # 0
    BY <2>2, StepForward
  <2>4. PICK q \in 0..last : n = q + 1 /\ q \in Nat
    <3>1. n - 1 \in 0..last /\ n = (n - 1) + 1 /\ n - 1 \in Nat
      BY <2>2, <2>3
    <3> QED
      BY <3>1
  <2>5. q \notin T
    BY <2>1, <2>4
  <2>6. q * Step \in Nat /\ n * Step = q * Step + Step
    BY <2>4, Multiples
  <2> QED
    BY <2>2, <2>4, <2>5, <2>6, StepForward DEF T
<1> QED
  BY <1>2, <1>3

\* What is promised of chunks.
Cover(chunks, length) ==
  /\ \A from \in 0..length, n \in 0..Overlap + 1 :
       from + n <= length /\ n > 0 => \E i \in 1..Len(chunks) :
         chunks[i].pos <= from /\ from + n <= chunks[i].end
  /\ \A i \in 1..Len(chunks) : /\ chunks[i].end - chunks[i].pos <= MaxChars
                               /\ i < Len(chunks) => chunks[i].end < chunks[i + 1].end

LEMMA ChunksOfABody ==
  ASSUME NEW length \in Nat
  PROVE  Cover(chunk_document(length), length)
<1> DEFINE last == LastChunk(length)
           chunks == chunk_document(length)
<1>1. /\ last \in Nat /\ last * Step + MaxChars >= length
      /\ \A i \in 0..last - 1 : i * Step + MaxChars < length
  BY OnlyTheLastReachesTheEnd
<1>2. /\ Len(chunks) = last + 1
      /\ \A q \in 0..last : /\ q + 1 \in 1..Len(chunks)
                            /\ chunks[q + 1].pos = q * Step
                            /\ chunks[q + 1].end = Min({q * Step + MaxChars, length})
      /\ \A i \in 1..Len(chunks) : \E q \in 0..last : i = q + 1
  BY ChunkPlaces
<1> HIDE DEF last, chunks
<1>3. \A q \in 0..last :
        /\ q * Step \in Nat /\ Min({q * Step + MaxChars, length}) \in Nat
        /\ Min({q * Step + MaxChars, length}) \in {q * Step + MaxChars, length}
        /\ Min({q * Step + MaxChars, length}) <= q * Step + MaxChars
        /\ Min({q * Step + MaxChars, length}) <= length
  <2> TAKE q \in 0..last
  <2>1. q * Step \in Nat /\ q * Step + MaxChars \in Nat
    BY <1>1, Multiples, StepForward
  <2> QED
    BY <2>1, LesserOf
<1>4. ASSUME NEW from \in 0..length, NEW n \in 0..Overlap + 1, from + n <= length, n > 0
      PROVE  \E i \in 1..Len(chunks) : chunks[i].pos <= from /\ from + n <= chunks[i].end
  <2>1. PICK q \in 0..last : q * Step <= from /\ (q = last \/ from < q * Step + Step)
    <3>1. from \in Nat
      BY <1>4
    <3> QED
      BY <1>1, <3>1, MultipleBefore
  <2>2. from + n <= q * Step + MaxChars
    <3>1. CASE q = last
      BY <1>1, <1>3, <1>4, <3>1, StepForward
    <3>2. CASE from < q * Step + Step
      BY <1>3, <3>2, StepForward
    <3> QED
      BY <2>1, <3>1, <3>2
  <2>3. from + n <= Min({q * Step + MaxChars, length})
    BY <1>3, <1>4, <2>2
  <2> QED
    BY <1>2, <2>1, <2>3
<1>5. ASSUME NEW i \in 1..Len(chunks)
      PROVE  /\ chunks[i].end - chunks[i].pos <= MaxChars
             /\ i < Len(chunks) => chunks[i].end < chunks[i + 1].end
  <2>1. PICK q \in 0..last : i = q + 1
    BY <1>2
  <2>2. chunks[i].pos = q * Step /\ chunks[i].end = Min({q * Step + MaxChars, length})
    BY <1>2, <2>1
  <2>3. chunks[i].end - chunks[i].pos <= MaxChars
    BY <1>3, <2>2, StepForward
  <2>4. ASSUME i < Len(chunks)
        PROVE  chunks[i].end < chunks[i + 1].end
    <3>1. q \in 0..last - 1 /\ i \in 0..last /\ q \in Nat
      BY <1>1, <1>2, <2>1, <2>4
    <3>2. q * Step + MaxChars < length /\ i * Step = q * Step + Step
      BY <1>1, <2>1, <3>1, Multiples
    <3>3. chunks[i + 1].end = Min({i * Step + MaxChars, length})
      BY <1>2, <3>1
    <3> HIDE DEF Step
    <3>4. /\ Min({q * Step + MaxChars, length}) <= q * Step + MaxChars
          /\ Min({i * Step + MaxChars, length}) \in {i * Step + MaxChars, length}
          /\ q * Step \in Nat /\ Min({q * Step + MaxChars, length}) \in Nat
      BY <1>3, <3>1
    <3> QED
      BY <2>2, <3>2, <3>3, <3>4, StepForward
  <2> QED
    BY <2>3, <2>4
<1>6. Cover(chunks, length)
  BY <1>4, <1>5 DEF Cover
<1> QED
  BY <1>6 DEF chunks

-----------------------------------------------------------------------------
(* Pieces of a text.                                                       *)

\* How often c occurs among the first i characters of s.
UpTo(s, c, i) == Cardinality({j \in 1..i : s[j] = c})

LEMMA UpToType ==
  ASSUME NEW s \in Seq(Char), NEW c, NEW i \in Nat
  PROVE  UpTo(s, c, i) \in Nat /\ IsFiniteSet({j \in 1..i : s[j] = c})
<1>1. IsFiniteSet(1..i) /\ {j \in 1..i : s[j] = c} \in SUBSET (1..i)
  BY FS_Interval
<1>2. IsFiniteSet({j \in 1..i : s[j] = c})
  BY <1>1, FS_Subset
<1> QED
  BY <1>2, FS_CardinalityType DEF UpTo

LEMMA UpToNat ==
  ASSUME NEW s \in Seq(Char), NEW c, NEW i \in Nat
  PROVE  UpTo(s, c, i) \in Nat
BY UpToType

LEMMA UpToNone ==
  ASSUME NEW s \in Seq(Char), NEW c
  PROVE  UpTo(s, c, 0) = 0
<1>1. {j \in 1..0 : s[j] = c} = {}
  OBVIOUS
<1> QED
  BY <1>1, FS_EmptySet DEF UpTo

\* Each character adds one, or none.
LEMMA UpToOneMore ==
  ASSUME NEW s \in Seq(Char), NEW c, NEW i \in Nat
  PROVE  UpTo(s, c, i + 1) = UpTo(s, c, i) + (IF s[i + 1] = c THEN 1 ELSE 0)
<1> DEFINE S == {j \in 1..i : s[j] = c}
           T == {j \in 1..i + 1 : s[j] = c}
<1>1. IsFiniteSet(S) /\ Cardinality(S) \in Nat
  BY UpToType, FS_CardinalityType
<1>2. CASE s[i + 1] = c
  <2>1. T = S \cup {i + 1} /\ i + 1 \notin S
    BY <1>2
  <2>2. Cardinality(S \cup {i + 1}) = Cardinality(S) + 1
    <3> HIDE DEF S
    <3> QED
      BY <1>1, <2>1, FS_AddElement
  <2> QED
    BY <1>2, <2>1, <2>2 DEF UpTo
<1>3. CASE s[i + 1] # c
  <2>1. T = S
    BY <1>3
  <2>2. UpTo(s, c, i) = Cardinality(S) /\ UpTo(s, c, i + 1) = Cardinality(S)
    BY <2>1 DEF UpTo
  <2> HIDE DEF S
  <2> QED
    BY <1>1, <1>3, <2>2
<1> QED
  BY <1>2, <1>3

LEMMA UpToGrows ==
  ASSUME NEW s \in Seq(Char), NEW c, NEW i \in Nat, NEW k \in Nat, i <= k
  PROVE  UpTo(s, c, i) <= UpTo(s, c, k)
<1>1. {j \in 1..i : s[j] = c} \in SUBSET {j \in 1..k : s[j] = c}
  OBVIOUS
<1>2. IsFiniteSet({j \in 1..k : s[j] = c})
  BY UpToType
<1>3. Cardinality({j \in 1..i : s[j] = c}) <= Cardinality({j \in 1..k : s[j] = c})
  BY <1>1, <1>2, FS_Subset
<1> QED
  BY <1>3 DEF UpTo

\* A part of a text.
LEMMA PartOf ==
  ASSUME NEW s \in Seq(Char), NEW from \in Nat, NEW to \in Nat, from <= to, to <= Len(s)
  PROVE  LET part == SubSeq(s, from + 1, to) IN
         /\ part \in Seq(Char) /\ Len(part) = to - from
         /\ \A i \in 1..to - from : part[i] = s[from + i]
<1> DEFINE part == SubSeq(s, from + 1, to)
<1>1. \A i \in from + 1..to : s[i] \in Char
  OBVIOUS
<1>2. /\ part \in Seq(Char)
      /\ Len(part) = IF from + 1 <= to THEN to - (from + 1) + 1 ELSE 0
      /\ \A i \in 1..to - (from + 1) + 1 : part[i] = s[(from + 1) + i - 1]
  BY <1>1, SubSeqProperties
<1> HIDE DEF part
<1>3. Len(part) = to - from /\ \A i \in 1..to - from : part[i] = s[from + i]
  <2>1. Len(part) = to - from
    BY <1>2
  <2>2. to - (from + 1) + 1 = to - from /\ \A i \in 1..to - from : (from + 1) + i - 1 = from + i
    OBVIOUS
  <2> QED
    BY <1>2, <2>1, <2>2
<1> QED
  BY <1>2, <1>3 DEF part

\* What a part holds is what the text holds up to its end and not before it.
LEMMA CountOfPart ==
  ASSUME NEW s \in Seq(Char), NEW c, NEW from \in Nat, NEW to \in Nat,
         from <= to, to <= Len(s)
  PROVE  \A i \in 0..to - from :
           UpTo(s, c, from + i) = UpTo(s, c, from) + UpTo(SubSeq(s, from + 1, to), c, i)
<1> DEFINE part == SubSeq(s, from + 1, to)
           T == {i \in 0..to - from : UpTo(s, c, from + i) # UpTo(s, c, from) + UpTo(part, c, i)}
<1>1. /\ part \in Seq(Char) /\ Len(part) = to - from
      /\ \A i \in 1..to - from : part[i] = s[from + i]
  BY PartOf
<1> HIDE DEF part
<1>2. T \in SUBSET Nat
  OBVIOUS
<1>3. ASSUME T # {}
      PROVE  FALSE
  <2> HIDE DEF T
  <2>1. PICK n \in T : \A m \in T : n <= m
    BY <1>2, <1>3, LeastOf
  <2>2. n \in 0..to - from /\ UpTo(s, c, from + n) # UpTo(s, c, from) + UpTo(part, c, n)
    BY <2>1 DEF T
  <2>3. n # 0
    <3>1. UpTo(part, c, 0) = 0 /\ UpTo(s, c, from) \in Nat /\ from + 0 = from
      BY <1>1, UpToNone, UpToNat
    <3> QED
      BY <2>2, <3>1
  <2>4. PICK k \in Nat : n = k + 1
    <3>1. n - 1 \in Nat /\ n = (n - 1) + 1
      BY <2>2, <2>3
    <3> QED
      BY <3>1
  <2>5. k \in 0..to - from /\ k \notin T /\ n \in 1..to - from
    BY <2>1, <2>2, <2>4
  <2>6. UpTo(s, c, from + k) = UpTo(s, c, from) + UpTo(part, c, k)
    BY <2>5 DEF T
  <2>7. part[k + 1] = s[(from + k) + 1]
    <3>1. (from + k) + 1 = from + n
      BY <2>4
    <3> QED
      BY <1>1, <2>4, <2>5, <3>1
  <2>8. /\ UpTo(s, c, (from + k) + 1) = UpTo(s, c, from + k) + (IF s[(from + k) + 1] = c THEN 1 ELSE 0)
        /\ UpTo(part, c, k + 1) = UpTo(part, c, k) + (IF part[k + 1] = c THEN 1 ELSE 0)
    <3>1. from + k \in Nat
      OBVIOUS
    <3>2. UpTo(s, c, (from + k) + 1) = UpTo(s, c, from + k) + (IF s[(from + k) + 1] = c THEN 1 ELSE 0)
      BY <3>1, UpToOneMore
    <3>3. UpTo(part, c, k + 1) = UpTo(part, c, k) + (IF part[k + 1] = c THEN 1 ELSE 0)
      BY <1>1, UpToOneMore
    <3> QED
      BY <3>2, <3>3
  <2>9. UpTo(s, c, from) \in Nat /\ UpTo(part, c, k) \in Nat /\ (from + k) + 1 = from + n
    BY <1>1, <2>4, UpToNat
  <2> QED
    BY <2>2, <2>4, <2>6, <2>7, <2>8, <2>9
<1> QED
  BY <1>3 DEF part

LEMMA CountIsUpTo ==
  ASSUME NEW s \in Seq(Char), NEW c
  PROVE  /\ Count(s, c) = UpTo(s, c, Len(s))
         /\ \A i \in 0..Len(s) : Count(SubSeq(s, 1, i), c) = UpTo(s, c, i)
<1>1. Count(s, c) = UpTo(s, c, Len(s))
  BY DEF Count, UpTo
<1>2. ASSUME NEW i \in 0..Len(s)
      PROVE  Count(SubSeq(s, 1, i), c) = UpTo(s, c, i)
  <2> DEFINE part == SubSeq(s, 0 + 1, i)
  <2>1. i \in Nat /\ Len(part) = i /\ \A j \in 1..i : part[j] = s[0 + j]
    <3>1. i \in Nat /\ 0 \in Nat /\ 0 <= i /\ i <= Len(s)
      OBVIOUS
    <3>2. Len(part) = i - 0 /\ \A j \in 1..i - 0 : part[j] = s[0 + j]
      BY <3>1, PartOf
    <3> QED
      BY <3>1, <3>2
  <2> HIDE DEF part
  <2>2. {j \in 1..Len(part) : part[j] = c} = {j \in 1..i : s[j] = c}
    <3>1. \A j \in 1..i : part[j] = s[j]
      BY <2>1
    <3> QED
      BY <2>1, <3>1
  <2>3. Count(part, c) = UpTo(s, c, i)
    BY <2>2 DEF Count, UpTo
  <2> QED
    BY <2>3 DEF part
<1> QED
  BY <1>1, <1>2

\* The k-th cut is not after i just if there are k separators up to i.
LEMMA CutFacts ==
  ASSUME NEW s \in Seq(Char), NEW c, NEW k \in Nat
  PROVE  /\ Cut(s, c, k) \in 0..Len(s) + 1
         /\ \A i \in 0..Len(s) : Cut(s, c, k) <= i <=> UpTo(s, c, i) >= k
<1> DEFINE C == {i \in 0..Len(s) : UpTo(s, c, i) >= k} \cup {Len(s) + 1}
<1>1. Len(s) \in Nat
  OBVIOUS
<1>2. {i \in 0..Len(s) : Count(SubSeq(s, 1, i), c) >= k} = {i \in 0..Len(s) : UpTo(s, c, i) >= k}
  BY CountIsUpTo
<1>3. Cut(s, c, k) = Min(C)
  BY <1>2 DEF Cut
<1>4. C \in SUBSET Nat /\ C # {} /\ \A i \in C : i \in 0..Len(s) + 1
  BY <1>1
<1>5. \A i \in 0..Len(s) : i \in C <=> UpTo(s, c, i) >= k
  BY <1>1
<1> HIDE DEF C
<1>6. Cut(s, c, k) \in C /\ \A i \in C : Cut(s, c, k) <= i
  BY <1>3, <1>4, LeastOf
<1>7. ASSUME NEW i \in 0..Len(s), Cut(s, c, k) <= i
      PROVE  UpTo(s, c, i) >= k
  <2>1. Cut(s, c, k) \in 0..Len(s) /\ Cut(s, c, k) \in Nat /\ i \in Nat
    <3>1. PICK x \in C : x = Cut(s, c, k)
      BY <1>6
    <3>2. x \in 0..Len(s) + 1 /\ i \in Nat /\ i <= Len(s)
      BY <1>1, <1>4
    <3>3. x \in 0..Len(s)
      BY <1>1, <1>7, <3>1, <3>2
    <3> QED
      BY <3>1, <3>2, <3>3
  <2>2. UpTo(s, c, Cut(s, c, k)) >= k
    BY <1>5, <1>6, <2>1
  <2>3. UpTo(s, c, Cut(s, c, k)) <= UpTo(s, c, i)
    BY <1>7, <2>1, UpToGrows
  <2>4. UpTo(s, c, Cut(s, c, k)) \in Nat /\ UpTo(s, c, i) \in Nat
    BY <2>1, UpToNat
  <2> QED
    BY <2>2, <2>3, <2>4
<1> QED
  BY <1>4, <1>5, <1>6, <1>7

LEMMA CutsAscend ==
  ASSUME NEW s \in Seq(Char), NEW c, NEW k \in Nat, k <= UpTo(s, c, Len(s))
  PROVE  Cut(s, c, k) \in 0..Len(s) /\ Cut(s, c, k) < Cut(s, c, k + 1)
<1>1. Len(s) \in Nat /\ Len(s) \in 0..Len(s) /\ k + 1 \in Nat /\ UpTo(s, c, Len(s)) \in Nat
  BY UpToNat
<1>2. Cut(s, c, k) <= Len(s) /\ Cut(s, c, k) \in 0..Len(s) + 1
  BY <1>1, CutFacts
<1>3. Cut(s, c, k + 1) \in 0..Len(s) + 1
  BY <1>1, CutFacts
<1>4. CASE Cut(s, c, k + 1) = Len(s) + 1
  BY <1>1, <1>2, <1>4
<1>5. CASE Cut(s, c, k + 1) \in 0..Len(s)
  <2> DEFINE e == Cut(s, c, k + 1)
  <2>1. UpTo(s, c, e) >= k + 1 /\ UpTo(s, c, e) \in Nat
    <3>1. e \in Nat /\ e <= e
      BY <1>5
    <3> QED
      BY <1>1, <1>5, <3>1, CutFacts, UpToNat
  <2>2. e # 0
    <3>1. UpTo(s, c, 0) = 0
      BY UpToNone
    <3> QED
      BY <2>1, <3>1
  <2>3. PICK d \in 0..Len(s) : e = d + 1
    <3>1. e - 1 \in 0..Len(s) /\ e = (e - 1) + 1
      BY <1>5, <2>2
    <3> QED
      BY <3>1
  <2>4. UpTo(s, c, d + 1) = UpTo(s, c, d) + (IF s[d + 1] = c THEN 1 ELSE 0)
    BY <2>3, UpToOneMore
  <2>5. UpTo(s, c, d) \in Nat
    BY <2>3, UpToNat
  <2> HIDE DEF e
  <2>6. UpTo(s, c, d) >= k
    BY <2>1, <2>3, <2>4, <2>5
  <2>7. Cut(s, c, k) <= d
    BY <2>3, <2>6, CutFacts
  <2> QED
    BY <1>2, <2>3, <2>7 DEF e
<1> QED
  BY <1>1, <1>2, <1>3, <1>4, <1>5

\* There is one piece more than there are separators.
LEMMA Pieces ==
  ASSUME NEW s \in Seq(Char), NEW c
  PROVE  /\ UpTo(s, c, Len(s)) \in Nat /\ Len(Split(s, c)) = UpTo(s, c, Len(s)) + 1
         /\ \A k \in 1..Len(Split(s, c)) :
              Split(s, c)[k] = SubSeq(s, Cut(s, c, k - 1) + 1, Cut(s, c, k) - 1)
<1>1. Count(s, c) = UpTo(s, c, Len(s)) /\ UpTo(s, c, Len(s)) \in Nat
  BY CountIsUpTo, UpToNat
<1> DEFINE n == UpTo(s, c, Len(s))
           pieces == [k \in 1..n + 1 |-> SubSeq(s, Cut(s, c, k - 1) + 1, Cut(s, c, k) - 1)]
<1>2. Split(s, c) = pieces
  BY <1>1 DEF Split
<1>3. n \in Nat
  BY <1>1
<1> HIDE DEF n
<1>4. Len(pieces) = n + 1
  BY <1>3
<1>5. \A k \in 1..n + 1 : pieces[k] = SubSeq(s, Cut(s, c, k - 1) + 1, Cut(s, c, k) - 1)
  OBVIOUS
<1> HIDE DEF pieces
<1> QED
  BY <1>2, <1>3, <1>4, <1>5 DEF n

IsPiece(piece, s, a, e) ==
  /\ a \in 0..Len(s) /\ e \in 1..Len(s) + 1 /\ a < e
  /\ piece \in Seq(Char) /\ Len(piece) = e - a - 1
  /\ \A i \in 1..Len(piece) : piece[i] = s[a + i]

LEMMA PieceFacts ==
  ASSUME NEW s \in Seq(Char), NEW c, NEW k \in 1..Len(Split(s, c))
  PROVE  IsPiece(Split(s, c)[k], s, Cut(s, c, k - 1), Cut(s, c, k))
<1> DEFINE n == UpTo(s, c, Len(s))
           a == Cut(s, c, k - 1)
           e == Cut(s, c, k)
<1>1. /\ n \in Nat /\ Len(Split(s, c)) = n + 1
      /\ Split(s, c)[k] = SubSeq(s, a + 1, e - 1)
  BY Pieces
<1> HIDE DEF n
<1>2. k - 1 \in Nat /\ k \in Nat /\ (k - 1) + 1 = k /\ k - 1 <= n
  BY <1>1
<1>3. a \in 0..Len(s) /\ a < e
  BY <1>2, CutsAscend DEF n
<1>4. e \in 0..Len(s) + 1
  BY <1>2, CutFacts
<1> HIDE DEF a, e
<1> DEFINE to == e - 1
<1>5. a \in Nat /\ to \in Nat /\ a <= to /\ to <= Len(s) /\ Len(s) \in Nat
  BY <1>3, <1>4
<1> HIDE DEF to
<1>6. /\ SubSeq(s, a + 1, to) \in Seq(Char) /\ Len(SubSeq(s, a + 1, to)) = to - a
      /\ \A i \in 1..to - a : SubSeq(s, a + 1, to)[i] = s[a + i]
  BY <1>5, PartOf
<1>7. to - a = e - a - 1 /\ to = e - 1
  BY <1>3, <1>4 DEF to
<1> DEFINE piece == Split(s, c)[k]
<1>8. piece = SubSeq(s, a + 1, to)
  BY <1>1, <1>7
<1> HIDE DEF piece
<1>9. piece \in Seq(Char) /\ Len(piece) = e - a - 1 /\ \A i \in 1..Len(piece) : piece[i] = s[a + i]
  BY <1>6, <1>7, <1>8
<1>10. e \in 1..Len(s) + 1
  BY <1>3, <1>4, <1>5
<1>11. IsPiece(piece, s, a, e)
  BY <1>3, <1>9, <1>10 DEF IsPiece
<1> QED
  BY <1>11 DEF piece, a, e

\* Every character but the separators is in a piece.
LEMMA PieceWith ==
  ASSUME NEW s \in Seq(Char), NEW c, NEW p \in 1..Len(s), s[p] # c
  PROVE  \E k \in 1..Len(Split(s, c)) : Among(Split(s, c)[k], s[p])
<1> DEFINE q == UpTo(s, c, p)
<1>1. p \in Nat /\ p \in 0..Len(s) /\ Len(s) \in Nat /\ p - 1 \in Nat /\ p - 1 \in 0..Len(s)
      /\ (p - 1) + 1 = p
  OBVIOUS
<1>2. q \in Nat /\ q <= UpTo(s, c, Len(s))
  BY <1>1, UpToNat, UpToGrows
<1>3. UpTo(s, c, p - 1) = q
  <2>1. UpTo(s, c, (p - 1) + 1) = UpTo(s, c, p - 1) + (IF s[(p - 1) + 1] = c THEN 1 ELSE 0)
    BY <1>1, UpToOneMore
  <2>2. UpTo(s, c, p - 1) \in Nat
    BY <1>1, UpToNat
  <2> QED
    BY <1>1, <2>1, <2>2
<1> HIDE DEF q
<1>4. Cut(s, c, q) <= p - 1
  BY <1>1, <1>2, <1>3, CutFacts
<1>5. ~(Cut(s, c, q + 1) <= p)
  <2>1. q + 1 \in Nat /\ ~(q >= q + 1)
    BY <1>2
  <2> QED
    BY <1>1, <2>1, CutFacts DEF q
<1>6. PICK k \in 1..Len(Split(s, c)) : k = q + 1 /\ k - 1 = q
  <2>1. q + 1 \in 1..UpTo(s, c, Len(s)) + 1 /\ (q + 1) - 1 = q
    BY <1>1, <1>2, UpToNat
  <2> QED
    BY <2>1, Pieces
<1> DEFINE a == Cut(s, c, q)
           e == Cut(s, c, k)
           piece == Split(s, c)[k]
<1>7. IsPiece(piece, s, a, e)
  BY <1>6, PieceFacts
<1>8. a <= p - 1 /\ ~(e <= p)
  BY <1>4, <1>5, <1>6
<1> HIDE DEF a, e, piece
<1>9. p - a \in 1..Len(piece) /\ a + (p - a) = p
  BY <1>1, <1>7, <1>8 DEF IsPiece
<1>10. piece[p - a] = s[p]
  BY <1>7, <1>9 DEF IsPiece
<1> QED
  BY <1>9, <1>10 DEF Among, piece

\* What a window left of a line.
IsLeftOf(part, line) ==
  \E f \in 1..Len(line) + 1, t \in 0..Len(line) : part = SubSeq(line, f, t)

\* The lines of a window are the body's, or what the window left of them.
LEMMA PieceOfWindow ==
  ASSUME NEW s \in Seq(Char), NEW c, NEW from \in Nat, NEW to \in Nat,
         from <= to, to <= Len(s),
         NEW w, w = SubSeq(s, from + 1, to), NEW k \in 1..Len(Split(w, c))
  PROVE  /\ UpTo(s, c, from) + k \in 1..Len(Split(s, c))
         /\ IsLeftOf(Split(w, c)[k], Split(s, c)[UpTo(s, c, from) + k])
<1> DEFINE offset == UpTo(s, c, from)
           n == UpTo(s, c, Len(s))
           q == offset + k
<1>1. /\ w \in Seq(Char) /\ Len(w) = to - from /\ \A i \in 1..to - from : w[i] = s[from + i]
      /\ \A i \in 0..to - from : UpTo(s, c, from + i) = offset + UpTo(w, c, i)
  <2>1. LET part == SubSeq(s, from + 1, to) IN
        /\ part \in Seq(Char) /\ Len(part) = to - from
        /\ \A i \in 1..to - from : part[i] = s[from + i]
    BY PartOf
  <2>2. \A i \in 0..to - from :
           UpTo(s, c, from + i) = offset + UpTo(SubSeq(s, from + 1, to), c, i)
    BY CountOfPart
  <2> QED
    BY <2>1, <2>2
<1>2. Len(s) \in Nat /\ offset \in Nat /\ n \in Nat /\ UpTo(w, c, Len(w)) \in Nat
  <2>1. Len(s) \in Nat /\ Len(w) \in Nat /\ w \in Seq(Char)
    BY <1>1
  <2>2. offset \in Nat /\ n \in Nat
    BY <2>1, UpToNat
  <2>3. UpTo(w, c, Len(w)) \in Nat
    BY <2>1, UpToNat
  <2> QED
    BY <2>1, <2>2, <2>3
<1>3. Len(Split(s, c)) = n + 1 /\ Len(Split(w, c)) = UpTo(w, c, Len(w)) + 1
  BY <1>1, Pieces
<1>4. offset + UpTo(w, c, Len(w)) <= n
  <2>1. to - from \in 0..to - from /\ from + (to - from) = to
    OBVIOUS
  <2>2. UpTo(s, c, to) = offset + UpTo(w, c, Len(w))
    BY <1>1, <2>1
  <2>3. UpTo(s, c, to) <= n
    BY <1>2, UpToGrows
  <2> QED
    BY <2>2, <2>3
<1>5. k \in Nat /\ k - 1 \in Nat /\ k - 1 <= UpTo(w, c, Len(w))
  BY <1>2, <1>3
<1> HIDE DEF offset, n
<1>6. q \in 1..Len(Split(s, c)) /\ q \in Nat /\ q - 1 \in Nat /\ q - 1 = offset + (k - 1)
  BY <1>2, <1>3, <1>4, <1>5
<1> DEFINE a == Cut(w, c, k - 1)
           e == Cut(w, c, k)
           A == Cut(s, c, q - 1)
           B == Cut(s, c, q)
           line == Split(w, c)[k]
           whole == Split(s, c)[q]
<1>7. IsPiece(line, w, a, e) /\ IsPiece(whole, s, A, B)
  BY <1>1, <1>6, PieceFacts
<1>8. A <= from + a
  <2>1. a \in 0..to - from /\ a \in Nat /\ from + a \in 0..Len(s)
    <3>1. a \in 0..Len(w)
      BY <1>7 DEF IsPiece
    <3> HIDE DEF a
    <3> QED
      BY <1>1, <1>2, <3>1
  <2>2. UpTo(w, c, a) >= k - 1 /\ UpTo(w, c, a) \in Nat
    <3>1. a <= a
      BY <2>1
    <3> QED
      BY <1>1, <1>5, <2>1, <3>1, CutFacts, UpToNat
  <2>3. UpTo(s, c, from + a) >= q - 1
    BY <1>1, <1>2, <1>5, <1>6, <2>1, <2>2
  <2> HIDE DEF q
  <2> QED
    BY <1>6, <2>1, <2>3, CutFacts
<1>9. from + e <= B
  <2>1. e \in 1..(to - from) + 1 /\ B \in 1..Len(s) + 1
    BY <1>1, <1>7 DEF IsPiece
  <2>2. CASE B = Len(s) + 1
    BY <1>2, <2>1, <2>2
  <2>3. CASE B \in 0..Len(s)
    <3>1. UpTo(s, c, B) >= q /\ B \in Nat
      <4>1. B <= B /\ B \in Nat
        BY <2>3
      <4> HIDE DEF q
      <4> QED
        BY <1>6, <2>3, <4>1, CutFacts
    <3>2. B > from
      <4>1. B <= from => UpTo(s, c, B) <= offset
        BY <3>1, UpToGrows DEF offset
      <4>2. UpTo(s, c, B) \in Nat /\ q > offset
        BY <1>2, <3>1, UpToNat
      <4> HIDE DEF q, B
      <4> QED
        BY <1>2, <1>6, <3>1, <4>1, <4>2
    <3> HIDE DEF B
    <3>3. PICK i \in Nat : B = from + i
      <4>1. B - from \in Nat /\ B = from + (B - from)
        BY <3>1, <3>2
      <4> QED
        BY <4>1
    <3>4. CASE i \in 0..to - from
      <4>1. UpTo(w, c, i) >= k
        <5>1. UpTo(s, c, from + i) = offset + UpTo(w, c, i) /\ UpTo(w, c, i) \in Nat
          BY <1>1, <3>4, UpToNat
        <5> QED
          BY <1>2, <1>5, <3>1, <3>3, <5>1
      <4>2. e <= i
        BY <1>1, <1>5, <3>4, <4>1, CutFacts
      <4> HIDE DEF e
      <4> QED
        BY <2>1, <3>3, <4>2
    <3>5. CASE i > to - from
      <4> HIDE DEF e
      <4> QED
        BY <2>1, <3>3, <3>5
    <3> QED
      BY <3>4, <3>5
  <2> QED
    BY <1>2, <2>1, <2>2, <2>3
<1> DEFINE d == (from + a) - A
           t == (from + e - 1) - A
<1>10. /\ a \in Nat /\ e \in Nat /\ A \in Nat /\ B \in Nat /\ a < e /\ A < B
       /\ e <= (to - from) + 1
  <2>1. a \in 0..Len(w) /\ e \in 1..Len(w) + 1 /\ a < e
    BY <1>7 DEF IsPiece
  <2>2. A \in 0..Len(s) /\ B \in 1..Len(s) + 1 /\ A < B
    BY <1>7 DEF IsPiece
  <2> HIDE DEF q, a, e, A, B
  <2> QED
    BY <1>1, <1>2, <2>1, <2>2
<1> HIDE DEF q, a, e, A, B, line, whole
<1>11. /\ Len(line) = e - a - 1 /\ Len(whole) = B - A - 1 /\ whole \in Seq(Char)
       /\ line \in Seq(Char)
  BY <1>7 DEF IsPiece
<1>12. /\ d \in Nat /\ t \in Nat /\ d <= t /\ t <= Len(whole) /\ t - d = Len(line)
  BY <1>8, <1>9, <1>10, <1>11
<1> DEFINE part == SubSeq(whole, d + 1, t)
<1>13. part \in Seq(Char) /\ Len(part) = t - d /\ \A i \in 1..t - d : part[i] = whole[d + i]
  <2> HIDE DEF d, t
  <2> QED
    BY <1>11, <1>12, PartOf
<1> HIDE DEF part
<1>14. ASSUME NEW i \in 1..Len(line)
       PROVE  line[i] = part[i]
  <2>1. i \in 1..t - d /\ a + i \in 1..to - from
    BY <1>10, <1>11, <1>12
  <2>2. line[i] = s[from + (a + i)]
    <3>1. line[i] = w[a + i]
      BY <1>7 DEF IsPiece
    <3> QED
      BY <1>1, <2>1, <3>1
  <2>3. d + i \in 1..Len(whole) /\ A + (d + i) = from + (a + i)
    BY <1>10, <1>11, <1>12, <2>1
  <2>4. part[i] = s[A + (d + i)]
    <3>1. part[i] = whole[d + i] /\ whole[d + i] = s[A + (d + i)]
      BY <1>7, <1>13, <2>1, <2>3 DEF IsPiece
    <3> QED
      BY <3>1
  <2> QED
    BY <2>2, <2>3, <2>4
<1>15. line = part
  <2>1. Len(line) = Len(part) /\ line \in Seq(Char) /\ part \in Seq(Char)
    BY <1>11, <1>12, <1>13
  <2> QED
    BY <1>14, <2>1, SeqEqual
<1>16. /\ d + 1 \in 1..Len(whole) + 1 /\ t \in 0..Len(whole)
       /\ line = SubSeq(whole, d + 1, t)
  BY <1>11, <1>12, <1>15 DEF part
<1>17. IsLeftOf(line, whole)
  <2> HIDE DEF d, t
  <2> QED
    BY <1>16 DEF IsLeftOf
<1> QED
  BY <1>6, <1>17 DEF line, whole, q, offset

-----------------------------------------------------------------------------
(* Snippets.                                                               *)

\* The greater of 1 and a number.
LEMMA AtLeastOne ==
  ASSUME NEW x \in Nat
  PROVE  Max({1, x}) = IF x = 0 THEN 1 ELSE x
<1>1. CASE x = 0
  <2>1. \A y \in {1, x} : (\A z \in {1, x} : z <= y) <=> y = 1
    BY <1>1
  <2> QED
    BY <1>1, <2>1 DEF Max
<1>2. CASE x # 0
  <2>1. \A y \in {1, x} : (\A z \in {1, x} : z <= y) <=> y = x
    BY <1>2
  <2> QED
    BY <1>2, <2>1 DEF Max
<1> QED
  BY <1>1, <1>2

\* Where a chunk begins: inside its body or at 0.
Position(body, pos) == pos \in Nat \cup {None} /\ (pos \in Nat => pos <= Len(body))

\* A window is a part of the body.
LEMMA WindowFacts ==
  ASSUME NEW body \in Seq(Char), NEW pos, Position(body, pos)
  PROVE  \E to \in Nat :
           /\ Start(pos) \in Nat /\ Start(pos) <= to /\ to <= Len(body)
           /\ Window(body, pos) = SubSeq(body, Start(pos) + 1, to)
           /\ pos \in Nat => pos - Start(pos) \in 0..to - Start(pos)
           /\ pos \in {None, 0} => Start(pos) = 0
           /\ pos = None => to = Len(body)
<1>1. Len(body) \in Nat /\ MaxChars \in Nat /\ Margin \in Nat /\ None \notin Nat
  BY TextAssumption
<1>2. CASE pos = None
  <2>1. Start(pos) = 0 /\ Window(body, pos) = body
    BY <1>2 DEF Start, Window
  <2>2. body = SubSeq(body, 1, Len(body))
    BY SubSeqFull
  <2>3. Window(body, pos) = SubSeq(body, Start(pos) + 1, Len(body))
    BY <2>1, <2>2
  <2> QED
    BY <1>1, <1>2, <2>1, <2>3
<1>3. CASE pos \in Nat
  <2> DEFINE reach == pos + MaxChars + Margin
             to == Min({Len(body), reach})
  <2>1. reach \in Nat /\ reach >= pos /\ pos <= Len(body) /\ pos # None
    BY <1>1, <1>3 DEF Position
  <2>2. to \in Nat /\ to \in {Len(body), reach} /\ to <= Len(body)
    <3> HIDE DEF reach
    <3> QED
      BY <1>1, <2>1, LesserOf
  <2>3. Window(body, pos) = SubSeq(body, Start(pos) + 1, to)
    BY <2>1 DEF Window
  <2>4. Start(pos) \in Nat /\ Start(pos) <= pos /\ (pos = 0 => Start(pos) = 0)
    BY <1>1, <1>3, <2>1 DEF Start
  <2> HIDE DEF to, reach
  <2>5. Start(pos) <= to /\ pos - Start(pos) \in 0..to - Start(pos)
    BY <1>3, <2>1, <2>2, <2>4
  <2> QED
    BY <1>3, <2>1, <2>2, <2>3, <2>4, <2>5
<1> QED
  BY <1>2, <1>3 DEF Position

\* The best line is one of the window's, with a hit if there is one.
LEMMA BestFacts ==
  ASSUME NEW body \in Seq(Char), NEW pos, Position(body, pos)
  PROVE  LET lines == Lines(Window(body, pos)) IN
         /\ Window(body, pos) \in Seq(Char)
         /\ Len(lines) \in Nat /\ Best(body, pos) \in 1..Len(lines)
         /\ Hits(lines) # {} => Among(lines[Best(body, pos)], "x")
<1> DEFINE window == Window(body, pos)
           lines == Lines(window)
           n == UpTo(window, Newline, Len(window))
           hits == Hits(lines)
<1>1. PICK to \in Nat : /\ Start(pos) \in Nat /\ Start(pos) <= to /\ to <= Len(body)
                        /\ window = SubSeq(body, Start(pos) + 1, to)
                        /\ pos \in Nat => pos - Start(pos) \in 0..to - Start(pos)
  BY WindowFacts
<1>2. window \in Seq(Char) /\ Len(window) = to - Start(pos)
  BY <1>1, PartOf
<1> HIDE DEF window
<1>3. n \in Nat /\ Len(lines) = n + 1
  BY <1>2, Pieces DEF Lines
<1>4. hits \in SUBSET Nat /\ \A i \in hits : i \in 1..Len(lines) /\ Among(lines[i], "x")
  BY DEF Hits
<1> HIDE DEF lines, hits
<1>5. CASE hits # {}
  <2>1. Min(hits) \in hits
    BY <1>4, <1>5, LeastOf
  <2>2. Best(body, pos) = Min(hits)
    BY <1>5 DEF Best, window, lines, hits
  <2>3. Best(body, pos) \in 1..Len(lines) /\ Among(lines[Best(body, pos)], "x")
    BY <1>4, <2>1, <2>2
  <2> QED
    BY <1>2, <1>3, <2>3 DEF window, lines
<1>6. CASE hits = {}
  <2>1. Best(body, pos) = IF pos = None THEN 1 ELSE LinesBefore(window, pos - Start(pos)) + 1
    BY <1>6 DEF Best, window, lines, hits
  <2>2. Best(body, pos) \in 1..n + 1
    <3>1. CASE pos = None
      BY <1>3, <2>1, <3>1
    <3>2. CASE pos \in Nat
      <4> DEFINE i == pos - Start(pos)
      <4>1. i \in 0..Len(window) /\ i \in Nat /\ Len(window) \in Nat /\ i <= Len(window)
        BY <1>1, <1>2, <3>2
      <4>2. pos # None
        BY <3>2, TextAssumption
      <4> HIDE DEF i
      <4>3. LinesBefore(window, i) = UpTo(window, Newline, i)
        BY <1>2, <4>1, CountIsUpTo DEF LinesBefore
      <4>4. UpTo(window, Newline, i) \in Nat /\ UpTo(window, Newline, i) <= n
        BY <1>2, <4>1, UpToNat, UpToGrows
      <4>5. Best(body, pos) = LinesBefore(window, i) + 1
        BY <2>1, <4>2 DEF i
      <4> HIDE DEF n
      <4> QED
        BY <1>3, <4>3, <4>4, <4>5
    <3> QED
      BY <3>1, <3>2 DEF Position
  <2>3. Best(body, pos) \in 1..Len(lines)
    BY <1>3, <2>2
  <2> QED
    BY <1>2, <1>3, <1>6, <2>3 DEF window, lines, hits
<1> QED
  BY <1>5, <1>6

\* What is shown: some lines of the window, the best one among them.
LEMMA ShownFacts ==
  ASSUME NEW body \in Seq(Char), NEW pos, Position(body, pos)
  PROVE  LET lines == Lines(Window(body, pos))
             first == First(body, pos)
             shown == Shown(body, pos) IN
         /\ shown \in Seq(Seq(Char))
         /\ first \in 1..Best(body, pos) /\ Len(shown) \in Nat
         /\ Best(body, pos) <= first + Len(shown) - 1 /\ first + Len(shown) - 1 <= Len(lines)
         /\ \A i \in 1..Len(shown) : shown[i] = lines[first + i - 1]
<1> DEFINE window == Window(body, pos)
           lines == Lines(window)
           best == Best(body, pos)
           first == First(body, pos)
           last == Min({Len(lines), best + 2})
           shown == SubSeq(lines, first, last)
<1>1. window \in Seq(Char) /\ Len(lines) \in Nat /\ best \in 1..Len(lines)
  BY BestFacts
<1>2. Shown(body, pos) = shown
  BY DEF Shown
<1>3. first = Max({1, best - 1})
  BY DEF First
<1> HIDE DEF window, best
<1>4. \A i \in 1..Len(lines) : lines[i] \in Seq(Char)
  BY <1>1, PieceFacts DEF Lines, IsPiece
<1> HIDE DEF lines, first
<1>5. first \in 1..best
  <2>1. best - 1 \in Nat
    BY <1>1
  <2>2. first = IF best - 1 = 0 THEN 1 ELSE best - 1
    BY <1>3, <2>1, AtLeastOne
  <2> QED
    BY <1>1, <2>2
<1>6. last \in Nat /\ best <= last /\ last <= Len(lines)
  <2>1. best + 2 \in Nat /\ best \in Nat /\ best <= Len(lines)
    BY <1>1
  <2>2. /\ last \in Nat /\ last \in {Len(lines), best + 2} /\ last <= Len(lines)
    BY <1>1, <2>1, LesserOf
  <2> HIDE DEF last
  <2> QED
    BY <2>1, <2>2
<1> HIDE DEF last
<1>7. \A i \in first..last : lines[i] \in Seq(Char)
  BY <1>1, <1>4, <1>5, <1>6
<1>8. /\ shown \in Seq(Seq(Char))
      /\ Len(shown) = IF first <= last THEN last - first + 1 ELSE 0
      /\ \A i \in 1..last - first + 1 : shown[i] = lines[first + i - 1]
  <2>1. first \in Int /\ last \in Int
    BY <1>1, <1>5, <1>6
  <2> QED
    BY <1>7, <2>1, SubSeqProperties
<1> HIDE DEF shown
<1>9. Len(shown) = last - first + 1
  BY <1>1, <1>5, <1>6, <1>8
<1>10. /\ shown \in Seq(Seq(Char)) /\ first \in 1..best /\ Len(shown) \in Nat
       /\ best <= first + Len(shown) - 1 /\ first + Len(shown) - 1 <= Len(lines)
       /\ \A i \in 1..Len(shown) : shown[i] = lines[first + i - 1]
  BY <1>1, <1>5, <1>6, <1>8, <1>9
<1> QED
  BY <1>2, <1>10 DEF best, first, lines, window

\* What is promised of a snippet of a body.
TrueSnippet(s, text) ==
  LET body == Lines(text) IN
  /\ s.after \in Nat /\ s.before + Len(s.numbered) + s.after = Len(body)
  /\ s.start = s.before + 1
  /\ s.line \in s.start..s.start + Len(s.numbered) - 1
  /\ \A i \in 1..Len(s.numbered) : IsLeftOf(s.numbered[i], body[s.before + i])

\* The parts of a snippet, for an offset, the best and the first line of a
\* window, what is shown and the number of lines of the body.
IsSnippet(s, offset, best, first, shown, total) ==
  /\ s.line = offset + best /\ s.start = offset + first /\ s.numbered = shown
  /\ s.before = (offset + first) - 1 /\ s.after = total + 1 - (offset + first + Len(shown))
  /\ s.text = Shortened(Joined(shown))

LEMMA SnippetFields ==
  ASSUME NEW body, NEW pos
  PROVE  IsSnippet(SnippetAt(body, pos), LinesBefore(body, Start(pos)), Best(body, pos),
                   First(body, pos), Shown(body, pos), Len(Lines(body)))
<1> DEFINE o == LinesBefore(body, Start(pos))
           b == Best(body, pos)
           f == First(body, pos)
           lines == Shown(body, pos)
           total == Len(Lines(body))
<1>1. SnippetAt(body, pos) =
        [line |-> o + b, start |-> o + f, numbered |-> lines,
         before |-> (o + f) - 1, after |-> total + 1 - (o + f + Len(lines)),
         text |-> Shortened(Joined(lines))]
  BY DEF SnippetAt
<1> HIDE DEF o, b, f, lines, total
<1> DEFINE s == SnippetAt(body, pos)
           line == o + b
           start == o + f
           before == (o + f) - 1
           after == total + 1 - (o + f + Len(lines))
           text == Shortened(Joined(lines))
<1>2. s = [line |-> line, start |-> start, numbered |-> lines, before |-> before, after |-> after,
           text |-> text]
  BY <1>1
<1> HIDE DEF s, line, start, before, after, text
<1>3. /\ s.line = line /\ s.start = start /\ s.numbered = lines
      /\ s.before = before /\ s.after = after /\ s.text = text
  BY <1>2
<1> QED
  BY <1>3 DEF IsSnippet, o, b, f, lines, total, s, line, start, before, after, text

LEMMA SnippetIsTrue ==
  ASSUME NEW body \in Seq(Char), NEW pos, Position(body, pos)
  PROVE  LET s == SnippetAt(body, pos) IN
         /\ TrueSnippet(s, body)
         /\ s.line - s.before \in 1..Len(s.numbered)
         /\ s.numbered \in Seq(Seq(Char)) /\ s.text = Shortened(Joined(s.numbered))
         /\ Hits(Lines(Window(body, pos))) # {} => Among(s.numbered[s.line - s.before], "x")
<1> DEFINE window == Window(body, pos)
           from == Start(pos)
           lines == Lines(window)
           whole == Lines(body)
           best == Best(body, pos)
           first == First(body, pos)
           shown == Shown(body, pos)
           offset == UpTo(body, Newline, from)
           s == SnippetAt(body, pos)
<1>1. PICK to \in Nat : /\ from \in Nat /\ from <= to /\ to <= Len(body)
                        /\ window = SubSeq(body, from + 1, to)
  BY WindowFacts
<1>2. /\ window \in Seq(Char) /\ Len(lines) \in Nat /\ best \in 1..Len(lines)
      /\ Hits(lines) # {} => Among(lines[best], "x")
  BY BestFacts
<1>3. /\ shown \in Seq(Seq(Char)) /\ first \in 1..best /\ Len(shown) \in Nat
      /\ best <= first + Len(shown) - 1 /\ first + Len(shown) - 1 <= Len(lines)
      /\ \A i \in 1..Len(shown) : shown[i] = lines[first + i - 1]
  BY ShownFacts
<1>4. LinesBefore(body, from) = offset /\ offset \in Nat
  <2>1. from \in 0..Len(body)
    BY <1>1
  <2> QED
    BY <1>1, <2>1, CountIsUpTo, UpToNat DEF LinesBefore
<1>5. /\ s.line = offset + best /\ s.start = offset + first
      /\ s.numbered = shown /\ s.before = (offset + first) - 1
      /\ s.after = Len(whole) + 1 - (offset + first + Len(shown))
      /\ s.text = Shortened(Joined(shown))
  <2>1. IsSnippet(s, LinesBefore(body, from), best, first, shown, Len(whole))
    BY SnippetFields
  <2> HIDE DEF s, from, best, first, shown, whole, offset
  <2> QED
    BY <1>4, <2>1 DEF IsSnippet
<1> HIDE DEF window, best, first, shown, s, from
<1>6. \A k \in 1..Len(lines) : offset + k \in 1..Len(whole) /\ IsLeftOf(lines[k], whole[offset + k])
  <2>1. lines = Split(window, Newline) /\ whole = Split(body, Newline)
    BY DEF Lines
  <2> HIDE DEF lines, whole
  <2> SUFFICES ASSUME NEW k \in 1..Len(lines)
               PROVE  offset + k \in 1..Len(whole) /\ IsLeftOf(lines[k], whole[offset + k])
    OBVIOUS
  <2>2. k \in 1..Len(Split(window, Newline))
    BY <2>1
  <2>3. /\ offset + k \in 1..Len(Split(body, Newline))
        /\ IsLeftOf(Split(window, Newline)[k], Split(body, Newline)[offset + k])
    BY <1>1, <2>2, PieceOfWindow
  <2> HIDE DEF offset
  <2> QED
    BY <2>1, <2>3
<1>7. Len(whole) \in Nat
  BY Pieces DEF Lines
<1> HIDE DEF lines, whole, offset
<1>8. offset + Len(lines) <= Len(whole)
  <2>1. Len(lines) \in 1..Len(lines)
    BY <1>2
  <2> QED
    BY <1>4, <1>6, <1>7, <2>1
<1>9. s.after \in Nat /\ s.before + Len(s.numbered) + s.after = Len(whole) /\ s.start = s.before + 1
  <2>1. /\ offset \in Nat /\ first \in Nat /\ Len(shown) \in Nat /\ Len(whole) \in Nat
        /\ 1 <= first /\ offset + first + Len(shown) <= Len(whole) + 1
    BY <1>2, <1>3, <1>4, <1>7, <1>8
  <2>2. /\ s.before = (offset + first) - 1 /\ s.start = offset + first /\ Len(s.numbered) = Len(shown)
        /\ s.after = (Len(whole) + 1) - (offset + first + Len(shown))
    <3>1. /\ s.before = (offset + first) - 1 /\ s.start = offset + first /\ s.numbered = shown
          /\ s.after = Len(whole) + 1 - (offset + first + Len(shown))
      BY <1>5
    <3> QED
      BY <2>1, <3>1
  <2> QED
    BY <2>1, <2>2
<1>10. s.line \in s.start..s.start + Len(s.numbered) - 1
  BY <1>2, <1>3, <1>4, <1>5
<1>11. ASSUME NEW i \in 1..Len(s.numbered)
       PROVE  IsLeftOf(s.numbered[i], whole[s.before + i])
  <2>1. PICK k \in 1..Len(lines) : k = first + i - 1
    <3>1. first + i - 1 \in 1..Len(lines)
      BY <1>2, <1>3, <1>5
    <3> QED
      BY <3>1
  <2>2. s.before + i = offset + k
    BY <1>2, <1>3, <1>4, <1>5, <2>1
  <2>3. s.numbered[i] = lines[k]
    BY <1>3, <1>5, <2>1
  <2> QED
    BY <1>6, <2>2, <2>3
<1>12. TrueSnippet(s, body)
  BY <1>9, <1>10, <1>11 DEF TrueSnippet, whole
<1>13. /\ s.line - s.before \in 1..Len(s.numbered)
       /\ first + (s.line - s.before) - 1 = best
  <2>1. offset \in Nat /\ first \in Nat /\ best \in Nat /\ first <= best
    BY <1>2, <1>3, <1>4
  <2>2. s.line - s.before = best - first + 1
    BY <1>5, <2>1
  <2>3. best - first + 1 \in 1..Len(shown) /\ first + (best - first + 1) - 1 = best
    BY <1>3, <2>1
  <2> QED
    BY <1>5, <2>2, <2>3
<1>14. ASSUME Hits(lines) # {}
       PROVE  Among(s.numbered[s.line - s.before], "x")
  <2>1. PICK i \in 1..Len(shown) : i = s.line - s.before /\ first + i - 1 = best
    BY <1>5, <1>13
  <2>2. s.numbered[s.line - s.before] = lines[best]
    BY <1>3, <1>5, <2>1
  <2> QED
    BY <1>2, <1>14, <2>2
<1>15. s.numbered \in Seq(Seq(Char)) /\ s.text = Shortened(Joined(s.numbered))
  BY <1>3, <1>5
<1> QED
  BY <1>12, <1>13, <1>14, <1>15 DEF s, lines, window

\* A word that is anywhere in the body is a hit in one of its lines.
LEMMA WordIsAHit ==
  ASSUME NEW body \in Seq(Char), Among(body, "x")
  PROVE  Hits(Lines(body)) # {}
<1>1. PICK p \in 1..Len(body) : body[p] = "x"
  BY DEF Among
<1>2. body[p] # Newline
  BY <1>1 DEF Newline
<1>3. PICK k \in 1..Len(Split(body, Newline)) : Among(Split(body, Newline)[k], "x")
  BY <1>1, <1>2, PieceWith
<1> QED
  BY <1>3 DEF Hits, Lines

\* What a snippet promises of its text and of the query's word.
Legible(s) ==
  /\ s.line - s.before \in 1..Len(s.numbered)
  /\ s.numbered \in Seq(Seq(Char)) /\ s.text = Shortened(Joined(s.numbered))
Sought(body, chunk) ==
  \/ Among(Window(body, chunk), "x")
  \/ chunk = 0 /\ Among(body, "x")
Worded(s) == Among(s.numbered[s.line - s.before], "x")

LEMMA ExtractedIsTrue ==
  ASSUME NEW body \in Seq(Char), NEW chunk, Position(body, chunk)
  PROVE  LET s == extract_snippet(body, chunk) IN
         /\ TrueSnippet(s, body) /\ Legible(s)
         /\ Sought(body, chunk) => Worded(s)
<1> DEFINE window == Window(body, chunk)
           whole == SnippetAt(body, None)
           near == SnippetAt(body, chunk)
           got == extract_snippet(body, chunk)
<1>1. Position(body, None) /\ Window(body, None) = body
  BY TextAssumption DEF Position, Window
<1>2. /\ TrueSnippet(whole, body) /\ Legible(whole)
      /\ Hits(Lines(body)) # {} => Worded(whole)
  BY <1>1, SnippetIsTrue DEF Legible, Worded
<1>3. /\ TrueSnippet(near, body) /\ Legible(near)
      /\ Hits(Lines(window)) # {} => Worded(near)
  BY SnippetIsTrue DEF Legible, Worded
<1>4. \/ got = whole
      \/ got = near /\ ~(chunk = 0 /\ Hits(Lines(window)) = {}) /\ chunk # None
  <2>1. CASE chunk = None
    BY <2>1 DEF extract_snippet
  <2>2. CASE chunk # None
    <3>1. CASE extract_snippet(body, chunk) = SnippetAt(body, None)
      BY <3>1
    <3>2. CASE extract_snippet(body, chunk) # SnippetAt(body, None)
      BY <2>2, <3>2 DEF extract_snippet
    <3> QED
      BY <3>1, <3>2
  <2> QED
    BY <2>1, <2>2
<1>5. window \in Seq(Char)
  BY BestFacts
<1>6. Among(window, "x") => Among(body, "x")
  <2>1. PICK to \in Nat : /\ Start(chunk) \in Nat /\ Start(chunk) <= to /\ to <= Len(body)
                          /\ window = SubSeq(body, Start(chunk) + 1, to)
    BY WindowFacts
  <2> HIDE DEF window
  <2>2. \A i \in 1..Len(window) : window[i] = body[Start(chunk) + i] /\ Start(chunk) + i \in 1..Len(body)
    BY <2>1, PartOf
  <2> QED
    BY <2>2 DEF Among
<1> HIDE DEF window, whole, near, got
<1>7. /\ Among(window, "x") => Hits(Lines(window)) # {}
      /\ Among(body, "x") => Hits(Lines(body)) # {}
  BY <1>5, WordIsAHit
<1>8. Sought(body, chunk) <=> (Among(window, "x") \/ (chunk = 0 /\ Among(body, "x")))
  BY DEF Sought, window
<1>9. TrueSnippet(got, body) /\ Legible(got)
  <2>1. CASE got = whole
    BY <1>2, <2>1
  <2>2. CASE got = near
    BY <1>3, <2>2
  <2> QED
    BY <1>4, <2>1, <2>2
<1>10. ASSUME Sought(body, chunk)
       PROVE  Worded(got)
  <2>1. CASE got = whole
    BY <1>2, <1>6, <1>7, <1>8, <1>10, <2>1
  <2>2. CASE got = near /\ ~(chunk = 0 /\ Hits(Lines(window)) = {}) /\ chunk # None
    BY <1>3, <1>7, <1>8, <1>10, <2>2
  <2> QED
    BY <1>4, <2>1, <2>2
<1> QED
  BY <1>9, <1>10 DEF got

-----------------------------------------------------------------------------
(* Edit distance: the table exists.                                        *)

Places(a, b) == (0..Len(a)) \X (0..Len(b))
Entry(a, b, D, p) ==
  IF p[1] = 0 THEN p[2] ELSE IF p[2] = 0 THEN p[1]
  ELSE Cell(D[<<p[1] - 1, p[2]>>], D[<<p[1], p[2] - 1>>],
            D[<<p[1] - 1, p[2] - 1>>] + (IF a[p[1]] = b[p[2]] THEN 0 ELSE 1))

\* The table the code fills, row after row.
IsTable(a, b, D) == D = [p \in Places(a, b) |-> Entry(a, b, D, p)]

\* The three places an entry is computed from.
LEMMA PlacesBefore ==
  ASSUME NEW a \in Seq(Char), NEW b \in Seq(Char), NEW p \in Places(a, b)
  PROVE  /\ p[1] \in Nat /\ p[2] \in Nat /\ p = <<p[1], p[2]>> /\ p[1] + p[2] \in Nat
         /\ p[1] # 0 /\ p[2] # 0 =>
              \A q \in {<<p[1] - 1, p[2]>>, <<p[1], p[2] - 1>>, <<p[1] - 1, p[2] - 1>>} :
                q \in Places(a, b) /\ q[1] + q[2] \in Nat /\ q[1] + q[2] < p[1] + p[2]
<1>1. Len(a) \in Nat /\ Len(b) \in Nat
  OBVIOUS
<1>2. p[1] \in 0..Len(a) /\ p[2] \in 0..Len(b) /\ p = <<p[1], p[2]>>
  BY DEF Places
<1>3. ASSUME p[1] # 0, p[2] # 0
      PROVE  p[1] - 1 \in 0..Len(a) /\ p[2] - 1 \in 0..Len(b)
  BY <1>1, <1>2, <1>3
<1>4. ASSUME p[1] # 0, p[2] # 0,
             NEW q \in {<<p[1] - 1, p[2]>>, <<p[1], p[2] - 1>>, <<p[1] - 1, p[2] - 1>>}
      PROVE  q \in Places(a, b) /\ q[1] + q[2] \in Nat /\ q[1] + q[2] < p[1] + p[2]
  <2>1. q \in Places(a, b)
    BY <1>2, <1>3, <1>4 DEF Places
  <2>2. q[1] + q[2] \in Nat /\ q[1] + q[2] < p[1] + p[2]
    BY <1>1, <1>2, <1>3, <1>4
  <2> QED
    BY <2>1, <2>2
<1> QED
  BY <1>1, <1>2, <1>4

\* An entry is a number if those before it are, and depends on no other.
LEMMA EntryOfThree ==
  ASSUME NEW a \in Seq(Char), NEW b \in Seq(Char), NEW p \in Places(a, b), NEW D,
         \A q \in Places(a, b) : q[1] + q[2] < p[1] + p[2] => D[q] \in Nat
  PROVE  /\ Entry(a, b, D, p) \in Nat
         /\ \A E : (\A q \in Places(a, b) : q[1] + q[2] < p[1] + p[2] => D[q] = E[q])
                     => Entry(a, b, D, p) = Entry(a, b, E, p)
<1>1. /\ p[1] \in Nat /\ p[2] \in Nat
      /\ p[1] # 0 /\ p[2] # 0 =>
           \A q \in {<<p[1] - 1, p[2]>>, <<p[1], p[2] - 1>>, <<p[1] - 1, p[2] - 1>>} :
             q \in Places(a, b) /\ q[1] + q[2] \in Nat /\ q[1] + q[2] < p[1] + p[2]
  BY PlacesBefore
<1>2. CASE p[1] = 0 \/ p[2] = 0
  BY <1>1, <1>2 DEF Entry
<1>3. CASE p[1] # 0 /\ p[2] # 0
  <2>1. \A q \in {<<p[1] - 1, p[2]>>, <<p[1], p[2] - 1>>, <<p[1] - 1, p[2] - 1>>} :
          q \in Places(a, b) /\ q[1] + q[2] < p[1] + p[2] /\ D[q] \in Nat
    BY <1>1, <1>3
  <2> DEFINE up == D[<<p[1] - 1, p[2]>>]
             left == D[<<p[1], p[2] - 1>>]
             diagonal == D[<<p[1] - 1, p[2] - 1>>]
             cost == IF a[p[1]] = b[p[2]] THEN 0 ELSE 1
  <2>2. up \in Nat /\ left \in Nat /\ diagonal \in Nat /\ cost \in Nat
    BY <2>1
  <2>3. Entry(a, b, D, p) = Min({up + 1, left + 1, diagonal + cost})
    BY <1>3 DEF Entry, Cell
  <2> HIDE DEF up, left, diagonal, cost
  <2>4. up + 1 \in Nat /\ left + 1 \in Nat /\ diagonal + cost \in Nat
    BY <2>2
  <2>5. Entry(a, b, D, p) \in Nat
    <3>1. Min({up + 1, left + 1, diagonal + cost}) \in Nat
      BY <2>4, LeastOfThree
    <3> QED
      BY <2>3, <3>1
  <2>6. ASSUME NEW E, \A q \in Places(a, b) : q[1] + q[2] < p[1] + p[2] => D[q] = E[q]
        PROVE  Entry(a, b, D, p) = Entry(a, b, E, p)
    <3>1. /\ up = E[<<p[1] - 1, p[2]>>] /\ left = E[<<p[1], p[2] - 1>>]
          /\ diagonal = E[<<p[1] - 1, p[2] - 1>>]
      BY <2>1, <2>6 DEF up, left, diagonal
    <3>2. Entry(a, b, E, p) = Min({up + 1, left + 1, diagonal + cost})
      BY <1>3, <3>1 DEF Entry, Cell, cost
    <3> QED
      BY <2>3, <3>2
  <2> QED
    BY <2>5, <2>6
<1> QED
  BY <1>2, <1>3

\* A table that is right where the two lengths add up to s at most.
RightUpTo(s, a, b) ==
  \E D \in [Places(a, b) -> Nat] :
    \A p \in Places(a, b) : p[1] + p[2] <= s => D[p] = Entry(a, b, D, p)

LEMMA RightAtTheBeginning ==
  ASSUME NEW a \in Seq(Char), NEW b \in Seq(Char)
  PROVE  RightUpTo(0, a, b)
<1> DEFINE D == [p \in Places(a, b) |-> 0]
<1>1. D \in [Places(a, b) -> Nat]
  OBVIOUS
<1>2. ASSUME NEW p \in Places(a, b), p[1] + p[2] <= 0
      PROVE  D[p] = Entry(a, b, D, p)
  <2>1. p[1] \in Nat /\ p[2] \in Nat
    BY PlacesBefore
  <2>2. p[1] = 0 /\ p[2] = 0 /\ D[p] = 0
    BY <1>2, <2>1
  <2> QED
    BY <2>2 DEF Entry
<1> QED
  BY <1>1, <1>2 DEF RightUpTo

LEMMA RightOneFurther ==
  ASSUME NEW a \in Seq(Char), NEW b \in Seq(Char), NEW s \in Nat, RightUpTo(s, a, b)
  PROVE  RightUpTo(s + 1, a, b)
<1>1. PICK D \in [Places(a, b) -> Nat] :
        \A p \in Places(a, b) : p[1] + p[2] <= s => D[p] = Entry(a, b, D, p)
  BY DEF RightUpTo
<1> DEFINE E == [p \in Places(a, b) |-> IF p[1] + p[2] <= s THEN D[p] ELSE Entry(a, b, D, p)]
<1>2. \A p \in Places(a, b) : D[p] \in Nat /\ Entry(a, b, D, p) \in Nat
  <2> TAKE p \in Places(a, b)
  <2>1. \A q \in Places(a, b) : D[q] \in Nat
    OBVIOUS
  <2> QED
    BY <2>1, EntryOfThree
<1>3. E \in [Places(a, b) -> Nat]
  BY <1>2
<1>4. \A p \in Places(a, b) : p[1] + p[2] <= s => E[p] = D[p]
  OBVIOUS
<1>5. \A p \in Places(a, b) : E[p] = Entry(a, b, D, p)
  BY <1>1
<1> HIDE DEF E
<1>6. ASSUME NEW p \in Places(a, b), p[1] + p[2] <= s + 1
      PROVE  E[p] = Entry(a, b, E, p)
  <2>1. \A q \in Places(a, b) : q[1] \in Nat /\ q[2] \in Nat /\ D[q] \in Nat
    BY PlacesBefore
  <2>2. \A q \in Places(a, b) : q[1] + q[2] < p[1] + p[2] => D[q] = E[q]
    BY <1>4, <1>6, <2>1
  <2>3. \A q \in Places(a, b) : q[1] + q[2] < p[1] + p[2] => D[q] \in Nat
    BY <2>1
  <2>4. \A F : (\A q \in Places(a, b) : q[1] + q[2] < p[1] + p[2] => D[q] = F[q])
                => Entry(a, b, D, p) = Entry(a, b, F, p)
    BY <2>3, EntryOfThree, Zenon
  <2>5. Entry(a, b, D, p) = Entry(a, b, E, p)
    BY <2>2, <2>4
  <2> QED
    BY <1>5, <2>5
<1> QED
  BY <1>3, <1>6 DEF RightUpTo

LEMMA RightEverywhere ==
  ASSUME NEW a \in Seq(Char), NEW b \in Seq(Char), NEW s \in Nat
  PROVE  RightUpTo(s, a, b)
<1> DEFINE T == {n \in Nat : ~RightUpTo(n, a, b)}
<1>1. T \in SUBSET Nat
  OBVIOUS
<1>2. ASSUME T # {}
      PROVE  FALSE
  <2> HIDE DEF T
  <2>1. PICK n \in T : \A m \in T : n <= m
    BY <1>1, <1>2, LeastOf
  <2>2. n \in Nat /\ ~RightUpTo(n, a, b)
    BY <2>1 DEF T
  <2>3. n # 0
    BY <2>2, RightAtTheBeginning
  <2>4. n - 1 \in Nat /\ ~(n <= n - 1) /\ (n - 1) + 1 = n
    BY <2>2, <2>3
  <2>5. RightUpTo(n - 1, a, b)
    BY <2>1, <2>4 DEF T
  <2> QED
    BY <2>2, <2>4, <2>5, RightOneFurther
<1> QED
  BY <1>2

LEMMA TableExists ==
  ASSUME NEW a \in Seq(Char), NEW b \in Seq(Char)
  PROVE  \E D : IsTable(a, b, D)
<1>1. Len(a) \in Nat /\ Len(b) \in Nat /\ Len(a) + Len(b) \in Nat
  OBVIOUS
<1>2. PICK D \in [Places(a, b) -> Nat] :
        \A p \in Places(a, b) : p[1] + p[2] <= Len(a) + Len(b) => D[p] = Entry(a, b, D, p)
  BY <1>1, RightEverywhere DEF RightUpTo
<1>3. \A p \in Places(a, b) : p[1] + p[2] <= Len(a) + Len(b)
  BY <1>1 DEF Places
<1>4. D = [p \in Places(a, b) |-> Entry(a, b, D, p)]
  BY <1>2, <1>3
<1> QED
  BY <1>4 DEF IsTable

\* A table holds numbers only.
LEMMA TableOfNumbers ==
  ASSUME NEW a \in Seq(Char), NEW b \in Seq(Char), NEW D, IsTable(a, b, D)
  PROVE  \A p \in Places(a, b) : D[p] \in Nat /\ D[p] = Entry(a, b, D, p)
<1>1. \A p \in Places(a, b) : D[p] = Entry(a, b, D, p) /\ p[1] + p[2] \in Nat
  BY PlacesBefore DEF IsTable
<1> DEFINE W(n) == \E p \in Places(a, b) : n = p[1] + p[2] /\ D[p] \notin Nat
           T == {n \in Nat : W(n)}
<1>2. T \in SUBSET Nat
  OBVIOUS
<1>3. ASSUME T # {}
      PROVE  FALSE
  <2>1. \A n \in Nat : W(n) => n \in T
    OBVIOUS
  <2>2. \A n \in T : W(n)
    OBVIOUS
  <2> HIDE DEF T
  <2>3. PICK n \in T : \A m \in T : n <= m
    BY <1>2, <1>3, LeastOf
  <2>4. PICK p \in Places(a, b) : n = p[1] + p[2] /\ D[p] \notin Nat
    BY <2>2, <2>3
  <2>5. \A q \in Places(a, b) : q[1] + q[2] < p[1] + p[2] => D[q] \in Nat
    BY <1>1, <2>1, <2>3, <2>4
  <2>6. Entry(a, b, D, p) \in Nat
    BY <2>5, EntryOfThree
  <2> QED
    BY <1>1, <2>4, <2>6
<1> QED
  BY <1>1, <1>3

-----------------------------------------------------------------------------
(* Edit distance: what the table says.                                     *)

\* The first row and column count characters, every other entry is the least
\* of what a deletion, an insertion and a replacement make of its neighbours.
Cost(x, y) == IF x = y THEN 0 ELSE 1
Lawful(a, b, D) ==
  /\ \A i \in 0..Len(a), j \in 0..Len(b) : D[<<i, j>>] \in Nat
  /\ \A i \in 0..Len(a) : D[<<i, 0>>] = i
  /\ \A j \in 0..Len(b) : D[<<0, j>>] = j
  /\ \A i \in 0..Len(a) - 1, j \in 0..Len(b) - 1 :
       /\ D[<<i + 1, j + 1>>] <= D[<<i, j + 1>>] + 1
       /\ D[<<i + 1, j + 1>>] <= D[<<i + 1, j>>] + 1
       /\ D[<<i + 1, j + 1>>] <= D[<<i, j>>] + Cost(a[i + 1], b[j + 1])
       /\ D[<<i + 1, j + 1>>] \in {D[<<i, j + 1>>] + 1, D[<<i + 1, j>>] + 1,
                                   D[<<i, j>>] + Cost(a[i + 1], b[j + 1])}

LEMMA TableIsLawful ==
  ASSUME NEW a \in Seq(Char), NEW b \in Seq(Char), NEW D, IsTable(a, b, D)
  PROVE  Lawful(a, b, D)
<1>1. Len(a) \in Nat /\ Len(b) \in Nat
  OBVIOUS
<1>2. \A i \in 0..Len(a), j \in 0..Len(b) : <<i, j>> \in Places(a, b)
  BY DEF Places
<1>3. \A i \in 0..Len(a), j \in 0..Len(b) :
        D[<<i, j>>] \in Nat /\ D[<<i, j>>] = Entry(a, b, D, <<i, j>>)
  BY <1>2, TableOfNumbers
<1>4. \A i \in 0..Len(a) : D[<<i, 0>>] = i
  <2> TAKE i \in 0..Len(a)
  <2>1. 0 \in 0..Len(b) /\ D[<<i, 0>>] = Entry(a, b, D, <<i, 0>>)
    BY <1>1, <1>3
  <2> QED
    BY <2>1 DEF Entry
<1>5. \A j \in 0..Len(b) : D[<<0, j>>] = j
  <2> TAKE j \in 0..Len(b)
  <2>1. 0 \in 0..Len(a) /\ D[<<0, j>>] = Entry(a, b, D, <<0, j>>)
    BY <1>1, <1>3
  <2> QED
    BY <2>1 DEF Entry
<1>6. ASSUME NEW i \in 0..Len(a) - 1, NEW j \in 0..Len(b) - 1
      PROVE  /\ D[<<i + 1, j + 1>>] <= D[<<i, j + 1>>] + 1
             /\ D[<<i + 1, j + 1>>] <= D[<<i + 1, j>>] + 1
             /\ D[<<i + 1, j + 1>>] <= D[<<i, j>>] + Cost(a[i + 1], b[j + 1])
             /\ D[<<i + 1, j + 1>>] \in {D[<<i, j + 1>>] + 1, D[<<i + 1, j>>] + 1,
                                         D[<<i, j>>] + Cost(a[i + 1], b[j + 1])}
  <2>1. /\ i \in 0..Len(a) /\ i + 1 \in 0..Len(a) /\ i + 1 # 0 /\ (i + 1) - 1 = i
        /\ j \in 0..Len(b) /\ j + 1 \in 0..Len(b) /\ j + 1 # 0 /\ (j + 1) - 1 = j
    BY <1>1
  <2> DEFINE up == D[<<i, j + 1>>]
             left == D[<<i + 1, j>>]
             diagonal == D[<<i, j>>] + Cost(a[i + 1], b[j + 1])
  <2>2. up + 1 \in Nat /\ left + 1 \in Nat /\ diagonal \in Nat
    <3>1. Cost(a[i + 1], b[j + 1]) \in Nat
      BY DEF Cost
    <3>2. up \in Nat /\ left \in Nat /\ D[<<i, j>>] \in Nat
      BY <1>3, <2>1
    <3> HIDE DEF up, left
    <3>3. up + 1 \in Nat /\ left + 1 \in Nat
      BY <3>2
    <3>4. D[<<i, j>>] + Cost(a[i + 1], b[j + 1]) \in Nat
      BY <3>1, <3>2
    <3> QED
      BY <3>3, <3>4
  <2>3. D[<<i + 1, j + 1>>] = Entry(a, b, D, <<i + 1, j + 1>>)
    BY <1>3, <2>1
  <2>4. Entry(a, b, D, <<i + 1, j + 1>>) = Cell(up, left, diagonal)
    BY <2>1 DEF Entry, Cost
  <2>5. Cell(up, left, diagonal) = Min({up + 1, left + 1, diagonal})
    BY DEF Cell
  <2> HIDE DEF up, left, diagonal
  <2>6. LET x == D[<<i + 1, j + 1>>] IN
        x <= up + 1 /\ x <= left + 1 /\ x <= diagonal /\ x \in {up + 1, left + 1, diagonal}
    BY <2>2, <2>3, <2>4, <2>5, LeastOfThree
  <2> QED
    BY <2>6 DEF up, left, diagonal
<1> QED
  BY <1>3, <1>4, <1>5, <1>6 DEF Lawful

\* What holds at the edges of a grid, and at a place if it holds at the three
\* before it, holds everywhere.
LEMMA OverTheGrid ==
  ASSUME NEW m \in Nat, NEW n \in Nat, NEW S,
         \A i \in 0..m : <<i, 0>> \in S,
         \A j \in 0..n : <<0, j>> \in S,
         \A i \in 0..m - 1, j \in 0..n - 1 :
           <<i, j>> \in S /\ <<i + 1, j>> \in S /\ <<i, j + 1>> \in S => <<i + 1, j + 1>> \in S
  PROVE  \A i \in 0..m, j \in 0..n : <<i, j>> \in S
<1> DEFINE W(s) == \E i \in 0..m, j \in 0..n : s = i + j /\ <<i, j>> \notin S
           T == {s \in Nat : W(s)}
<1>1. T \in SUBSET Nat /\ (\A s \in Nat : W(s) => s \in T) /\ \A s \in T : W(s)
  OBVIOUS
<1> HIDE DEF T
<1>2. ASSUME T # {}
      PROVE  FALSE
  <2>1. PICK s \in T : \A r \in T : s <= r
    BY <1>1, <1>2, LeastOf
  <2>2. PICK i \in 0..m, j \in 0..n : s = i + j /\ <<i, j>> \notin S
    BY <1>1, <2>1
  <2>3. i # 0 /\ j # 0
    BY <2>2
  <2>4. PICK k \in 0..m - 1, l \in 0..n - 1 : i = k + 1 /\ j = l + 1
    <3>1. i - 1 \in 0..m - 1 /\ j - 1 \in 0..n - 1 /\ i = (i - 1) + 1 /\ j = (j - 1) + 1
      BY <2>3
    <3> QED
      BY <3>1
  <2>5. k + 1 \in 0..m /\ l + 1 \in 0..n /\ k \in 0..m /\ l \in 0..n
    OBVIOUS
  <2>6. \A u \in 0..m, v \in 0..n : u + v < s => <<u, v>> \in S
    <3> TAKE u \in 0..m, v \in 0..n
    <3>1. u + v \in Nat /\ s \in Nat /\ (u + v < s => ~(s <= u + v))
      BY <1>1, <2>1
    <3> QED
      BY <1>1, <2>1, <3>1
  <2>7. k + l < s /\ (k + 1) + l < s /\ k + (l + 1) < s
    BY <2>2, <2>4
  <2>8. <<k, l>> \in S /\ <<k + 1, l>> \in S /\ <<k, l + 1>> \in S
    BY <2>5, <2>6, <2>7
  <2> QED
    BY <2>2, <2>4, <2>8
<1> QED
  <2> TAKE i \in 0..m, j \in 0..n
  <2>1. i + j \in Nat
    OBVIOUS
  <2> QED
    BY <1>1, <1>2, <2>1

\* A distance is at least the difference of the lengths, and at most their sum.
LEMMA DistanceBounds ==
  ASSUME NEW a \in Seq(Char), NEW b \in Seq(Char), NEW D, Lawful(a, b, D)
  PROVE  \A i \in 0..Len(a), j \in 0..Len(b) :
           i <= D[<<i, j>>] + j /\ j <= D[<<i, j>>] + i /\ D[<<i, j>>] <= i + j
<1> DEFINE m == Len(a)
           n == Len(b)
           S == {p \in (0..m) \X (0..n) :
                   p[1] <= D[p] + p[2] /\ p[2] <= D[p] + p[1] /\ D[p] <= p[1] + p[2]}
<1>1. m \in Nat /\ n \in Nat
  OBVIOUS
<1> HIDE DEF m, n
<1>2. \A i \in 0..m, j \in 0..n :
        <<i, j>> \in S <=> i <= D[<<i, j>>] + j /\ j <= D[<<i, j>>] + i /\ D[<<i, j>>] <= i + j
  OBVIOUS
<1> HIDE DEF S
<1>3. \A i \in 0..m : <<i, 0>> \in S
  <2>1. 0 \in 0..n /\ \A i \in 0..m : D[<<i, 0>>] = i
    BY <1>1 DEF Lawful, m, n
  <2> TAKE i \in 0..m
  <2>2. D[<<i, 0>>] = i /\ i \in Nat
    BY <1>1, <2>1
  <2>3. <<i, 0>> \in S <=> i <= D[<<i, 0>>] + 0 /\ 0 <= D[<<i, 0>>] + i /\ D[<<i, 0>>] <= i + 0
    BY <1>2, <2>1
  <2> QED
    BY <2>2, <2>3
<1>4. \A j \in 0..n : <<0, j>> \in S
  <2>1. 0 \in 0..m /\ \A j \in 0..n : D[<<0, j>>] = j
    BY <1>1 DEF Lawful, m, n
  <2> TAKE j \in 0..n
  <2>2. D[<<0, j>>] = j /\ j \in Nat
    BY <1>1, <2>1
  <2>3. <<0, j>> \in S <=> 0 <= D[<<0, j>>] + j /\ j <= D[<<0, j>>] + 0 /\ D[<<0, j>>] <= 0 + j
    BY <1>2, <2>1
  <2> QED
    BY <2>2, <2>3
<1>5. ASSUME NEW i \in 0..m - 1, NEW j \in 0..n - 1,
             <<i, j>> \in S, <<i + 1, j>> \in S, <<i, j + 1>> \in S
      PROVE  <<i + 1, j + 1>> \in S
  <2>1. /\ i \in 0..m /\ i + 1 \in 0..m /\ j \in 0..n /\ j + 1 \in 0..n
    BY <1>1
  <2> DEFINE x == D[<<i + 1, j + 1>>]
             up == D[<<i, j + 1>>]
             left == D[<<i + 1, j>>]
             diagonal == D[<<i, j>>]
             c == Cost(a[i + 1], b[j + 1])
  <2>2. /\ x \in Nat /\ up \in Nat /\ left \in Nat /\ diagonal \in Nat
        /\ x <= up + 1 /\ x \in {up + 1, left + 1, diagonal + c}
    BY <2>1 DEF Lawful, m, n
  <2>3. c \in 0..1
    BY DEF Cost
  <2>4. /\ i <= up + (j + 1) /\ j + 1 <= up + i /\ up <= i + (j + 1)
        /\ i + 1 <= left + j /\ j <= left + (i + 1) /\ left <= (i + 1) + j
        /\ i <= diagonal + j /\ j <= diagonal + i /\ diagonal <= i + j
    BY <1>2, <1>5, <2>1
  <2> HIDE DEF x, up, left, diagonal, c
  <2>5. i + 1 <= x + (j + 1) /\ j + 1 <= x + (i + 1) /\ x <= (i + 1) + (j + 1)
    BY <2>1, <2>2, <2>3, <2>4
  <2> QED
    BY <1>2, <2>1, <2>5 DEF x
<1>6. \A i \in 0..m, j \in 0..n : <<i, j>> \in S
  BY <1>1, <1>3, <1>4, <1>5, OverTheGrid
<1> QED
  BY <1>2, <1>6 DEF m, n

\* Beginnings at distance 0 are equal.
LEMMA DistanceZero ==
  ASSUME NEW a \in Seq(Char), NEW b \in Seq(Char), NEW D, Lawful(a, b, D),
         D[<<Len(a), Len(b)>>] = 0
  PROVE  a = b
<1> DEFINE m == Len(a)
           n == Len(b)
           Same(i, j) == i = j /\ \A k \in 1..i : a[k] = b[k]
           S == {p \in (0..m) \X (0..n) : D[p] = 0 => Same(p[1], p[2])}
<1>1. m \in Nat /\ n \in Nat
  OBVIOUS
<1> HIDE DEF m, n
<1>2. \A i \in 0..m, j \in 0..n : <<i, j>> \in S <=> (D[<<i, j>>] = 0 => Same(i, j))
  OBVIOUS
<1> HIDE DEF S
<1>3. \A i \in 0..m : <<i, 0>> \in S
  <2>1. 0 \in 0..n /\ \A i \in 0..m : D[<<i, 0>>] = i
    BY <1>1 DEF Lawful, m, n
  <2> TAKE i \in 0..m
  <2>2. D[<<i, 0>>] = i /\ i \in Nat
    BY <1>1, <2>1
  <2>3. <<i, 0>> \in S <=> (D[<<i, 0>>] = 0 => Same(i, 0))
    BY <1>2, <2>1
  <2> QED
    BY <2>2, <2>3
<1>4. \A j \in 0..n : <<0, j>> \in S
  <2>1. 0 \in 0..m /\ \A j \in 0..n : D[<<0, j>>] = j
    BY <1>1 DEF Lawful, m, n
  <2> TAKE j \in 0..n
  <2>2. D[<<0, j>>] = j /\ j \in Nat
    BY <1>1, <2>1
  <2>3. <<0, j>> \in S <=> (D[<<0, j>>] = 0 => Same(0, j))
    BY <1>2, <2>1
  <2> QED
    BY <2>2, <2>3
<1>5. ASSUME NEW i \in 0..m - 1, NEW j \in 0..n - 1, <<i, j>> \in S
      PROVE  <<i + 1, j + 1>> \in S
  <2>1. /\ i \in 0..m /\ i + 1 \in 0..m /\ j \in 0..n /\ j + 1 \in 0..n
    BY <1>1
  <2>2. /\ D[<<i, j>>] \in Nat /\ D[<<i + 1, j>>] \in Nat /\ D[<<i, j + 1>>] \in Nat
        /\ D[<<i + 1, j + 1>>] \in {D[<<i, j + 1>>] + 1, D[<<i + 1, j>>] + 1,
                                    D[<<i, j>>] + Cost(a[i + 1], b[j + 1])}
    BY <2>1 DEF Lawful, m, n
  <2>3. ASSUME D[<<i + 1, j + 1>>] = 0
        PROVE  Same(i + 1, j + 1)
    <3>1. D[<<i, j>>] = 0 /\ a[i + 1] = b[j + 1]
      BY <2>2, <2>3 DEF Cost
    <3>2. i = j /\ \A k \in 1..i : a[k] = b[k]
      BY <1>2, <1>5, <2>1, <3>1
    <3>3. \A k \in 1..i + 1 : k \in 1..i \/ k = i + 1
      BY <2>1
    <3> QED
      BY <3>1, <3>2, <3>3
  <2> QED
    BY <1>2, <2>1, <2>3
<1>6. \A i \in 0..m, j \in 0..n : <<i, j>> \in S
  BY <1>1, <1>3, <1>4, <1>5, OverTheGrid
<1>7. m \in 0..m /\ n \in 0..n /\ D[<<m, n>>] = 0
  BY <1>1 DEF m, n
<1>8. Len(a) = Len(b) /\ \A k \in 1..Len(a) : a[k] = b[k]
  BY <1>2, <1>6, <1>7 DEF m, n
<1> QED
  BY <1>8

\* What is deleted one way is inserted the other.
LEMMA DistanceBothWays ==
  ASSUME NEW a \in Seq(Char), NEW b \in Seq(Char), NEW D, NEW E,
         Lawful(a, b, D), Lawful(b, a, E)
  PROVE  D[<<Len(a), Len(b)>>] = E[<<Len(b), Len(a)>>]
<1> DEFINE m == Len(a)
           n == Len(b)
           S == {p \in (0..m) \X (0..n) : D[p] = E[<<p[2], p[1]>>]}
<1>1. m \in Nat /\ n \in Nat
  OBVIOUS
<1> HIDE DEF m, n
<1>2. \A i \in 0..m, j \in 0..n : <<i, j>> \in S <=> D[<<i, j>>] = E[<<j, i>>]
  OBVIOUS
<1> HIDE DEF S
<1>3. \A i \in 0..m : <<i, 0>> \in S
  <2>1. 0 \in 0..n /\ \A i \in 0..m : D[<<i, 0>>] = i /\ E[<<0, i>>] = i
    BY <1>1 DEF Lawful, m, n
  <2> QED
    BY <1>1, <1>2, <2>1
<1>4. \A j \in 0..n : <<0, j>> \in S
  <2>1. 0 \in 0..m /\ \A j \in 0..n : D[<<0, j>>] = j /\ E[<<j, 0>>] = j
    BY <1>1 DEF Lawful, m, n
  <2> QED
    BY <1>1, <1>2, <2>1
<1>5. ASSUME NEW i \in 0..m - 1, NEW j \in 0..n - 1,
             <<i, j>> \in S, <<i + 1, j>> \in S, <<i, j + 1>> \in S
      PROVE  <<i + 1, j + 1>> \in S
  <2>1. /\ i \in 0..m /\ i + 1 \in 0..m /\ j \in 0..n /\ j + 1 \in 0..n
    BY <1>1
  <2> DEFINE c == Cost(a[i + 1], b[j + 1])
  <2>2. c \in 0..1 /\ c = Cost(b[j + 1], a[i + 1])
    BY DEF Cost
  <2> DEFINE x == D[<<i + 1, j + 1>>]
             y == E[<<j + 1, i + 1>>]
             up == D[<<i, j + 1>>]
             left == D[<<i + 1, j>>]
             diagonal == D[<<i, j>>]
  <2>3. /\ up \in Nat /\ left \in Nat /\ diagonal \in Nat
        /\ x \in Nat /\ x <= up + 1 /\ x <= left + 1 /\ x <= diagonal + c
        /\ x \in {up + 1, left + 1, diagonal + c}
    BY <2>1 DEF Lawful, m, n
  <2>4. diagonal = E[<<j, i>>] /\ left = E[<<j, i + 1>>] /\ up = E[<<j + 1, i>>]
    BY <1>2, <1>5, <2>1
  <2>5. /\ y \in Nat /\ y <= up + 1 /\ y <= left + 1 /\ y <= diagonal + c
        /\ y \in {up + 1, left + 1, diagonal + c}
    <3>1. /\ y \in Nat /\ y <= E[<<j, i + 1>>] + 1 /\ y <= E[<<j + 1, i>>] + 1
          /\ y <= E[<<j, i>>] + c
          /\ y \in {E[<<j, i + 1>>] + 1, E[<<j + 1, i>>] + 1, E[<<j, i>>] + c}
      BY <2>1, <2>2 DEF Lawful, m, n
    <3> HIDE DEF y, c, up, left, diagonal
    <3> QED
      BY <2>4, <3>1
  <2> HIDE DEF c, x, y, up, left, diagonal
  <2>6. x = y
    BY <2>2, <2>3, <2>5
  <2> QED
    BY <1>2, <2>1, <2>6 DEF x, y
<1>6. \A i \in 0..m, j \in 0..n : <<i, j>> \in S
  BY <1>1, <1>3, <1>4, <1>5, OverTheGrid
<1>7. m \in 0..m /\ n \in 0..n
  BY <1>1
<1> QED
  BY <1>2, <1>6, <1>7 DEF m, n

\* The same in three directions: at the faces of a box, and at a place if it
\* holds at the places before it.
LEMMA OverTheBox ==
  ASSUME NEW m \in Nat, NEW n \in Nat, NEW o \in Nat, NEW S,
         \A i \in 0..m, j \in 0..n, k \in 0..o :
           i = 0 \/ j = 0 \/ k = 0 => <<i, j, k>> \in S,
         \A i \in 0..m - 1, j \in 0..n - 1, k \in 0..o - 1 :
           /\ <<i, j + 1, k + 1>> \in S /\ <<i + 1, j + 1, k>> \in S /\ <<i + 1, j, k + 1>> \in S
           /\ <<i + 1, j, k>> \in S /\ <<i, j, k + 1>> \in S /\ <<i, j, k>> \in S
           => <<i + 1, j + 1, k + 1>> \in S
  PROVE  \A i \in 0..m, j \in 0..n, k \in 0..o : <<i, j, k>> \in S
<1> DEFINE W(s) == \E i \in 0..m, j \in 0..n, k \in 0..o : s = i + j + k /\ <<i, j, k>> \notin S
           T == {s \in Nat : W(s)}
<1>1. T \in SUBSET Nat /\ (\A s \in Nat : W(s) => s \in T) /\ \A s \in T : W(s)
  OBVIOUS
<1> HIDE DEF T
<1>2. ASSUME T # {}
      PROVE  FALSE
  <2>1. PICK s \in T : \A r \in T : s <= r
    BY <1>1, <1>2, LeastOf
  <2>2. PICK i \in 0..m, j \in 0..n, k \in 0..o : s = i + j + k /\ <<i, j, k>> \notin S
    BY <1>1, <2>1
  <2>3. i # 0 /\ j # 0 /\ k # 0
    BY <2>2
  <2>4. PICK u \in 0..m - 1, v \in 0..n - 1, w \in 0..o - 1 : i = u + 1 /\ j = v + 1 /\ k = w + 1
    <3>1. i - 1 \in 0..m - 1 /\ j - 1 \in 0..n - 1 /\ k - 1 \in 0..o - 1
      BY <2>3
    <3>2. i = (i - 1) + 1 /\ j = (j - 1) + 1 /\ k = (k - 1) + 1
      OBVIOUS
    <3> QED
      BY <3>1, <3>2
  <2>5. u \in 0..m /\ v \in 0..n /\ w \in 0..o
    OBVIOUS
  <2>6. \A x \in 0..m, y \in 0..n, z \in 0..o : x + y + z < s => <<x, y, z>> \in S
    <3> TAKE x \in 0..m, y \in 0..n, z \in 0..o
    <3>1. x + y + z \in Nat /\ s \in Nat /\ (x + y + z < s => ~(s <= x + y + z))
      BY <1>1, <2>1
    <3> QED
      BY <1>1, <2>1, <3>1
  <2>7. /\ u + j + k < s /\ i + j + w < s /\ i + v + k < s
        /\ i + v + w < s /\ u + v + k < s /\ u + v + w < s
    BY <2>2, <2>4
  <2>8. /\ <<u, j, k>> \in S /\ <<i, j, w>> \in S /\ <<i, v, k>> \in S
        /\ <<i, v, w>> \in S /\ <<u, v, k>> \in S /\ <<u, v, w>> \in S
    BY <2>5, <2>6, <2>7
  <2> QED
    BY <2>2, <2>4, <2>8
<1> QED
  <2> TAKE i \in 0..m, j \in 0..n, k \in 0..o
  <2>1. i + j + k \in Nat
    OBVIOUS
  <2> QED
    BY <1>1, <1>2, <2>1

\* One step on the way from a to c over b: d leads to b, e away from it.
LEMMA Detour ==
  ASSUME NEW d \in Nat, NEW dUp \in Nat, NEW dLeft \in Nat, NEW dDiagonal \in Nat,
         NEW e \in Nat, NEW eUp \in Nat, NEW eLeft \in Nat, NEW eDiagonal \in Nat,
         NEW f \in Nat, NEW fUp \in Nat, NEW fLeft \in Nat, NEW fDiagonal \in Nat,
         NEW ab \in Nat, NEW bc \in Nat, NEW ac \in Nat,
         d \in {dUp + 1, dLeft + 1, dDiagonal + ab},
         e \in {eUp + 1, eLeft + 1, eDiagonal + bc},
         f <= fUp + 1, f <= fLeft + 1, f <= fDiagonal + ac, ac <= ab + bc,
         fUp <= dUp + e, fLeft <= d + eLeft, f <= dLeft + eUp,
         fLeft <= dLeft + eDiagonal, fUp <= dDiagonal + eUp, fDiagonal <= dDiagonal + eDiagonal
  PROVE  f <= d + e
<1>1. CASE d = dUp + 1
  BY <1>1
<1>2. CASE e = eLeft + 1
  BY <1>2
<1>3. CASE d = dLeft + 1 /\ e = eUp + 1
  BY <1>3
<1>4. CASE d = dLeft + 1 /\ e = eDiagonal + bc
  BY <1>4
<1>5. CASE d = dDiagonal + ab /\ e = eUp + 1
  BY <1>5
<1>6. CASE d = dDiagonal + ab /\ e = eDiagonal + bc
  BY <1>6
<1> QED
  BY <1>1, <1>2, <1>3, <1>4, <1>5, <1>6

\* No detour is shorter.
LEMMA DistanceTriangle ==
  ASSUME NEW a \in Seq(Char), NEW b \in Seq(Char), NEW c \in Seq(Char),
         NEW D, NEW E, NEW F, Lawful(a, b, D), Lawful(b, c, E), Lawful(a, c, F)
  PROVE  F[<<Len(a), Len(c)>>] <= D[<<Len(a), Len(b)>>] + E[<<Len(b), Len(c)>>]
<1> DEFINE m == Len(a)
           n == Len(b)
           o == Len(c)
           S == {p \in (0..m) \X (0..n) \X (0..o) :
                   F[<<p[1], p[3]>>] <= D[<<p[1], p[2]>>] + E[<<p[2], p[3]>>]}
<1>1. m \in Nat /\ n \in Nat /\ o \in Nat
  OBVIOUS
<1>2. \A i \in 0..m, j \in 0..n, k \in 0..o :
        /\ <<i, j, k>> \in S <=> F[<<i, k>>] <= D[<<i, j>>] + E[<<j, k>>]
        /\ D[<<i, j>>] \in Nat /\ E[<<j, k>>] \in Nat /\ F[<<i, k>>] \in Nat
  BY DEF Lawful
<1>3. \A i \in 0..m, j \in 0..n, k \in 0..o :
        /\ i <= D[<<i, j>>] + j /\ j <= D[<<i, j>>] + i
        /\ j <= E[<<j, k>>] + k /\ k <= E[<<j, k>>] + j
        /\ F[<<i, k>>] <= i + k
  BY DistanceBounds
<1> HIDE DEF S, m, n, o
<1>4. ASSUME NEW i \in 0..m, NEW j \in 0..n, NEW k \in 0..o, i = 0 \/ j = 0 \/ k = 0
      PROVE  <<i, j, k>> \in S
  <2> DEFINE d == D[<<i, j>>]
             e == E[<<j, k>>]
             f == F[<<i, k>>]
  <2>1. /\ i = 0 => d = j /\ f = k
        /\ j = 0 => d = i /\ e = k
        /\ k = 0 => e = j /\ f = i
    BY DEF Lawful, m, n, o
  <2>2. /\ d \in Nat /\ e \in Nat /\ f \in Nat
        /\ i <= d + j /\ j <= d + i /\ j <= e + k /\ k <= e + j /\ f <= i + k
    BY <1>2, <1>3
  <2> HIDE DEF d, e, f
  <2>3. f <= d + e
    BY <1>4, <2>1, <2>2
  <2> QED
    BY <1>2, <2>3 DEF d, e, f
<1>5. ASSUME NEW i \in 0..m - 1, NEW j \in 0..n - 1, NEW k \in 0..o - 1,
             <<i, j + 1, k + 1>> \in S, <<i + 1, j + 1, k>> \in S, <<i + 1, j, k + 1>> \in S,
             <<i + 1, j, k>> \in S, <<i, j, k + 1>> \in S, <<i, j, k>> \in S
      PROVE  <<i + 1, j + 1, k + 1>> \in S
  <2>1. /\ i \in 0..m /\ i + 1 \in 0..m /\ j \in 0..n /\ j + 1 \in 0..n
        /\ k \in 0..o /\ k + 1 \in 0..o
    BY <1>1
  <2> DEFINE d == D[<<i + 1, j + 1>>]
             dUp == D[<<i, j + 1>>]
             dLeft == D[<<i + 1, j>>]
             dDiagonal == D[<<i, j>>]
             e == E[<<j + 1, k + 1>>]
             eUp == E[<<j, k + 1>>]
             eLeft == E[<<j + 1, k>>]
             eDiagonal == E[<<j, k>>]
             f == F[<<i + 1, k + 1>>]
             fUp == F[<<i, k + 1>>]
             fLeft == F[<<i + 1, k>>]
             fDiagonal == F[<<i, k>>]
             ab == Cost(a[i + 1], b[j + 1])
             bc == Cost(b[j + 1], c[k + 1])
             ac == Cost(a[i + 1], c[k + 1])
  <2>2. ab \in Nat /\ bc \in Nat /\ ac \in Nat /\ ac <= ab + bc
    BY DEF Cost
  <2>3. d \in {dUp + 1, dLeft + 1, dDiagonal + ab}
    BY <2>1 DEF Lawful, m, n
  <2>4. e \in {eUp + 1, eLeft + 1, eDiagonal + bc}
    BY <2>1 DEF Lawful, n, o
  <2>5. f <= fUp + 1 /\ f <= fLeft + 1 /\ f <= fDiagonal + ac
    BY <2>1 DEF Lawful, m, o
  <2>6. /\ d \in Nat /\ dUp \in Nat /\ dLeft \in Nat /\ dDiagonal \in Nat
        /\ e \in Nat /\ eUp \in Nat /\ eLeft \in Nat /\ eDiagonal \in Nat
        /\ f \in Nat /\ fUp \in Nat /\ fLeft \in Nat /\ fDiagonal \in Nat
    BY <1>2, <2>1
  <2>7. /\ fUp <= dUp + e /\ fLeft <= d + eLeft /\ f <= dLeft + eUp
        /\ fLeft <= dLeft + eDiagonal /\ fUp <= dDiagonal + eUp
        /\ fDiagonal <= dDiagonal + eDiagonal
    BY <1>2, <1>5, <2>1
  <2> HIDE DEF d, dUp, dLeft, dDiagonal, e, eUp, eLeft, eDiagonal, f, fUp, fLeft, fDiagonal,
               ab, bc, ac
  <2>8. f <= d + e
    BY <2>2, <2>3, <2>4, <2>5, <2>6, <2>7, Detour
  <2> QED
    BY <1>2, <2>1, <2>8 DEF d, e, f
<1>6. \A i \in 0..m, j \in 0..n, k \in 0..o : <<i, j, k>> \in S
  BY <1>1, <1>4, <1>5, OverTheBox
<1>7. m \in 0..m /\ n \in 0..n /\ o \in 0..o
  BY <1>1
<1> QED
  BY <1>2, <1>6, <1>7 DEF m, n, o

\* The distance is the last entry of a table.
LEMMA DistanceFromTable ==
  ASSUME NEW a \in Seq(Char), NEW b \in Seq(Char)
  PROVE  \E D : /\ Lawful(a, b, D)
                /\ levenshtein(a, b) = IF a = b THEN 0 ELSE D[<<Len(a), Len(b)>>]
<1> DEFINE T == CHOOSE D : IsTable(a, b, D)
<1>1. IsTable(a, b, T)
  BY TableExists
<1>2. Lawful(a, b, T)
  <2> HIDE DEF T
  <2> QED
    BY <1>1, TableIsLawful
<1>3. levenshtein(a, b) = IF a = b THEN 0 ELSE T[<<Len(a), Len(b)>>]
  BY DEF levenshtein, IsTable, Places, Entry
<1> HIDE DEF T
<1> QED
  BY <1>2, <1>3

LEMMA DistanceLaws ==
  ASSUME NEW a \in Seq(Char), NEW b \in Seq(Char), NEW c \in Seq(Char)
  PROVE  /\ levenshtein(a, c) \in Nat
         /\ (levenshtein(a, c) = 0) = (a = c)
         /\ levenshtein(a, c) = levenshtein(c, a)
         /\ levenshtein(a, c) <= levenshtein(a, b) + levenshtein(b, c)
<1>1. PICK D : /\ Lawful(a, b, D)
               /\ levenshtein(a, b) = IF a = b THEN 0 ELSE D[<<Len(a), Len(b)>>]
  BY DistanceFromTable
<1>2. PICK E : /\ Lawful(b, c, E)
               /\ levenshtein(b, c) = IF b = c THEN 0 ELSE E[<<Len(b), Len(c)>>]
  BY DistanceFromTable
<1>3. PICK F : /\ Lawful(a, c, F)
               /\ levenshtein(a, c) = IF a = c THEN 0 ELSE F[<<Len(a), Len(c)>>]
  BY DistanceFromTable
<1>4. PICK G : /\ Lawful(c, a, G)
               /\ levenshtein(c, a) = IF c = a THEN 0 ELSE G[<<Len(c), Len(a)>>]
  BY DistanceFromTable
<1>5. Len(a) \in 0..Len(a) /\ Len(b) \in 0..Len(b) /\ Len(c) \in 0..Len(c)
  OBVIOUS
<1>6. /\ levenshtein(a, b) \in Nat /\ levenshtein(b, c) \in Nat
      /\ levenshtein(a, c) \in Nat
  <2>1. D[<<Len(a), Len(b)>>] \in Nat /\ E[<<Len(b), Len(c)>>] \in Nat
        /\ F[<<Len(a), Len(c)>>] \in Nat
    BY <1>1, <1>2, <1>3, <1>5 DEF Lawful
  <2> QED
    BY <1>1, <1>2, <1>3, <2>1
<1>7. (levenshtein(a, c) = 0) = (a = c)
  BY <1>3, DistanceZero
<1>8. levenshtein(a, c) = levenshtein(c, a)
  BY <1>3, <1>4, DistanceBothWays
<1>9. levenshtein(a, c) <= levenshtein(a, b) + levenshtein(b, c)
  <2>1. CASE a = b \/ b = c \/ a = c
    BY <1>1, <1>2, <1>3, <1>6, <2>1
  <2>2. CASE a # b /\ b # c /\ a # c
    <3>1. F[<<Len(a), Len(c)>>] <= D[<<Len(a), Len(b)>>] + E[<<Len(b), Len(c)>>]
      BY <1>1, <1>2, <1>3, DistanceTriangle
    <3> QED
      BY <1>1, <1>2, <1>3, <2>2, <3>1
  <2> QED
    BY <2>1, <2>2
<1> QED
  BY <1>6, <1>7, <1>8, <1>9

-----------------------------------------------------------------------------
(* Scores.                                                                 *)

\* The expected files among the first m results.
HitSet(results, expected, m) ==
  {j \in 1..Len(expected) : \E i \in 1..Len(results) :
     i <= m /\ paths_match(results[i], expected[j])}

LEMMA HitsOfTheSet ==
  ASSUME NEW results \in Seq(Seq(STRING)), NEW expected \in Seq(Seq(STRING)), NEW m \in Nat
  PROVE  hits_within(results, expected, m) = Cardinality(HitSet(results, expected, m))
<1> DEFINE k == Min({m, Len(results)})
           shown == SubSeq(results, 1, k)
<1>1. Len(results) \in Nat
  OBVIOUS
<1>2. k \in Nat /\ k \in {m, Len(results)} /\ k <= m /\ k <= Len(results)
  BY <1>1, LesserOf
<1> HIDE DEF k
<1>3. Len(shown) = k /\ \A i \in 1..k : shown[i] = results[i]
  BY <1>1, <1>2
<1> HIDE DEF shown
<1>4. \A e : Matched(shown, e) <=> \E i \in 1..Len(results) : i <= m /\ paths_match(results[i], e)
  <2>1. \A i \in 1..Len(results) : i <= m <=> i \in 1..k
    BY <1>1, <1>2
  <2>2. \A i \in 1..k : i \in 1..Len(results)
    BY <1>1, <1>2
  <2> QED
    BY <1>3, <2>1, <2>2 DEF Matched
<1>5. {j \in 1..Len(expected) : Matched(shown, expected[j])} = HitSet(results, expected, m)
  BY <1>4 DEF HitSet
<1> QED
  BY <1>5 DEF hits_within, shown, k

\* Hits are at most the expected files, and grow with the results counted.
LEMMA HitsGrow ==
  ASSUME NEW results \in Seq(Seq(STRING)), NEW expected \in Seq(Seq(STRING)),
         NEW m \in Nat, NEW o \in Nat, m <= o \/ Len(results) <= o
  PROVE  /\ hits_within(results, expected, m) \in Nat
         /\ hits_within(results, expected, o) \in Nat
         /\ hits_within(results, expected, m) <= hits_within(results, expected, o)
         /\ hits_within(results, expected, o) <= Len(expected)
<1> DEFINE few == HitSet(results, expected, m)
           many == HitSet(results, expected, o)
<1>1. Len(expected) \in Nat /\ Len(results) \in Nat
  OBVIOUS
<1>2. IsFiniteSet(1..Len(expected)) /\ Cardinality(1..Len(expected)) = Len(expected)
  <2>1. ASSUME NEW n \in Nat
        PROVE  IsFiniteSet(1..n) /\ Cardinality(1..n) = n
    BY FS_Interval
  <2> QED
    BY <1>1, <2>1
<1>3. many \in SUBSET (1..Len(expected)) /\ few \in SUBSET many
  BY <1>1 DEF HitSet
<1> HIDE DEF few, many
<1>4. IsFiniteSet(many) /\ Cardinality(many) <= Len(expected)
  BY <1>2, <1>3, FS_Subset
<1>5. IsFiniteSet(few) /\ Cardinality(few) <= Cardinality(many)
  BY <1>3, <1>4, FS_Subset
<1>6. Cardinality(few) \in Nat /\ Cardinality(many) \in Nat
  BY <1>4, <1>5, FS_CardinalityType
<1> QED
  BY <1>4, <1>5, <1>6, HitsOfTheSet DEF few, many

\* More hits than results counted: one of the results counts for two.
LEMMA MoreHitsThanResults ==
  ASSUME NEW results \in Seq(Seq(STRING)), NEW expected \in Seq(Seq(STRING)),
         NEW m \in Nat, hits_within(results, expected, m) > m
  PROVE  \E i \in 1..Len(results), j, k \in 1..Len(expected) :
           j # k /\ paths_match(results[i], expected[j]) /\ paths_match(results[i], expected[k])
<1> DEFINE H == HitSet(results, expected, m)
           F == [j \in H |-> CHOOSE i \in 1..Len(results) :
                                i <= m /\ paths_match(results[i], expected[j])]
<1>1. Len(expected) \in Nat /\ Len(results) \in Nat
  OBVIOUS
<1>2. IsFiniteSet(1..Len(expected)) /\ H \in SUBSET (1..Len(expected))
  BY <1>1, FS_Interval DEF HitSet
<1>3. IsFiniteSet(H) /\ Cardinality(H) \in Nat
  <2> HIDE DEF H
  <2> QED
    BY <1>2, FS_Subset, FS_CardinalityType
<1>4. IsFiniteSet(1..m) /\ Cardinality(1..m) = m
  BY FS_Interval
<1>5. Cardinality(1..m) < Cardinality(H)
  BY <1>3, <1>4, HitsOfTheSet
<1>6. \A j \in H : /\ F[j] \in 1..Len(results) /\ F[j] \in 1..m
                   /\ paths_match(results[F[j]], expected[j])
  <2> TAKE j \in H
  <2>1. \E i \in 1..Len(results) : i <= m /\ paths_match(results[i], expected[j])
    BY DEF HitSet
  <2>2. /\ F[j] \in 1..Len(results) /\ F[j] <= m
        /\ paths_match(results[F[j]], expected[j])
    BY <2>1
  <2> QED
    BY <1>1, <2>2
<1>7. F \in [H -> 1..m]
  BY <1>6
<1> HIDE DEF F, H
<1>8. \E x, y \in H : x # y /\ F[x] = F[y]
  BY <1>3, <1>4, <1>5, <1>7, FS_PigeonHole
<1>9. PICK x \in H, y \in H : x # y /\ F[x] = F[y]
  BY <1>8
<1>10. x \in 1..Len(expected) /\ y \in 1..Len(expected)
  BY <1>2
<1> QED
  BY <1>6, <1>9, <1>10

\* A right result is one that counts.
LEMMA AnyRightResult ==
  ASSUME NEW results \in Seq(Seq(STRING)), NEW expected \in Seq(Seq(STRING))
  PROVE  hits_within(results, expected, Len(results)) > 0 <=>
           {i \in 1..Len(results) :
              \E j \in 1..Len(expected) : paths_match(results[i], expected[j])} # {}
<1> DEFINE H == HitSet(results, expected, Len(results))
<1>1. Len(expected) \in Nat /\ Len(results) \in Nat
  OBVIOUS
<1>2. IsFiniteSet(1..Len(expected)) /\ H \in SUBSET (1..Len(expected))
  BY <1>1, FS_Interval DEF HitSet
<1> DEFINE R == {i \in 1..Len(results) :
                   \E j \in 1..Len(expected) : paths_match(results[i], expected[j])}
<1>3. H # {} <=> R # {}
  <2>1. \A i \in 1..Len(results) : i <= Len(results)
    BY <1>1
  <2>2. H # {} <=> \E i \in 1..Len(results), j \in 1..Len(expected) :
                     paths_match(results[i], expected[j])
    BY <2>1 DEF HitSet
  <2>3. R # {} <=> \E i \in 1..Len(results), j \in 1..Len(expected) :
                     paths_match(results[i], expected[j])
    OBVIOUS
  <2> QED
    BY <2>2, <2>3
<1> HIDE DEF H
<1>4. Cardinality(H) \in Nat /\ (Cardinality(H) = 0 <=> H = {})
  BY <1>2, FS_Subset, FS_CardinalityType, FS_EmptySet
<1>5. hits_within(results, expected, Len(results)) = Cardinality(H)
  BY <1>1, HitsOfTheSet DEF H
<1> QED
  BY <1>3, <1>4, <1>5

\* Fractions are in order if their numerators are, the denominator being the
\* same, and at most 1 if the numerator is not the larger number.
LEMMA RatioType ==
  ASSUME NEW n \in Nat, NEW d \in Nat
  PROVE  /\ Ratio(n, d)[1] \in Nat /\ Ratio(n, d)[2] \in Nat \ {0}
         /\ Ratio(n, d)[1] > 0 <=> n > 0 /\ d > 0
         /\ n <= d => AtMost(Ratio(n, d), <<1, 1>>)
BY DEF Ratio, AtMost

LEMMA RatiosInOrder ==
  ASSUME NEW n \in Nat, NEW o \in Nat, NEW d \in Nat, n <= o
  PROVE  AtMost(Ratio(n, d), Ratio(o, d))
<1>1. CASE d = 0
  BY <1>1 DEF Ratio, AtMost
<1>2. CASE d # 0
  <2>1. n * d <= o * d
    <3>1. PICK k \in Nat : o = n + k
      <4>1. o - n \in Nat /\ o = n + (o - n)
        OBVIOUS
      <4> QED
        BY <4>1
    <3>2. o * d = n * d + k * d /\ k * d \in Nat /\ n * d \in Nat
      BY <3>1
    <3> QED
      BY <3>2
  <2> QED
    BY <1>2, <2>1 DEF Ratio, AtMost
<1> QED
  BY <1>1, <1>2

\* A product grows with its factors.
LEMMA ProductGrows ==
  ASSUME NEW x \in Nat, NEW y \in Nat, NEW z \in Nat, x <= y
  PROVE  x * z \in Nat /\ y * z \in Nat /\ x * z <= y * z /\ z * x <= z * y
<1>1. PICK k \in Nat : y = x + k
  <2>1. y - x \in Nat /\ y = x + (y - x)
    OBVIOUS
  <2> QED
    BY <2>1
<1>2. y * z = x * z + k * z /\ k * z \in Nat /\ x * z \in Nat /\ z * y = z * x + z * k
      /\ z * k \in Nat /\ z * x \in Nat
  BY <1>1
<1> QED
  BY <1>2

\* The harmonic mean of two fractions p1/p2 <= r1/r2 is between them.
LEMMA MeanOfTwo ==
  ASSUME NEW p1 \in Nat, NEW p2 \in Nat, NEW r1 \in Nat, NEW r2 \in Nat, p1 * r2 <= r1 * p2
  PROVE  /\ p1 * (p1 * r2 + r1 * p2) <= (2 * p1 * r1) * p2
         /\ (2 * p1 * r1) * r2 <= r1 * (p1 * r2 + r1 * p2)
<1> DEFINE x == p1 * r2
           y == r1 * p2
<1>1. x \in Nat /\ y \in Nat /\ x <= y
  OBVIOUS
<1>2. /\ p1 * (p1 * r2 + r1 * p2) = p1 * (x + y) /\ (2 * p1 * r1) * p2 = p1 * (y + y)
  <2>1. (2 * p1 * r1) * p2 = 2 * (p1 * (r1 * p2)) /\ p1 * (y + y) = 2 * (p1 * y)
    OBVIOUS
  <2> QED
    BY <2>1
<1>3. (2 * p1 * r1) * r2 = r1 * (x + x) /\ r1 * (p1 * r2 + r1 * p2) = r1 * (x + y)
  <2>1. (2 * p1 * r1) * r2 = 2 * (r1 * (p1 * r2)) /\ r1 * (x + x) = 2 * (r1 * x)
    OBVIOUS
  <2> QED
    BY <2>1
<1> HIDE DEF x, y
<1>4. x + y \in Nat /\ y + y \in Nat /\ x + x \in Nat /\ x + y <= y + y /\ x + x <= x + y
  BY <1>1
<1>5. p1 * (x + y) <= p1 * (y + y) /\ r1 * (x + x) <= r1 * (x + y)
  BY <1>4, ProductGrows
<1> QED
  BY <1>2, <1>3, <1>5

LEMMA MeanInBetween ==
  ASSUME NEW p1 \in Nat, NEW p2 \in Nat \ {0}, NEW r1 \in Nat, NEW r2 \in Nat \ {0},
         p1 * r2 <= r1 * p2
  PROVE  /\ AtMost(<<p1, p2>>, Harmonic(<<p1, p2>>, <<r1, r2>>))
         /\ AtMost(Harmonic(<<p1, p2>>, <<r1, r2>>), <<r1, r2>>)
<1> DEFINE num == 2 * p1 * r1
           den == p1 * r2 + r1 * p2
<1>1. num \in Nat /\ den \in Nat
  OBVIOUS
<1>2. Harmonic(<<p1, p2>>, <<r1, r2>>) = IF den = 0 THEN <<0, 1>> ELSE <<num, den>>
  BY DEF Harmonic, Ratio
<1>3. p1 * den <= num * p2 /\ num * r2 <= r1 * den
  BY MeanOfTwo
<1>4. den = 0 => p1 = 0
  <2>1. p1 * r2 \in Nat /\ r1 * p2 \in Nat /\ (p1 > 0 => p1 * r2 > 0)
    OBVIOUS
  <2> QED
    BY <2>1
<1> HIDE DEF num, den
<1>5. CASE den = 0
  <2>1. Harmonic(<<p1, p2>>, <<r1, r2>>) = <<0, 1>> /\ p1 = 0
    BY <1>2, <1>4, <1>5
  <2> QED
    BY <2>1 DEF AtMost
<1>6. CASE den # 0
  <2>1. Harmonic(<<p1, p2>>, <<r1, r2>>) = <<num, den>>
    BY <1>2, <1>6
  <2> QED
    BY <1>3, <2>1 DEF AtMost
<1> QED
  BY <1>5, <1>6

\* It does not matter which of the two is first.
LEMMA MeanBothWays ==
  ASSUME NEW p1 \in Nat, NEW p2 \in Nat, NEW r1 \in Nat, NEW r2 \in Nat
  PROVE  Harmonic(<<p1, p2>>, <<r1, r2>>) = Harmonic(<<r1, r2>>, <<p1, p2>>)
<1>1. 2 * p1 * r1 = 2 * r1 * p1 /\ p1 * r2 + r1 * p2 = r1 * p2 + p1 * r2
  OBVIOUS
<1> QED
  BY <1>1 DEF Harmonic

\* The mean of two fractions, whichever is the lower.
Between(f, p, r) ==
  LET low == IF AtMost(p, r) THEN p ELSE r
      high == IF low = p THEN r ELSE p
  IN AtMost(low, f) /\ AtMost(f, high)

LEMMA MeanOfFractions ==
  ASSUME NEW p1 \in Nat, NEW p2 \in Nat \ {0}, NEW r1 \in Nat, NEW r2 \in Nat \ {0}
  PROVE  Between(Harmonic(<<p1, p2>>, <<r1, r2>>), <<p1, p2>>, <<r1, r2>>)
<1> DEFINE p == <<p1, p2>>
           r == <<r1, r2>>
           low == IF AtMost(p, r) THEN p ELSE r
           high == IF low = p THEN r ELSE p
<1>1. /\ AtMost(p, r) <=> p1 * r2 <= r1 * p2
      /\ p1 * r2 \in Nat /\ r1 * p2 \in Nat /\ AtMost(p, p)
  BY DEF AtMost
<1>2. CASE AtMost(p, r)
  <2>1. low = p /\ high = r
    BY <1>2
  <2>2. AtMost(p, Harmonic(p, r)) /\ AtMost(Harmonic(p, r), r)
    BY <1>1, <1>2, MeanInBetween
  <2> QED
    BY <2>1, <2>2 DEF Between
<1>3. CASE ~AtMost(p, r)
  <2>1. low = r /\ high = p
    BY <1>1, <1>3
  <2>2. r1 * p2 <= p1 * r2
    BY <1>1, <1>3
  <2>3. AtMost(r, Harmonic(r, p)) /\ AtMost(Harmonic(r, p), p)
    BY <2>2, MeanInBetween
  <2>4. Harmonic(r, p) = Harmonic(p, r)
    BY MeanBothWays
  <2> QED
    BY <2>1, <2>3, <2>4 DEF Between
<1> QED
  BY <1>2, <1>3

\* What a score is made of.
IsScore(m, results, expected, k) ==
  LET n == Len(expected)
      right == {i \in 1..Len(results) : \E j \in 1..n : paths_match(results[i], expected[j])}
  IN /\ m.precision = Ratio(hits_within(results, expected, k), Min({k, n}))
     /\ m.recall = Ratio(hits_within(results, expected, Len(results)), n)
     /\ m.recall_at[1] = Ratio(hits_within(results, expected, 1), n)
     /\ m.recall_at[3] = Ratio(hits_within(results, expected, 3), n)
     /\ m.recall_at[5] = Ratio(hits_within(results, expected, 5), n)
     /\ m.mrr = IF right = {} THEN <<0, 1>> ELSE <<1, Min(right)>>
     /\ m.f1 = Harmonic(m.precision, m.recall)

LEMMA ScoreFields ==
  ASSUME NEW results, NEW expected, NEW k
  PROVE  IsScore(score_results(results, expected, k), results, expected, k)
BY DEF score_results, IsScore

\* What is promised of a score.
Honest(m, results, expected) ==
  LET low == IF AtMost(m.precision, m.recall) THEN m.precision ELSE m.recall
      high == IF low = m.precision THEN m.recall ELSE m.precision IN
  /\ AtMost(m.recall_at[1], m.recall_at[3]) /\ AtMost(m.recall_at[3], m.recall_at[5])
  /\ AtMost(m.recall_at[5], m.recall) /\ AtMost(m.recall, <<1, 1>>)
  /\ AtMost(low, m.f1) /\ AtMost(m.f1, high)
  /\ (m.mrr[1] > 0) = (m.recall[1] > 0)
  /\ \/ AtMost(m.precision, <<1, 1>>)
     \/ \E i \in 1..Len(results), j, k \in 1..Len(expected) :
          j # k /\ paths_match(results[i], expected[j])
                /\ paths_match(results[i], expected[k])

LEMMA ScoreIsHonest ==
  ASSUME NEW results \in Seq(Seq(STRING)), NEW expected \in Seq(Seq(STRING)), NEW top \in Nat
  PROVE  Honest(score_results(results, expected, top), results, expected)
<1> DEFINE n == Len(expected)
           L == Len(results)
           hitsAt1 == hits_within(results, expected, 1)
           hitsAt3 == hits_within(results, expected, 3)
           hitsAt5 == hits_within(results, expected, 5)
           hitsAtAll == hits_within(results, expected, L)
           hitsAtTop == hits_within(results, expected, top)
           cut == Min({top, n})
           right == {i \in 1..L : \E j \in 1..n : paths_match(results[i], expected[j])}
           m == score_results(results, expected, top)
<1>1. n \in Nat /\ L \in Nat
  OBVIOUS
<1>2. ASSUME NEW o \in Nat, NEW q \in Nat, o <= q \/ Len(results) <= q
      PROVE  /\ hits_within(results, expected, o) \in Nat
             /\ hits_within(results, expected, o) <= hits_within(results, expected, q)
             /\ hits_within(results, expected, q) <= n
  BY <1>2, HitsGrow
<1>3. /\ hitsAt1 \in Nat /\ hitsAt3 \in Nat /\ hitsAt5 \in Nat /\ hitsAtAll \in Nat
      /\ hitsAtTop \in Nat /\ hitsAtAll <= n /\ hitsAtTop <= n
      /\ hitsAt1 <= hitsAt3 /\ hitsAt3 <= hitsAt5 /\ hitsAt5 <= hitsAtAll
  <2>1. hitsAt1 \in Nat /\ hitsAt1 <= hitsAt3
    BY <1>2
  <2>2. hitsAt3 \in Nat /\ hitsAt3 <= hitsAt5
    BY <1>2
  <2>3. hitsAt5 \in Nat /\ hitsAt5 <= hitsAtAll
    BY <1>1, <1>2
  <2>4. hitsAtAll \in Nat /\ hitsAtAll <= n
    BY <1>1, <1>2
  <2>5. hitsAtTop \in Nat /\ hitsAtTop <= n
    BY <1>1, <1>2
  <2> QED
    BY <2>1, <2>2, <2>3, <2>4, <2>5
<1>4. cut \in Nat /\ cut \in {top, n}
  BY <1>1, LesserOf
<1>5. hitsAtTop <= cut \/ \E i \in 1..L, j, k \in 1..n :
        j # k /\ paths_match(results[i], expected[j]) /\ paths_match(results[i], expected[k])
  <2>1. CASE cut = n
    BY <1>3, <2>1
  <2>2. CASE cut = top /\ hitsAtTop > top
    BY <2>2, MoreHitsThanResults
  <2>3. CASE cut = top /\ ~(hitsAtTop > top)
    BY <1>3, <2>3
  <2> QED
    BY <1>4, <2>1, <2>2, <2>3
<1>6. hitsAtAll > 0 <=> right # {}
  BY AnyRightResult
<1>7. right # {} => n > 0
  BY <1>1
<1>8. /\ m.precision = Ratio(hitsAtTop, cut)
      /\ m.recall = Ratio(hitsAtAll, n)
      /\ m.recall_at[1] = Ratio(hitsAt1, n) /\ m.recall_at[3] = Ratio(hitsAt3, n)
      /\ m.recall_at[5] = Ratio(hitsAt5, n)
      /\ m.mrr = IF right = {} THEN <<0, 1>> ELSE <<1, Min(right)>>
      /\ m.f1 = Harmonic(m.precision, m.recall)
  <2>1. IsScore(m, results, expected, top)
    BY ScoreFields
  <2> HIDE DEF m
  <2> QED
    BY <2>1 DEF IsScore
<1> HIDE DEF n, L, hitsAt1, hitsAt3, hitsAt5, hitsAtAll, hitsAtTop, cut, right, m
<1>9. /\ AtMost(m.recall_at[1], m.recall_at[3]) /\ AtMost(m.recall_at[3], m.recall_at[5])
      /\ AtMost(m.recall_at[5], m.recall)
  <2>1. /\ AtMost(Ratio(hitsAt1, n), Ratio(hitsAt3, n))
        /\ AtMost(Ratio(hitsAt3, n), Ratio(hitsAt5, n))
        /\ AtMost(Ratio(hitsAt5, n), Ratio(hitsAtAll, n))
    BY <1>1, <1>3, RatiosInOrder
  <2> QED
    BY <1>8, <2>1
<1>10. AtMost(m.recall, <<1, 1>>)
  BY <1>1, <1>3, <1>8, RatioType
<1>11. (m.mrr[1] > 0) = (m.recall[1] > 0)
  <2>1. m.recall[1] > 0 <=> hitsAtAll > 0 /\ n > 0
    BY <1>1, <1>3, <1>8, RatioType
  <2>2. m.mrr[1] > 0 <=> right # {}
    BY <1>8
  <2> QED
    BY <1>6, <1>7, <2>1, <2>2
<1>12. \/ AtMost(m.precision, <<1, 1>>)
       \/ \E i \in 1..L, j, k \in 1..n :
            j # k /\ paths_match(results[i], expected[j]) /\ paths_match(results[i], expected[k])
  <2>1. hitsAtTop <= cut => AtMost(m.precision, <<1, 1>>)
    BY <1>3, <1>4, <1>8, RatioType
  <2> QED
    BY <1>5, <2>1
<1>13. Between(m.f1, m.precision, m.recall)
  <2>1. PICK p1 \in Nat, p2 \in Nat \ {0} : m.precision = <<p1, p2>>
    BY <1>3, <1>4, <1>8 DEF Ratio
  <2>2. PICK r1 \in Nat, r2 \in Nat \ {0} : m.recall = <<r1, r2>>
    BY <1>1, <1>3, <1>8 DEF Ratio
  <2>3. m.f1 = Harmonic(<<p1, p2>>, <<r1, r2>>)
    BY <1>8, <2>1, <2>2
  <2> QED
    BY <2>1, <2>2, <2>3, MeanOfFractions
<1>14. Honest(m, results, expected)
  BY <1>9, <1>10, <1>11, <1>12, <1>13 DEF Honest, Between, n, L
<1> QED
  BY <1>14 DEF m

-----------------------------------------------------------------------------
(* Induction, on the set of the numbers a statement holds of.              *)

LEMMA FromZero ==
  ASSUME NEW n \in Nat, NEW T, 0 \in T, \A m \in 0..n - 1 : m \in T => m + 1 \in T
  PROVE  \A m \in 0..n : m \in T
<1> DEFINE U == {m \in 0..n : m \notin T}
<1>1. U \in SUBSET Nat
  OBVIOUS
<1>2. ASSUME U # {}
      PROVE  FALSE
  <2>1. Min(U) \in U /\ \A m \in U : Min(U) <= m
    BY <1>1, <1>2, LeastOf
  <2>2. Min(U) \in 0..n /\ Min(U) \notin T
    BY <2>1
  <2>3. PICK m \in 0..n - 1 : Min(U) = m + 1
    <3>1. Min(U) # 0
      BY <2>2
    <3>2. Min(U) - 1 \in 0..n - 1 /\ Min(U) = (Min(U) - 1) + 1
      BY <2>2, <3>1
    <3> QED
      BY <3>2
  <2>4. m \notin T
    BY <2>2, <2>3
  <2>5. m \in U
    BY <2>3, <2>4
  <2> QED
    BY <2>1, <2>3, <2>5
<1> QED
  BY <1>2

LEMMA FromBelow ==
  ASSUME NEW T, \A m \in Nat : (\A k \in Nat : k < m => k \in T) => m \in T
  PROVE  \A m \in Nat : m \in T
<1> DEFINE U == {m \in Nat : m \notin T}
<1>1. U \in SUBSET Nat
  OBVIOUS
<1>2. ASSUME U # {}
      PROVE  FALSE
  <2>1. Min(U) \in U /\ \A m \in U : Min(U) <= m
    BY <1>1, <1>2, LeastOf
  <2> DEFINE least == Min(U)
  <2> HIDE DEF least
  <2>2. least \in Nat /\ least \notin T
    BY <2>1 DEF least
  <2>3. \A k \in Nat : k < least => k \in T
    BY <2>1 DEF least
  <2> QED
    BY <2>2, <2>3
<1> QED
  BY <1>2

-----------------------------------------------------------------------------
(* Flattening, which is a recursive function on the places of a sequence.  *)

IsFlat(ss, m, f) ==
  f = [i \in 1..m |-> IF i = 1 THEN ss[i] ELSE f[i - 1] \o ss[i]]

FlatUpTo(S, ss, m) == \E f \in [1..m -> Seq(S)] : IsFlat(ss, m, f)

LEMMA FlatExists ==
  ASSUME NEW S, NEW ss \in Seq(Seq(S))
  PROVE  \E f \in [1..Len(ss) -> Seq(S)] : IsFlat(ss, Len(ss), f)
<1> DEFINE n == Len(ss)
           T == {m \in 0..n : FlatUpTo(S, ss, m)}
<1>1. n \in Nat /\ \A i \in 1..n : ss[i] \in Seq(S)
  OBVIOUS
<1>2. 0 \in T
  <2> DEFINE f == [i \in 1..0 |-> <<>>]
  <2>1. f \in [1..0 -> Seq(S)] /\ IsFlat(ss, 0, f)
    BY DEF IsFlat
  <2> HIDE DEF f
  <2>2. FlatUpTo(S, ss, 0)
    BY <2>1 DEF FlatUpTo
  <2> QED
    BY <1>1, <2>2
<1>3. ASSUME NEW m \in 0..n - 1, m \in T
      PROVE  m + 1 \in T
  <2>1. PICK f \in [1..m -> Seq(S)] : IsFlat(ss, m, f)
    BY <1>3 DEF FlatUpTo
  <2> DEFINE g == [i \in 1..m + 1 |-> IF i <= m THEN f[i]
                                       ELSE IF m = 0 THEN ss[1] ELSE f[m] \o ss[m + 1]]
  <2>2. ss[m + 1] \in Seq(S) /\ m \in Nat /\ m + 1 \in 0..n
    BY <1>1
  <2>3. m # 0 => f[m] \o ss[m + 1] \in Seq(S)
    <3>1. m # 0 => f[m] \in Seq(S)
      BY <2>2
    <3> QED
      BY <2>2, <3>1
  <2>4. g \in [1..m + 1 -> Seq(S)]
    BY <2>2, <2>3
  <2>5. ASSUME NEW i \in 1..m + 1
        PROVE  g[i] = IF i = 1 THEN ss[i] ELSE g[i - 1] \o ss[i]
    <3>1. CASE i <= m
      <4>1. i \in 1..m /\ (i # 1 => i - 1 \in 1..m)
        BY <2>2, <3>1
      <4>2. f[i] = IF i = 1 THEN ss[i] ELSE f[i - 1] \o ss[i]
        BY <2>1, <4>1 DEF IsFlat
      <4>3. g[i] = f[i] /\ (i # 1 => g[i - 1] = f[i - 1])
        <5>1. i # 1 => i - 1 \in 1..m + 1 /\ i - 1 <= m
          BY <2>2, <4>1
        <5> QED
          BY <2>2, <3>1, <5>1
      <4> HIDE DEF g
      <4> QED
        BY <4>2, <4>3
    <3>2. CASE i = m + 1
      <4>1. i - 1 = m
        BY <2>2, <3>2
      <4> QED
        BY <2>2, <3>2, <4>1
    <3> QED
      BY <2>2, <3>1, <3>2
  <2> HIDE DEF g
  <2>6. IsFlat(ss, m + 1, g)
    BY <2>4, <2>5 DEF IsFlat
  <2> QED
    BY <2>2, <2>4, <2>6 DEF FlatUpTo
<1> HIDE DEF T
<1>4. \A m \in 0..n : m \in T
  BY <1>1, <1>2, <1>3, FromZero
<1> QED
  BY <1>1, <1>4 DEF T, FlatUpTo

LEMMA FlatUnique ==
  ASSUME NEW ss, NEW n \in Nat, NEW f, NEW g, IsFlat(ss, n, f), IsFlat(ss, n, g)
  PROVE  f = g
<1>1. \A i \in 1..n : /\ f[i] = IF i = 1 THEN ss[i] ELSE f[i - 1] \o ss[i]
                      /\ g[i] = IF i = 1 THEN ss[i] ELSE g[i - 1] \o ss[i]
  BY DEF IsFlat
<1> DEFINE T == {m \in 0..n : m = 0 \/ f[m] = g[m]}
<1>2. 0 \in T
  OBVIOUS
<1>3. ASSUME NEW m \in 0..n - 1, m \in T
      PROVE  m + 1 \in T
  <2>1. m + 1 \in 1..n /\ (m + 1) - 1 = m
    OBVIOUS
  <2>2. f[m + 1] = g[m + 1]
    BY <1>1, <1>3, <2>1
  <2> QED
    BY <2>1, <2>2
<1>4. \A m \in 0..n : m \in T
  <2> HIDE DEF T
  <2> QED
    BY <1>2, <1>3, FromZero
<1>5. \A i \in 1..n : f[i] = g[i]
  BY <1>4
<1> DEFINE F == [i \in 1..n |-> f[i]]
           G == [i \in 1..n |-> g[i]]
<1>6. f = F /\ g = G
  BY DEF IsFlat
<1>7. F = G
  BY <1>5
<1> QED
  BY <1>6, <1>7

\* The function the definition chooses is this one.
LEMMA FlatOf ==
  ASSUME NEW S, NEW ss \in Seq(Seq(S)), NEW f, IsFlat(ss, Len(ss), f)
  PROVE  FlattenSeq(ss) = IF Len(ss) = 0 THEN <<>> ELSE f[Len(ss)]
<1> DEFINE F == CHOOSE g : IsFlat(ss, Len(ss), g)
<1>1. IsFlat(ss, Len(ss), F)
  BY FlatExists
<1>2. F = f
  <2> HIDE DEF F
  <2>1. Len(ss) \in Nat
    OBVIOUS
  <2> QED
    BY <1>1, <2>1, FlatUnique
<1>3. FlattenSeq(ss) = IF Len(ss) = 0 THEN ss ELSE F[Len(ss)]
  BY DEF FlattenSeq, IsFlat
<1>4. Len(ss) = 0 => ss = <<>>
  OBVIOUS
<1> HIDE DEF F
<1> QED
  BY <1>2, <1>3, <1>4

LEMMA FlatEmpty == FlattenSeq(<<>>) = <<>>
BY DEF FlattenSeq

LEMMA FlatType ==
  ASSUME NEW S, NEW ss \in Seq(Seq(S))
  PROVE  FlattenSeq(ss) \in Seq(S)
<1>1. PICK f \in [1..Len(ss) -> Seq(S)] : IsFlat(ss, Len(ss), f)
  BY FlatExists
<1>2. FlattenSeq(ss) = IF Len(ss) = 0 THEN <<>> ELSE f[Len(ss)]
  BY <1>1, FlatOf
<1>3. Len(ss) \in Nat /\ <<>> \in Seq(S)
  OBVIOUS
<1>4. Len(ss) # 0 => f[Len(ss)] \in Seq(S)
  <2>1. Len(ss) # 0 => Len(ss) \in 1..Len(ss)
    BY <1>3
  <2> QED
    BY <2>1
<1> QED
  BY <1>2, <1>3, <1>4

\* The last piece comes last.
LEMMA FlatAppend ==
  ASSUME NEW S, NEW ss \in Seq(Seq(S)), NEW t \in Seq(S)
  PROVE  FlattenSeq(Append(ss, t)) = FlattenSeq(ss) \o t
<1> DEFINE n == Len(ss)
           uu == Append(ss, t)
<1>1. n \in Nat /\ uu \in Seq(Seq(S)) /\ Len(uu) = n + 1 /\ uu[n + 1] = t
      /\ \A i \in 1..n : uu[i] = ss[i]
  BY AppendProperties
<1> HIDE DEF uu
<1>2. PICK f \in [1..Len(uu) -> Seq(S)] : IsFlat(uu, Len(uu), f)
  BY <1>1, FlatExists
<1>3. \A i \in 1..n + 1 : f[i] = IF i = 1 THEN uu[i] ELSE f[i - 1] \o uu[i]
  BY <1>1, <1>2 DEF IsFlat
<1> DEFINE g == [i \in 1..n |-> f[i]]
<1>4. ASSUME NEW i \in 1..n
      PROVE  g[i] = IF i = 1 THEN ss[i] ELSE g[i - 1] \o ss[i]
  <2>1. i \in 1..n + 1 /\ (i # 1 => i - 1 \in 1..n)
    BY <1>1
  <2> QED
    BY <1>1, <1>3, <2>1
<1>5. IsFlat(ss, n, g)
  <2>1. DOMAIN g = 1..n /\ g = [i \in 1..n |-> g[i]]
    OBVIOUS
  <2> HIDE DEF g
  <2> QED
    BY <1>4, <2>1 DEF IsFlat
<1>6. FlattenSeq(ss) = IF n = 0 THEN <<>> ELSE g[n]
  <2> HIDE DEF g
  <2> QED
    BY <1>5, FlatOf
<1>7. FlattenSeq(uu) = f[n + 1]
  <2>1. FlattenSeq(uu) = IF Len(uu) = 0 THEN <<>> ELSE f[Len(uu)]
    BY <1>1, <1>2, FlatOf
  <2> QED
    BY <1>1, <2>1
<1>8. CASE n = 0
  <2>1. f[n + 1] = t
    BY <1>1, <1>3, <1>8
  <2>2. <<>> \o t = t
    BY ConcatEmptySeq
  <2> QED
    BY <1>6, <1>7, <1>8, <2>1, <2>2 DEF uu
<1>9. CASE n # 0
  <2>1. n + 1 \in 1..n + 1 /\ n + 1 # 1 /\ (n + 1) - 1 = n /\ n \in 1..n
    BY <1>1, <1>9
  <2>2. f[n + 1] = f[n] \o t
    BY <1>1, <1>3, <2>1
  <2> QED
    BY <1>6, <1>7, <1>9, <2>1, <2>2 DEF uu
<1> QED
  BY <1>8, <1>9

\* A function on the first naturals is a sequence.
LEMMA FunctionSeq ==
  ASSUME NEW n \in Nat, NEW S, NEW f \in [1..n -> S]
  PROVE  f \in Seq(S) /\ Len(f) = n
OBVIOUS

\* The beginnings of a sequence.
LEMMA Beginnings ==
  ASSUME NEW S, NEW s \in Seq(S)
  PROVE  /\ Len(s) \in Nat /\ SubSeq(s, 1, 0) = <<>> /\ SubSeq(s, 1, Len(s)) = s
         /\ \A m \in 0..Len(s) : SubSeq(s, 1, m) \in Seq(S) /\ Len(SubSeq(s, 1, m)) = m
         /\ \A m \in 0..Len(s) - 1 : SubSeq(s, 1, m + 1) = Append(SubSeq(s, 1, m), s[m + 1])
<1>1. Len(s) \in Nat /\ \A i \in 1..Len(s) : s[i] \in S
  OBVIOUS
<1>2. SubSeq(s, 1, 0) = <<>> /\ SubSeq(s, 1, Len(s)) = s
  BY SubSeqEmpty, SubSeqFull
<1>3. ASSUME NEW m \in 0..Len(s)
      PROVE  SubSeq(s, 1, m) \in Seq(S) /\ Len(SubSeq(s, 1, m)) = m
  <2>1. \A i \in 1..m : s[i] \in S
    BY <1>1
  <2>2. m \in Int /\ 1 \in Int
    BY <1>1
  <2>3. SubSeq(s, 1, m) \in Seq(S) /\ Len(SubSeq(s, 1, m)) = IF 1 <= m THEN m - 1 + 1 ELSE 0
    BY <2>1, <2>2, SubSeqProperties
  <2> QED
    BY <1>1, <2>3
<1>4. ASSUME NEW m \in 0..Len(s) - 1
      PROVE  SubSeq(s, 1, m + 1) = Append(SubSeq(s, 1, m), s[m + 1])
  <2>1. m + 1 \in 1..Len(s) /\ (m + 1) - 1 = m /\ 1 \in 1..Len(s) /\ m \in 0..Len(s)
    BY <1>1
  <2>2. SubSeq(s, 1, m + 1) = SubSeq(s, 1, m) \o <<s[m + 1]>>
    <3>1. m + 1 \in 1..Len(s)
      BY <2>1
    <3>2. \A k \in 1..Len(s) : SubSeq(s, 1, k) = SubSeq(s, 1, k - 1) \o <<s[k]>>
      BY <2>1, SubSeqRecursiveSecond
    <3> QED
      BY <2>1, <3>2
  <2>3. Append(SubSeq(s, 1, m), s[m + 1]) = SubSeq(s, 1, m) \o <<s[m + 1]>>
    BY <1>1, <1>3, <2>1, AppendIsConcat
  <2> QED
    BY <2>2, <2>3
<1> QED
  BY <1>1, <1>2, <1>3, <1>4

LEMMA ConcatAppend ==
  ASSUME NEW S, NEW a \in Seq(S), NEW b \in Seq(S), NEW x \in S
  PROVE  a \o Append(b, x) = Append(a \o b, x)
<1>1. b \o <<x>> = Append(b, x) /\ (a \o b) \o <<x>> = Append(a \o b, x)
  <2>1. a \o b \in Seq(S)
    BY ConcatProperties
  <2> QED
    BY <2>1, AppendIsConcat
<1>2. <<x>> \in Seq(S)
  OBVIOUS
<1> QED
  BY <1>1, <1>2, ConcatAssociative

LEMMA FlatOne ==
  ASSUME NEW S, NEW t \in Seq(S)
  PROVE  FlattenSeq(<<t>>) = t
<1>1. <<>> \in Seq(Seq(S)) /\ Append(<<>>, t) = <<t>> /\ <<>> \o t = t
  BY ConcatEmptySeq
<1>2. FlattenSeq(Append(<<>>, t)) = FlattenSeq(<<>>) \o t
  BY <1>1, FlatAppend
<1> QED
  BY <1>1, <1>2, FlatEmpty

\* What holds of the empty sequence, and of one with a member more, holds of all.
LEMMA FromEmpty ==
  ASSUME NEW S, NEW T, <<>> \in T, \A s \in Seq(S) : \A x \in S : s \in T => Append(s, x) \in T
  PROVE  \A s \in Seq(S) : s \in T
<1> TAKE s \in Seq(S)
<1> DEFINE n == Len(s)
           U == {m \in 0..n : SubSeq(s, 1, m) \in T}
<1>1. /\ n \in Nat /\ SubSeq(s, 1, 0) = <<>> /\ SubSeq(s, 1, n) = s
      /\ \A m \in 0..n : SubSeq(s, 1, m) \in Seq(S)
      /\ \A m \in 0..n - 1 : SubSeq(s, 1, m + 1) = Append(SubSeq(s, 1, m), s[m + 1])
  BY Beginnings
<1>2. 0 \in U
  <2>1. 0 \in 0..n /\ SubSeq(s, 1, 0) \in T
    <3>1. 0 \in 0..n
      BY <1>1
    <3>2. SubSeq(s, 1, 0) = <<>>
      BY <1>1
    <3>3. SubSeq(s, 1, 0) \in T
      BY <3>2, Zenon
    <3> QED
      BY <3>1, <3>3
  <2> HIDE DEF n
  <2> QED
    BY <2>1
<1>3. ASSUME NEW m \in 0..n - 1, m \in U
      PROVE  m + 1 \in U
  <2>1. m + 1 \in 1..n /\ m + 1 \in 0..n /\ m \in 0..n
    BY <1>1
  <2>2. s[m + 1] \in S
    BY <2>1
  <2>3. SubSeq(s, 1, m) \in Seq(S) /\ SubSeq(s, 1, m) \in T
    BY <1>1, <1>3, <2>1
  <2>4. Append(SubSeq(s, 1, m), s[m + 1]) \in T
    BY <2>2, <2>3
  <2> QED
    BY <1>1, <2>1, <2>4
<1> HIDE DEF U
<1>4. \A m \in 0..n : m \in U
  BY <1>1, <1>2, <1>3, FromZero
<1>5. n \in U
  BY <1>1, <1>4
<1> QED
  BY <1>1, <1>5 DEF U

LEMMA FlatConcat ==
  ASSUME NEW S, NEW a \in Seq(Seq(S)), NEW b \in Seq(Seq(S))
  PROVE  FlattenSeq(a \o b) = FlattenSeq(a) \o FlattenSeq(b)
<1> DEFINE T == {c \in Seq(Seq(S)) : FlattenSeq(a \o c) = FlattenSeq(a) \o FlattenSeq(c)}
<1>1. <<>> \in T
  <2>1. FlattenSeq(a) \in Seq(S)
    BY FlatType
  <2>2. a \o <<>> = a /\ FlattenSeq(a) \o <<>> = FlattenSeq(a)
    BY <2>1, ConcatEmptySeq
  <2>3. FlattenSeq(a \o <<>>) = FlattenSeq(a) \o FlattenSeq(<<>>)
    BY <2>2, FlatEmpty
  <2>4. <<>> \in Seq(Seq(S))
    OBVIOUS
  <2> QED
    BY <2>3, <2>4
<1>2. ASSUME NEW c \in Seq(Seq(S)), NEW x \in Seq(S), c \in T
      PROVE  Append(c, x) \in T
  <2>1. FlattenSeq(a \o c) = FlattenSeq(a) \o FlattenSeq(c)
    BY <1>2
  <2>2. a \o c \in Seq(Seq(S)) /\ Append(c, x) \in Seq(Seq(S))
    BY ConcatProperties, AppendProperties
  <2>3. a \o Append(c, x) = Append(a \o c, x)
    <3> DEFINE SS == Seq(S)
    <3>1. a \in Seq(SS) /\ c \in Seq(SS) /\ x \in SS
      OBVIOUS
    <3> HIDE DEF SS
    <3> QED
      BY <3>1, ConcatAppend
  <2>4. FlattenSeq(Append(a \o c, x)) = FlattenSeq(a \o c) \o x
    BY <2>2, FlatAppend
  <2>5. FlattenSeq(Append(c, x)) = FlattenSeq(c) \o x
    BY FlatAppend
  <2>6. (FlattenSeq(a) \o FlattenSeq(c)) \o x = FlattenSeq(a) \o (FlattenSeq(c) \o x)
    <3>1. FlattenSeq(a) \in Seq(S) /\ FlattenSeq(c) \in Seq(S)
      BY FlatType
    <3> DEFINE fa == FlattenSeq(a)
               fc == FlattenSeq(c)
    <3> HIDE DEF fa, fc
    <3>2. fa \in Seq(S) /\ fc \in Seq(S)
      BY <3>1 DEF fa, fc
    <3>3. (fa \o fc) \o x = fa \o (fc \o x)
      BY <3>2, ConcatAssociative
    <3> QED
      BY <3>3 DEF fa, fc
  <2>7. FlattenSeq(a \o Append(c, x)) = FlattenSeq(a) \o FlattenSeq(Append(c, x))
    BY <2>1, <2>3, <2>4, <2>5, <2>6
  <2> QED
    BY <2>2, <2>7
<1> HIDE DEF T
<1>3. \A c \in Seq(Seq(S)) : c \in T
  <2> DEFINE SS == Seq(S)
  <2>1. \A c \in Seq(SS) : \A x \in SS : c \in T => Append(c, x) \in T
    BY <1>2
  <2> HIDE DEF SS
  <2>2. \A c \in Seq(SS) : c \in T
    BY <1>1, <2>1, FromEmpty
  <2> QED
    BY <2>2 DEF SS
<1> QED
  BY <1>3 DEF T

\* Flattening twice.
Flats(ss) == [i \in 1..Len(ss) |-> FlattenSeq(ss[i])]

LEMMA FlatsType ==
  ASSUME NEW S, NEW ss \in Seq(Seq(Seq(S)))
  PROVE  /\ Flats(ss) \in Seq(Seq(S)) /\ Len(Flats(ss)) = Len(ss)
         /\ \A i \in 1..Len(ss) : Flats(ss)[i] = FlattenSeq(ss[i])
<1>1. Len(ss) \in Nat /\ \A i \in 1..Len(ss) : ss[i] \in Seq(Seq(S))
  OBVIOUS
<1>2. \A i \in 1..Len(ss) : FlattenSeq(ss[i]) \in Seq(S)
  BY <1>1, FlatType
<1>3. Flats(ss) \in [1..Len(ss) -> Seq(S)]
  BY <1>2 DEF Flats
<1>4. \A i \in 1..Len(ss) : Flats(ss)[i] = FlattenSeq(ss[i])
  BY DEF Flats
<1>5. Flats(ss) \in Seq(Seq(S)) /\ Len(Flats(ss)) = Len(ss)
  BY <1>1, <1>3, FunctionSeq
<1> QED
  BY <1>4, <1>5

LEMMA FlatsAppend ==
  ASSUME NEW S, NEW c \in Seq(Seq(Seq(S))), NEW x \in Seq(Seq(S))
  PROVE  Flats(Append(c, x)) = Append(Flats(c), FlattenSeq(x))
<1> DEFINE d == Append(c, x)
           e == Append(Flats(c), FlattenSeq(x))
<1>1. /\ d \in Seq(Seq(Seq(S))) /\ Len(d) = Len(c) + 1 /\ d[Len(c) + 1] = x
      /\ \A i \in 1..Len(c) : d[i] = c[i]
  BY AppendProperties
<1>2. /\ Flats(c) \in Seq(Seq(S)) /\ Len(Flats(c)) = Len(c) /\ FlattenSeq(x) \in Seq(S)
      /\ \A i \in 1..Len(c) : Flats(c)[i] = FlattenSeq(c[i])
  BY FlatsType, FlatType
<1>3. /\ e \in Seq(Seq(S)) /\ Len(e) = Len(c) + 1 /\ e[Len(c) + 1] = FlattenSeq(x)
      /\ \A i \in 1..Len(c) : e[i] = Flats(c)[i]
  BY <1>2, AppendProperties
<1> HIDE DEF d, e
<1>4. /\ Flats(d) \in Seq(Seq(S)) /\ Len(Flats(d)) = Len(d)
      /\ \A i \in 1..Len(d) : Flats(d)[i] = FlattenSeq(d[i])
  BY <1>1, FlatsType
<1>5. \A i \in 1..Len(c) + 1 : Flats(d)[i] = e[i]
  <2> TAKE i \in 1..Len(c) + 1
  <2>1. Len(c) \in Nat
    OBVIOUS
  <2>2. i \in 1..Len(c) \/ i = Len(c) + 1
    BY <2>1
  <2>3. Flats(d)[i] = FlattenSeq(d[i])
    BY <1>1, <1>4
  <2> QED
    BY <1>1, <1>2, <1>3, <2>2, <2>3
<1>6. Flats(d) = e
  BY <1>1, <1>3, <1>4, <1>5, SeqEqual
<1> QED
  BY <1>6 DEF d, e

LEMMA FlatOfFlat ==
  ASSUME NEW S, NEW ss \in Seq(Seq(Seq(S)))
  PROVE  FlattenSeq(FlattenSeq(ss)) = FlattenSeq(Flats(ss))
<1> DEFINE T == {c \in Seq(Seq(Seq(S))) : FlattenSeq(FlattenSeq(c)) = FlattenSeq(Flats(c))}
<1>1. <<>> \in T
  <2>1. <<>> \in Seq(Seq(Seq(S)))
    OBVIOUS
  <2>2. Flats(<<>>) = <<>>
    BY DEF Flats
  <2>3. FlattenSeq(FlattenSeq(<<>>)) = FlattenSeq(Flats(<<>>))
    BY <2>2, FlatEmpty
  <2> QED
    BY <2>1, <2>3
<1>2. ASSUME NEW c \in Seq(Seq(Seq(S))), NEW x \in Seq(Seq(S)), c \in T
      PROVE  Append(c, x) \in T
  <2>1. FlattenSeq(FlattenSeq(c)) = FlattenSeq(Flats(c))
    BY <1>2
  <2>2. Append(c, x) \in Seq(Seq(Seq(S))) /\ FlattenSeq(c) \in Seq(Seq(S))
    BY FlatType, AppendProperties
  <2>3. FlattenSeq(Append(c, x)) = FlattenSeq(c) \o x
    BY FlatAppend
  <2>4. FlattenSeq(FlattenSeq(c) \o x) = FlattenSeq(FlattenSeq(c)) \o FlattenSeq(x)
    BY <2>2, FlatConcat
  <2>5. Flats(Append(c, x)) = Append(Flats(c), FlattenSeq(x))
    BY FlatsAppend
  <2>6. FlattenSeq(Append(Flats(c), FlattenSeq(x))) = FlattenSeq(Flats(c)) \o FlattenSeq(x)
    <3>1. Flats(c) \in Seq(Seq(S)) /\ FlattenSeq(x) \in Seq(S)
      BY FlatsType, FlatType
    <3> QED
      BY <3>1, FlatAppend
  <2>7. FlattenSeq(FlattenSeq(Append(c, x))) = FlattenSeq(Flats(Append(c, x)))
    BY <2>1, <2>3, <2>4, <2>5, <2>6
  <2> QED
    BY <2>2, <2>7
<1> HIDE DEF T
<1>3. \A c \in Seq(Seq(Seq(S))) : c \in T
  <2> DEFINE SS == Seq(Seq(S))
  <2>1. \A c \in Seq(SS) : \A x \in SS : c \in T => Append(c, x) \in T
    BY <1>2
  <2> HIDE DEF SS
  <2>2. \A c \in Seq(SS) : c \in T
    BY <1>1, <2>1, FromEmpty
  <2> QED
    BY <2>2 DEF SS
<1> QED
  BY <1>3 DEF T

-----------------------------------------------------------------------------
(* Filters.                                                                *)

\* What a sequence has of a set.
Kept(s, K) == Only(s, {i \in 1..Len(s) : s[i] \in K})
Parts(s, K) == [i \in 1..Len(s) |-> IF s[i] \in K THEN <<s[i]>> ELSE <<>>]

LEMMA KeptFromParts ==
  ASSUME NEW S, NEW s \in Seq(S), NEW K
  PROVE  /\ Kept(s, K) = FlattenSeq(Parts(s, K))
         /\ Parts(s, K) \in Seq(Seq(S)) /\ Len(Parts(s, K)) = Len(s)
         /\ Kept(s, K) \in Seq(S)
<1>1. Len(s) \in Nat /\ \A i \in 1..Len(s) : s[i] \in S
  OBVIOUS
<1>2. \A i \in 1..Len(s) : (IF s[i] \in K THEN <<s[i]>> ELSE <<>>) \in Seq(S)
  BY <1>1
<1>3. Parts(s, K) \in [1..Len(s) -> Seq(S)]
  BY <1>2 DEF Parts
<1>4. Parts(s, K) \in Seq(Seq(S)) /\ Len(Parts(s, K)) = Len(s)
  BY <1>1, <1>3
<1>5. Kept(s, K) = FlattenSeq(Parts(s, K))
  <2> DEFINE I == {i \in 1..Len(s) : s[i] \in K}
             P == [i \in 1..Len(s) |-> IF i \in I THEN <<s[i]>> ELSE <<>>]
  <2>1. P = Parts(s, K)
    BY DEF Parts
  <2>2. Kept(s, K) = FlattenSeq(P)
    BY DEF Kept, Only
  <2> HIDE DEF P
  <2> QED
    BY <2>1, <2>2
<1> QED
  BY <1>4, <1>5, FlatType

LEMMA KeptEmpty == \A K : Kept(<<>>, K) = <<>>
<1> TAKE K
<1>1. Parts(<<>>, K) = <<>>
  BY DEF Parts
<1>2. <<>> \in Seq({})
  OBVIOUS
<1>3. Kept(<<>>, K) = FlattenSeq(Parts(<<>>, K))
  BY <1>2, KeptFromParts
<1> QED
  BY <1>1, <1>3, FlatEmpty

LEMMA KeptAppend ==
  ASSUME NEW S, NEW a \in Seq(S), NEW x \in S, NEW K
  PROVE  Kept(Append(a, x), K) = IF x \in K THEN Append(Kept(a, K), x) ELSE Kept(a, K)
<1> DEFINE b == Append(a, x)
           y == IF x \in K THEN <<x>> ELSE <<>>
<1>1. b \in Seq(S) /\ Len(b) = Len(a) + 1 /\ b[Len(a) + 1] = x /\ \A i \in 1..Len(a) : b[i] = a[i]
  BY AppendProperties
<1>2. y \in Seq(S) /\ y = IF x \in K THEN <<x>> ELSE <<>>
  OBVIOUS
<1> HIDE DEF b, y
<1>3. /\ Kept(a, K) = FlattenSeq(Parts(a, K)) /\ Parts(a, K) \in Seq(Seq(S))
      /\ Len(Parts(a, K)) = Len(a) /\ Kept(a, K) \in Seq(S)
  BY KeptFromParts
<1>4. /\ Kept(b, K) = FlattenSeq(Parts(b, K)) /\ Parts(b, K) \in Seq(Seq(S))
      /\ Len(Parts(b, K)) = Len(a) + 1
  BY <1>1, KeptFromParts
<1> DEFINE pa == Parts(a, K)
           pb == Parts(b, K)
<1>5. \A i \in 1..Len(a) : pa[i] = IF a[i] \in K THEN <<a[i]>> ELSE <<>>
  BY DEF Parts
<1>6. \A i \in 1..Len(a) + 1 : pb[i] = IF b[i] \in K THEN <<b[i]>> ELSE <<>>
  BY <1>1 DEF Parts
<1>7. pa \in Seq(Seq(S)) /\ Len(pa) = Len(a) /\ pb \in Seq(Seq(S)) /\ Len(pb) = Len(a) + 1
  BY <1>3, <1>4
<1> HIDE DEF pa, pb
<1>8. pb = Append(pa, y)
  <2> DEFINE c == Append(pa, y)
  <2>1. /\ c \in Seq(Seq(S)) /\ Len(c) = Len(a) + 1 /\ c[Len(a) + 1] = y
        /\ \A i \in 1..Len(a) : c[i] = pa[i]
    BY <1>2, <1>7, AppendProperties
  <2> HIDE DEF c
  <2>2. \A i \in 1..Len(a) + 1 : pb[i] = c[i]
    <3> TAKE i \in 1..Len(a) + 1
    <3>1. i \in 1..Len(a) \/ i = Len(a) + 1
      OBVIOUS
    <3>2. pb[i] = IF b[i] \in K THEN <<b[i]>> ELSE <<>>
      BY <1>6
    <3>3. CASE i \in 1..Len(a)
      BY <1>1, <1>5, <2>1, <3>2, <3>3
    <3>4. CASE i = Len(a) + 1
      BY <1>1, <1>2, <2>1, <3>2, <3>4
    <3> QED
      BY <3>1, <3>3, <3>4
  <2>3. pb = c
    BY <1>7, <2>1, <2>2, SeqEqual
  <2> QED
    BY <2>3 DEF c
<1>9. FlattenSeq(Append(pa, y)) = FlattenSeq(pa) \o y
  BY <1>2, <1>7, FlatAppend
<1>10. Kept(b, K) = Kept(a, K) \o y
  BY <1>3, <1>4, <1>8, <1>9 DEF pa, pb
<1>11. Kept(a, K) \o <<>> = Kept(a, K) /\ Kept(a, K) \o <<x>> = Append(Kept(a, K), x)
  BY <1>3, ConcatEmptySeq, AppendIsConcat
<1> QED
  BY <1>2, <1>10, <1>11 DEF b

LEMMA KeptOne ==
  ASSUME NEW x, NEW K
  PROVE  Kept(<<x>>, K) = IF x \in K THEN <<x>> ELSE <<>>
<1>1. <<>> \in Seq({x}) /\ x \in {x} /\ Append(<<>>, x) = <<x>>
  OBVIOUS
<1>2. Kept(Append(<<>>, x), K) = IF x \in K THEN Append(Kept(<<>>, K), x) ELSE Kept(<<>>, K)
  BY <1>1, KeptAppend
<1> QED
  BY <1>1, <1>2, KeptEmpty

LEMMA KeptConcat ==
  ASSUME NEW S, NEW a \in Seq(S), NEW b \in Seq(S), NEW K
  PROVE  Kept(a \o b, K) = Kept(a, K) \o Kept(b, K)
<1> DEFINE T == {c \in Seq(S) : Kept(a \o c, K) = Kept(a, K) \o Kept(c, K)}
<1>1. <<>> \in T
  <2>1. Kept(a, K) \in Seq(S)
    BY KeptFromParts
  <2>2. a \o <<>> = a /\ Kept(a, K) \o <<>> = Kept(a, K)
    BY <2>1, ConcatEmptySeq
  <2>3. Kept(a \o <<>>, K) = Kept(a, K) \o Kept(<<>>, K)
    BY <2>2, KeptEmpty
  <2> QED
    BY <2>3
<1>2. ASSUME NEW c \in Seq(S), NEW x \in S, c \in T
      PROVE  Append(c, x) \in T
  <2>1. Kept(a \o c, K) = Kept(a, K) \o Kept(c, K)
    BY <1>2
  <2>2. a \o c \in Seq(S) /\ Append(c, x) \in Seq(S) /\ a \o Append(c, x) = Append(a \o c, x)
    BY ConcatProperties, AppendProperties, ConcatAppend
  <2>3. Kept(a, K) \in Seq(S) /\ Kept(c, K) \in Seq(S)
    BY KeptFromParts
  <2> DEFINE ka == Kept(a, K)
             kc == Kept(c, K)
  <2>4. ka \in Seq(S) /\ kc \in Seq(S) /\ Kept(a \o c, K) = ka \o kc
    BY <2>1, <2>3
  <2>5. /\ Kept(Append(a \o c, x), K) = IF x \in K THEN Append(ka \o kc, x) ELSE ka \o kc
        /\ Kept(Append(c, x), K) = IF x \in K THEN Append(kc, x) ELSE kc
    <3>1. Kept(Append(a \o c, x), K) = IF x \in K THEN Append(Kept(a \o c, K), x) ELSE Kept(a \o c, K)
      <4> DEFINE ac == a \o c
      <4>1. ac \in Seq(S)
        BY <2>2
      <4> HIDE DEF ac
      <4>2. Kept(Append(ac, x), K) = IF x \in K THEN Append(Kept(ac, K), x) ELSE Kept(ac, K)
        BY <4>1, KeptAppend
      <4> QED
        BY <4>2 DEF ac
    <3>2. Kept(Append(c, x), K) = IF x \in K THEN Append(Kept(c, K), x) ELSE Kept(c, K)
      BY KeptAppend
    <3> QED
      BY <2>4, <3>1, <3>2
  <2> HIDE DEF ka, kc
  <2>6. ka \o Append(kc, x) = Append(ka \o kc, x)
    BY <2>4, ConcatAppend
  <2>7. Kept(a \o Append(c, x), K) = ka \o Kept(Append(c, x), K)
    BY <2>2, <2>5, <2>6
  <2> QED
    BY <2>2, <2>7 DEF ka
<1> HIDE DEF T
<1>3. \A c \in Seq(S) : c \in T
  BY <1>1, <1>2, FromEmpty
<1> QED
  BY <1>3 DEF T

\* What is kept of pieces is the pieces of what is kept.
Keeps(ss, K) == [i \in 1..Len(ss) |-> Kept(ss[i], K)]

LEMMA KeepsType ==
  ASSUME NEW S, NEW ss \in Seq(Seq(S)), NEW K
  PROVE  /\ Keeps(ss, K) \in Seq(Seq(S)) /\ Len(Keeps(ss, K)) = Len(ss)
         /\ \A i \in 1..Len(ss) : Keeps(ss, K)[i] = Kept(ss[i], K)
<1>1. Len(ss) \in Nat /\ \A i \in 1..Len(ss) : ss[i] \in Seq(S)
  OBVIOUS
<1>2. \A i \in 1..Len(ss) : Kept(ss[i], K) \in Seq(S)
  BY <1>1, KeptFromParts
<1>3. Keeps(ss, K) \in [1..Len(ss) -> Seq(S)]
  BY <1>2 DEF Keeps
<1>4. \A i \in 1..Len(ss) : Keeps(ss, K)[i] = Kept(ss[i], K)
  BY DEF Keeps
<1>5. Keeps(ss, K) \in Seq(Seq(S)) /\ Len(Keeps(ss, K)) = Len(ss)
  BY <1>1, <1>3, FunctionSeq
<1> QED
  BY <1>4, <1>5

LEMMA KeepsAppend ==
  ASSUME NEW S, NEW c \in Seq(Seq(S)), NEW x \in Seq(S), NEW K
  PROVE  Keeps(Append(c, x), K) = Append(Keeps(c, K), Kept(x, K))
<1> DEFINE d == Append(c, x)
           e == Append(Keeps(c, K), Kept(x, K))
<1>1. /\ d \in Seq(Seq(S)) /\ Len(d) = Len(c) + 1 /\ d[Len(c) + 1] = x
      /\ \A i \in 1..Len(c) : d[i] = c[i]
  BY AppendProperties
<1>2. /\ Keeps(c, K) \in Seq(Seq(S)) /\ Len(Keeps(c, K)) = Len(c) /\ Kept(x, K) \in Seq(S)
      /\ \A i \in 1..Len(c) : Keeps(c, K)[i] = Kept(c[i], K)
  BY KeepsType, KeptFromParts
<1>3. /\ e \in Seq(Seq(S)) /\ Len(e) = Len(c) + 1 /\ e[Len(c) + 1] = Kept(x, K)
      /\ \A i \in 1..Len(c) : e[i] = Keeps(c, K)[i]
  <2> DEFINE kc == Keeps(c, K)
             kx == Kept(x, K)
  <2>1. kc \in Seq(Seq(S)) /\ kx \in Seq(S) /\ Len(kc) = Len(c) /\ e = Append(kc, kx)
    BY <1>2
  <2> HIDE DEF kc, kx, e
  <2>2. /\ e \in Seq(Seq(S)) /\ Len(e) = Len(c) + 1 /\ e[Len(c) + 1] = kx
        /\ \A i \in 1..Len(c) : e[i] = kc[i]
    BY <2>1, AppendProperties
  <2> QED
    BY <2>2 DEF kc, kx
<1> HIDE DEF d, e
<1>4. /\ Keeps(d, K) \in Seq(Seq(S)) /\ Len(Keeps(d, K)) = Len(d)
      /\ \A i \in 1..Len(d) : Keeps(d, K)[i] = Kept(d[i], K)
  BY <1>1, KeepsType
<1>5. \A i \in 1..Len(c) + 1 : Keeps(d, K)[i] = e[i]
  <2> TAKE i \in 1..Len(c) + 1
  <2>1. Len(c) \in Nat
    OBVIOUS
  <2>2. i \in 1..Len(c) \/ i = Len(c) + 1
    BY <2>1
  <2>3. Keeps(d, K)[i] = Kept(d[i], K)
    BY <1>1, <1>4
  <2> QED
    BY <1>1, <1>2, <1>3, <2>2, <2>3
<1>6. Keeps(d, K) = e
  BY <1>1, <1>3, <1>4, <1>5, SeqEqual
<1> QED
  BY <1>6 DEF d, e

LEMMA KeptOfFlat ==
  ASSUME NEW S, NEW ss \in Seq(Seq(S)), NEW K
  PROVE  Kept(FlattenSeq(ss), K) = FlattenSeq(Keeps(ss, K))
<1> DEFINE T == {c \in Seq(Seq(S)) : Kept(FlattenSeq(c), K) = FlattenSeq(Keeps(c, K))}
<1>1. <<>> \in T
  <2>1. <<>> \in Seq(Seq(S))
    OBVIOUS
  <2>2. Keeps(<<>>, K) = <<>>
    BY DEF Keeps
  <2>3. Kept(FlattenSeq(<<>>), K) = FlattenSeq(Keeps(<<>>, K))
    BY <2>2, FlatEmpty, KeptEmpty
  <2> QED
    BY <2>1, <2>3
<1>2. ASSUME NEW c \in Seq(Seq(S)), NEW x \in Seq(S), c \in T
      PROVE  Append(c, x) \in T
  <2>1. Kept(FlattenSeq(c), K) = FlattenSeq(Keeps(c, K))
    BY <1>2
  <2>2. Append(c, x) \in Seq(Seq(S)) /\ FlattenSeq(c) \in Seq(S)
    BY FlatType, AppendProperties
  <2>3. FlattenSeq(Append(c, x)) = FlattenSeq(c) \o x
    BY FlatAppend
  <2>4. Kept(FlattenSeq(c) \o x, K) = Kept(FlattenSeq(c), K) \o Kept(x, K)
    BY <2>2, KeptConcat
  <2>5. Keeps(Append(c, x), K) = Append(Keeps(c, K), Kept(x, K))
    BY KeepsAppend
  <2>6. FlattenSeq(Append(Keeps(c, K), Kept(x, K))) = FlattenSeq(Keeps(c, K)) \o Kept(x, K)
    <3>1. Keeps(c, K) \in Seq(Seq(S)) /\ Kept(x, K) \in Seq(S)
      BY KeepsType, KeptFromParts
    <3> QED
      BY <3>1, FlatAppend
  <2>7. Kept(FlattenSeq(Append(c, x)), K) = FlattenSeq(Keeps(Append(c, x), K))
    BY <2>1, <2>3, <2>4, <2>5, <2>6
  <2> QED
    BY <2>2, <2>7
<1> HIDE DEF T
<1>3. \A c \in Seq(Seq(S)) : c \in T
  <2> DEFINE SS == Seq(S)
  <2>1. \A c \in Seq(SS) : \A x \in SS : c \in T => Append(c, x) \in T
    BY <1>2
  <2> HIDE DEF SS
  <2>2. \A c \in Seq(SS) : c \in T
    BY <1>1, <2>1, FromEmpty
  <2> QED
    BY <2>2 DEF SS
<1> QED
  BY <1>3 DEF T

-----------------------------------------------------------------------------
(* What a sequence has at some positions.                                  *)

Parted(s, I) == [i \in 1..Len(s) |-> IF i \in I THEN <<s[i]>> ELSE <<>>]

LEMMA OnlyFromParted ==
  ASSUME NEW S, NEW s \in Seq(S), NEW I
  PROVE  /\ Only(s, I) = FlattenSeq(Parted(s, I)) /\ Only(s, I) \in Seq(S)
         /\ Parted(s, I) \in Seq(Seq(S)) /\ Len(Parted(s, I)) = Len(s)
<1>1. Len(s) \in Nat /\ \A i \in 1..Len(s) : s[i] \in S
  OBVIOUS
<1>2. \A i \in 1..Len(s) : (IF i \in I THEN <<s[i]>> ELSE <<>>) \in Seq(S)
  BY <1>1
<1>3. Parted(s, I) \in [1..Len(s) -> Seq(S)]
  BY <1>2 DEF Parted
<1>4. Parted(s, I) \in Seq(Seq(S)) /\ Len(Parted(s, I)) = Len(s)
  BY <1>1, <1>3, FunctionSeq
<1>5. Only(s, I) = FlattenSeq(Parted(s, I))
  BY DEF Only, Parted
<1> QED
  BY <1>4, <1>5, FlatType

LEMMA OnlyEmpty == \A I : Only(<<>>, I) = <<>>
<1> TAKE I
<1>1. Parted(<<>>, I) = <<>>
  BY DEF Parted
<1>2. Only(<<>>, I) = FlattenSeq(Parted(<<>>, I))
  BY DEF Only, Parted
<1> QED
  BY <1>1, <1>2, FlatEmpty

LEMMA OnlyAppend ==
  ASSUME NEW S, NEW a \in Seq(S), NEW x \in S, NEW I
  PROVE  Only(Append(a, x), I) = IF Len(a) + 1 \in I THEN Append(Only(a, I), x) ELSE Only(a, I)
<1> DEFINE b == Append(a, x)
           y == IF Len(a) + 1 \in I THEN <<x>> ELSE <<>>
<1>1. b \in Seq(S) /\ Len(b) = Len(a) + 1 /\ b[Len(a) + 1] = x /\ \A i \in 1..Len(a) : b[i] = a[i]
  BY AppendProperties
<1>2. y \in Seq(S) /\ y = IF Len(a) + 1 \in I THEN <<x>> ELSE <<>>
  OBVIOUS
<1> HIDE DEF b, y
<1>3. /\ Only(a, I) = FlattenSeq(Parted(a, I)) /\ Parted(a, I) \in Seq(Seq(S))
      /\ Len(Parted(a, I)) = Len(a) /\ Only(a, I) \in Seq(S)
  BY OnlyFromParted
<1>4. /\ Only(b, I) = FlattenSeq(Parted(b, I)) /\ Parted(b, I) \in Seq(Seq(S))
      /\ Len(Parted(b, I)) = Len(a) + 1
  BY <1>1, OnlyFromParted
<1> DEFINE pa == Parted(a, I)
           pb == Parted(b, I)
<1>5. \A i \in 1..Len(a) : pa[i] = IF i \in I THEN <<a[i]>> ELSE <<>>
  BY DEF Parted
<1>6. \A i \in 1..Len(a) + 1 : pb[i] = IF i \in I THEN <<b[i]>> ELSE <<>>
  BY <1>1 DEF Parted
<1>7. pa \in Seq(Seq(S)) /\ Len(pa) = Len(a) /\ pb \in Seq(Seq(S)) /\ Len(pb) = Len(a) + 1
  BY <1>3, <1>4
<1> HIDE DEF pa, pb
<1>8. pb = Append(pa, y)
  <2> DEFINE c == Append(pa, y)
  <2>1. /\ c \in Seq(Seq(S)) /\ Len(c) = Len(a) + 1 /\ c[Len(a) + 1] = y
        /\ \A i \in 1..Len(a) : c[i] = pa[i]
    BY <1>2, <1>7, AppendProperties
  <2> HIDE DEF c
  <2>2. \A i \in 1..Len(a) + 1 : pb[i] = c[i]
    <3> TAKE i \in 1..Len(a) + 1
    <3>1. i \in 1..Len(a) \/ i = Len(a) + 1
      OBVIOUS
    <3>2. pb[i] = IF i \in I THEN <<b[i]>> ELSE <<>>
      BY <1>6
    <3>3. CASE i \in 1..Len(a)
      BY <1>1, <1>5, <2>1, <3>2, <3>3
    <3>4. CASE i = Len(a) + 1
      BY <1>1, <1>2, <2>1, <3>2, <3>4
    <3> QED
      BY <3>1, <3>3, <3>4
  <2>3. pb = c
    BY <1>7, <2>1, <2>2, SeqEqual
  <2> QED
    BY <2>3 DEF c
<1>9. FlattenSeq(Append(pa, y)) = FlattenSeq(pa) \o y
  BY <1>2, <1>7, FlatAppend
<1>10. Only(b, I) = Only(a, I) \o y
  BY <1>3, <1>4, <1>8, <1>9 DEF pa, pb
<1>11. Only(a, I) \o <<>> = Only(a, I) /\ Only(a, I) \o <<x>> = Append(Only(a, I), x)
  BY <1>3, ConcatEmptySeq, AppendIsConcat
<1> QED
  BY <1>2, <1>10, <1>11 DEF b

\* How many they are.
Those(s, I) == {i \in 1..Len(s) : i \in I}

LEMMA ThoseAppend ==
  ASSUME NEW S, NEW a \in Seq(S), NEW x \in S, NEW I
  PROVE  /\ IsFiniteSet(Those(a, I)) /\ Cardinality(Those(a, I)) \in Nat
         /\ Cardinality(Those(Append(a, x), I))
              = Cardinality(Those(a, I)) + (IF Len(a) + 1 \in I THEN 1 ELSE 0)
<1> DEFINE b == Append(a, x)
           P == Those(a, I)
<1>1. Len(b) = Len(a) + 1 /\ Len(a) \in Nat
  BY AppendProperties
<1>2. P \in SUBSET (1..Len(a)) /\ IsFiniteSet(1..Len(a))
  BY <1>1, FS_Interval DEF Those
<1>3. IsFiniteSet(P) /\ Cardinality(P) \in Nat
  BY <1>2, FS_Subset, FS_CardinalityType
<1>4. CASE Len(a) + 1 \in I
  <2>1. Those(b, I) = P \cup {Len(a) + 1} /\ Len(a) + 1 \notin P
    BY <1>1, <1>4 DEF Those
  <2> HIDE DEF P, b
  <2>2. Cardinality(P \cup {Len(a) + 1}) = Cardinality(P) + 1
    BY <1>3, <2>1, FS_AddElement
  <2> QED
    BY <1>3, <1>4, <2>1, <2>2 DEF b, P
<1>5. CASE Len(a) + 1 \notin I
  <2>1. Those(b, I) = P
    BY <1>1, <1>5 DEF Those
  <2> HIDE DEF P, b
  <2> QED
    BY <1>3, <1>5, <2>1 DEF b, P
<1> QED
  BY <1>4, <1>5

LEMMA OnlyLength ==
  ASSUME NEW S, NEW s \in Seq(S), NEW I
  PROVE  Len(Only(s, I)) = Cardinality(Those(s, I))
<1> DEFINE T == {c \in Seq(S) : Len(Only(c, I)) = Cardinality(Those(c, I))}
<1>1. <<>> \in T
  <2>1. Those(<<>>, I) = {}
    BY DEF Those
  <2>2. Len(Only(<<>>, I)) = Cardinality(Those(<<>>, I))
    <3>1. Cardinality(Those(<<>>, I)) = 0
      BY <2>1, FS_EmptySet
    <3>2. Only(<<>>, I) = <<>>
      BY OnlyEmpty
    <3> QED
      BY <3>1, <3>2
  <2> QED
    BY <2>2
<1>2. ASSUME NEW c \in Seq(S), NEW x \in S, c \in T
      PROVE  Append(c, x) \in T
  <2>1. Len(Only(c, I)) = Cardinality(Those(c, I))
    BY <1>2
  <2>2. Append(c, x) \in Seq(S) /\ Only(c, I) \in Seq(S)
    BY AppendProperties, OnlyFromParted
  <2>3. Len(Append(Only(c, I), x)) = Len(Only(c, I)) + 1
    BY <2>2, AppendProperties
  <2>4. Only(Append(c, x), I) = IF Len(c) + 1 \in I THEN Append(Only(c, I), x) ELSE Only(c, I)
    BY OnlyAppend
  <2>5. /\ Cardinality(Those(c, I)) \in Nat
        /\ Cardinality(Those(Append(c, x), I))
             = Cardinality(Those(c, I)) + (IF Len(c) + 1 \in I THEN 1 ELSE 0)
    BY ThoseAppend
  <2>6. Len(Only(Append(c, x), I)) = Cardinality(Those(Append(c, x), I))
    BY <2>1, <2>3, <2>4, <2>5
  <2> QED
    BY <2>2, <2>6
<1> HIDE DEF T
<1>3. \A c \in Seq(S) : c \in T
  BY <1>1, <1>2, FromEmpty
<1> QED
  BY <1>3 DEF T

\* Which they are.
Has(s, I) == {s[i] : i \in Those(s, I)}

LEMMA OnlyMembers ==
  ASSUME NEW S, NEW s \in Seq(S), NEW I
  PROVE  ToSet(Only(s, I)) = Has(s, I)
<1> DEFINE T == {c \in Seq(S) : ToSet(Only(c, I)) = Has(c, I)}
<1>1. <<>> \in T
  <2>1. Those(<<>>, I) = {}
    BY DEF Those
  <2>2. ToSet(<<>>) = {}
    BY DEF ToSet
  <2>3. ToSet(Only(<<>>, I)) = Has(<<>>, I)
    BY <2>1, <2>2, OnlyEmpty DEF Has
  <2> QED
    BY <2>3
<1>2. ASSUME NEW c \in Seq(S), NEW x \in S, c \in T
      PROVE  Append(c, x) \in T
  <2> DEFINE d == Append(c, x)
             o == Only(c, I)
  <2>1. ToSet(o) = Has(c, I)
    BY <1>2
  <2>2. /\ d \in Seq(S) /\ Len(d) = Len(c) + 1 /\ d[Len(c) + 1] = x /\ Len(c) \in Nat
        /\ \A i \in 1..Len(c) : d[i] = c[i]
    BY AppendProperties
  <2>3. o \in Seq(S)
    BY OnlyFromParted
  <2>4. Only(d, I) = IF Len(c) + 1 \in I THEN Append(o, x) ELSE o
    BY OnlyAppend
  <2> HIDE DEF d, o
  <2>5. ToSet(Append(o, x)) = ToSet(o) \cup {x}
    <3> DEFINE p == Append(o, x)
    <3>1. /\ Len(p) = Len(o) + 1 /\ p[Len(o) + 1] = x /\ Len(o) \in Nat
          /\ \A i \in 1..Len(o) : p[i] = o[i]
      BY <2>3, AppendProperties
    <3> HIDE DEF p
    <3>2. \A i \in 1..Len(o) + 1 : i \in 1..Len(o) \/ i = Len(o) + 1
      BY <3>1
    <3>3. 1..Len(o) \subseteq 1..Len(o) + 1 /\ Len(o) + 1 \in 1..Len(o) + 1
      BY <3>1
    <3>4. ToSet(p) = {p[i] : i \in 1..Len(o) + 1} /\ ToSet(o) = {o[i] : i \in 1..Len(o)}
      BY <3>1 DEF ToSet
    <3>5. ToSet(p) = ToSet(o) \cup {x}
      BY <3>1, <3>2, <3>3, <3>4
    <3> QED
      BY <3>5 DEF p
  <2>6. Has(d, I) = Has(c, I) \cup (IF Len(c) + 1 \in I THEN {x} ELSE {})
    <3>1. \A i \in Those(c, I) : i \in 1..Len(c) /\ i \in I
      BY DEF Those
    <3>2. CASE Len(c) + 1 \in I
      <4>1. Those(d, I) = Those(c, I) \cup {Len(c) + 1}
        BY <2>2, <3>2 DEF Those
      <4> QED
        BY <2>2, <3>1, <3>2, <4>1 DEF Has
    <3>3. CASE Len(c) + 1 \notin I
      <4>1. Those(d, I) = Those(c, I)
        BY <2>2, <3>3 DEF Those
      <4> QED
        BY <2>2, <3>1, <3>3, <4>1 DEF Has
    <3> QED
      BY <3>2, <3>3
  <2>7. ToSet(Only(d, I)) = Has(d, I)
    BY <2>1, <2>4, <2>5, <2>6
  <2> QED
    BY <2>2, <2>7 DEF d
<1> HIDE DEF T
<1>3. \A c \in Seq(S) : c \in T
  BY <1>1, <1>2, FromEmpty
<1> QED
  BY <1>3 DEF T

\* Where they are: each at the place its number among them says.
UpToThe(i, I) == {j \in 1..i : j \in I}
Placed(s, I) ==
  \A i \in Those(s, I) :
    /\ Cardinality(UpToThe(i, I)) \in 1..Len(Only(s, I))
    /\ Only(s, I)[Cardinality(UpToThe(i, I))] = s[i]

LEMMA OnlyPlaced ==
  ASSUME NEW S, NEW s \in Seq(S), NEW I
  PROVE  Placed(s, I)
<1> DEFINE T == {c \in Seq(S) : Placed(c, I)}
<1>1. <<>> \in T
  <2>1. Those(<<>>, I) = {}
    BY DEF Those
  <2> QED
    BY <2>1 DEF Placed
<1>2. ASSUME NEW c \in Seq(S), NEW x \in S, c \in T
      PROVE  Append(c, x) \in T
  <2> DEFINE d == Append(c, x)
             o == Only(c, I)
             p == Only(d, I)
             n == Len(c)
  <2>1. \A i \in Those(c, I) : /\ Cardinality(UpToThe(i, I)) \in 1..Len(o)
                              /\ o[Cardinality(UpToThe(i, I))] = c[i]
    BY <1>2 DEF Placed
  <2>2. /\ d \in Seq(S) /\ Len(d) = n + 1 /\ d[n + 1] = x /\ n \in Nat
        /\ \A i \in 1..n : d[i] = c[i]
    BY AppendProperties
  <2>3. o \in Seq(S) /\ Len(o) = Cardinality(Those(c, I)) /\ p = IF n + 1 \in I THEN Append(o, x) ELSE o
    BY OnlyFromParted, OnlyLength, OnlyAppend
  <2>4. Cardinality(Those(d, I)) = Cardinality(Those(c, I)) + (IF n + 1 \in I THEN 1 ELSE 0)
    BY ThoseAppend
  <2> HIDE DEF d, o, p, n
  <2>5. /\ Len(Append(o, x)) = Len(o) + 1 /\ Append(o, x)[Len(o) + 1] = x /\ Len(o) \in Nat
        /\ \A i \in 1..Len(o) : Append(o, x)[i] = o[i]
    BY <2>3, AppendProperties
  <2>6. ASSUME NEW i \in Those(d, I)
        PROVE  /\ Cardinality(UpToThe(i, I)) \in 1..Len(p)
               /\ p[Cardinality(UpToThe(i, I))] = d[i]
    <3> DEFINE k == Cardinality(UpToThe(i, I))
    <3>1. i \in 1..n + 1 /\ i \in I
      BY <2>2 DEF Those
    <3>2. CASE i = n + 1
      <4>1. UpToThe(i, I) = Those(d, I)
        BY <2>2, <3>2 DEF UpToThe, Those
      <4>2. k = Len(o) + 1
        BY <2>3, <2>4, <3>1, <3>2, <4>1
      <4>3. p = Append(o, x) /\ d[i] = x
        BY <2>2, <2>3, <3>1, <3>2
      <4> HIDE DEF k
      <4>4. k \in 1..Len(p) /\ p[k] = d[i]
        BY <2>5, <4>2, <4>3
      <4> QED
        BY <4>4 DEF k
    <3>3. CASE i # n + 1
      <4>1. i \in 1..n
        BY <2>2, <3>1, <3>3
      <4>2. i \in Those(c, I)
        BY <3>1, <4>1 DEF Those, n
      <4>3. k \in 1..Len(o) /\ o[k] = c[i] /\ d[i] = c[i]
        BY <2>1, <2>2, <4>1, <4>2
      <4> HIDE DEF k
      <4>4. k \in 1..Len(p) /\ p[k] = d[i]
        BY <2>3, <2>5, <4>3
      <4> QED
        BY <4>4 DEF k
    <3> QED
      BY <3>2, <3>3
  <2>7. Placed(d, I)
    BY <2>6 DEF Placed, p
  <2> QED
    BY <2>2, <2>7 DEF d
<1> HIDE DEF T
<1>3. \A c \in Seq(S) : c \in T
  BY <1>1, <1>2, FromEmpty
<1> QED
  BY <1>3 DEF T

\* The last one is the one behind which there is none.
LEMMA OnlyLast ==
  ASSUME NEW S, NEW s \in Seq(S), NEW I, NEW i \in Those(s, I), \A j \in Those(s, I) : j <= i
  PROVE  Only(s, I) # <<>> /\ Last(Only(s, I)) = s[i]
<1> DEFINE o == Only(s, I)
<1>1. Placed(s, I) /\ Len(o) = Cardinality(Those(s, I)) /\ o \in Seq(S)
  BY OnlyPlaced, OnlyLength, OnlyFromParted
<1>2. UpToThe(i, I) = Those(s, I)
  <2>1. Len(s) \in Nat /\ i \in 1..Len(s)
    BY DEF Those
  <2> QED
    BY <2>1 DEF UpToThe, Those
<1>3. Len(o) \in 1..Len(o) /\ o[Len(o)] = s[i]
  BY <1>1, <1>2 DEF Placed
<1> HIDE DEF o
<1>4. o # <<>> /\ Last(o) = s[i]
  BY <1>3 DEF Last
<1> QED
  BY <1>4 DEF o

-----------------------------------------------------------------------------
(* Query documents.                                                        *)

\* What is promised of a document and the lines it is made of.
Used(document, lines) ==
  /\ Len(document.typed) = Cardinality(TypedUpTo(lines, Len(lines)))
  /\ \A i \in TypedUpTo(lines, Len(lines)) :
       document.typed[Cardinality(TypedUpTo(lines, i))] = lines[i]
  /\ \A i \in 1..Len(lines) : i \notin TypedUpTo(lines, Len(lines)) =>
       /\ i \in IntentsOf(lines)
       /\ document.intent = lines[i] \/ \E j \in IntentsOf(lines) : i < j
  /\ IntentsOf(lines) = {} => document.intent = None
NoDocument(lines) ==
  \/ Len(lines) <= 1 \/ TypedUpTo(lines, Len(lines)) = {}
  \/ \E i \in 1..Len(lines) : lines[i].kind = "other"

LEMMA LinesOfADocument ==
  ASSUME NEW lines \in Seq(QueryLine)
  PROVE  IF parse_structured_query(lines) = None THEN NoDocument(lines)
         ELSE Used(parse_structured_query(lines), lines)
<1> DEFINE n == Len(lines)
           J == TypedUpTo(lines, n)
           K == IntentsOf(lines)
           typed == Only(lines, J)
           intents == Only(lines, K)
           none == n <= 1 \/ typed = <<>> \/ \E i \in 1..n : lines[i].kind = "other"
           intent == IF intents = <<>> THEN None ELSE Last(intents)
           r == [typed |-> typed, intent |-> intent]
           document == parse_structured_query(lines)
<1>1. document = IF none THEN None ELSE r
  BY DEF parse_structured_query, TypedUpTo, IntentsOf
<1>2. /\ n \in Nat /\ J \subseteq 1..n /\ K \subseteq 1..n
      /\ Those(lines, J) = J /\ Those(lines, K) = K
  BY DEF Those, TypedUpTo, IntentsOf
<1>3. /\ typed \in Seq(QueryLine) /\ Len(typed) = Cardinality(J) /\ Placed(lines, J)
      /\ intents \in Seq(QueryLine) /\ Len(intents) = Cardinality(K)
  <2>1. \A I : /\ Only(lines, I) \in Seq(QueryLine) /\ Placed(lines, I)
               /\ Len(Only(lines, I)) = Cardinality(Those(lines, I))
    BY OnlyFromParted, OnlyLength, OnlyPlaced
  <2> HIDE DEF J, K
  <2> QED
    BY <1>2, <2>1
<1>4. ASSUME NEW i \in 1..n
      PROVE  i \in J \/ i \in K \/ lines[i].kind = "other"
  <2> DEFINE l == lines[i]
  <2>1. l \in QueryLine
    OBVIOUS
  <2> HIDE DEF l
  <2>2. l.kind \in SubQuery \cup {"intent", "other"}
    BY <2>1 DEF QueryLine
  <2>3. l.kind \in SubQuery => i \in J
    BY DEF l, TypedUpTo
  <2>4. l.kind = "intent" => i \in K
    BY DEF l, IntentsOf
  <2> QED
    BY <2>2, <2>3, <2>4 DEF l
<1>5. \A i \in J : UpToThe(i, J) = TypedUpTo(lines, i)
  BY <1>2 DEF UpToThe, TypedUpTo
<1> HIDE DEF J, K, typed, intents, n
<1>6. intent \in QueryLine \cup {None}
  <2>1. CASE intents = <<>>
    BY <2>1
  <2>2. CASE intents # <<>>
    <3>1. Len(intents) \in 1..Len(intents)
      BY <1>3, <2>2
    <3>2. intents[Len(intents)] \in QueryLine
      BY <1>3, <3>1
    <3> QED
      BY <2>2, <3>2 DEF Last
  <2> QED
    BY <2>1, <2>2
<1>7. K = {} => intent = None
  <2>1. K = {} => Len(intents) = 0
    BY <1>3, FS_EmptySet
  <2> QED
    BY <1>3, <2>1
<1>8. ASSUME NEW i \in K
      PROVE  intent = lines[i] \/ \E j \in K : i < j
  <2>1. CASE \A j \in K : j <= i
    <3>1. intents # <<>> /\ Last(intents) = lines[i]
      <4>1. i \in Those(lines, K) /\ \A j \in Those(lines, K) : j <= i
        BY <1>2, <2>1
      <4> QED
        BY <4>1, OnlyLast DEF intents
    <3> QED
      BY <3>1
  <2>2. CASE ~ \A j \in K : j <= i
    BY <1>2, <2>2
  <2> QED
    BY <2>1, <2>2
<1> HIDE DEF intent
<1>9. r \in Document /\ r.typed = typed /\ r.intent = intent
  BY <1>3, <1>6 DEF Document
<1> HIDE DEF r
<1>10. r # None
  BY <1>9, TextAssumption
<1>11. typed = <<>> => J = {}
  <2>1. IsFiniteSet(J)
    <3>1. IsFiniteSet(1..n)
      BY <1>2, FS_Interval
    <3>2. J \in SUBSET (1..n)
      BY <1>2
    <3> QED
      BY <3>1, <3>2, FS_Subset
  <2>2. Cardinality(J) = 0 => J = {}
    BY <2>1, FS_EmptySet
  <2> QED
    BY <1>3, <2>2
<1>12. CASE none
  <2>1. document = None
    BY <1>1, <1>12
  <2>2. NoDocument(lines)
    BY <1>11, <1>12 DEF NoDocument, J, n
  <2> QED
    BY <2>1, <2>2
<1>13. CASE ~none
  <2>1. document = r
    BY <1>1, <1>13
  <2>2. \A i \in 1..n : lines[i].kind # "other"
    BY <1>13
  <2>3. Len(r.typed) = Cardinality(J)
    BY <1>3, <1>9
  <2>4. \A i \in J : r.typed[Cardinality(TypedUpTo(lines, i))] = lines[i]
    BY <1>2, <1>3, <1>5, <1>9 DEF Placed, typed
  <2>5. \A i \in 1..n : i \notin J =>
          i \in K /\ (r.intent = lines[i] \/ \E j \in K : i < j)
    BY <1>4, <1>8, <1>9, <2>2
  <2>6. K = {} => r.intent = None
    BY <1>7, <1>9
  <2> HIDE DEF none, document
  <2>7. Used(r, lines)
    BY <2>3, <2>4, <2>5, <2>6 DEF Used, J, K, n
  <2>8. document # None
    BY <1>10, <2>1
  <2> QED
    BY <2>1, <2>7, <2>8 DEF document
<1> QED
  BY <1>12, <1>13
-----------------------------------------------------------------------------
(* Recursion.  What a function is at a place is said by its body, from     *)
(* what it is at places of lower rank.                                     *)

Obeys(f, D, rank, B, m) == \A s \in D : rank[s] < m => f[s] = B[<<s, f>>]
Alike(f, g, D, rank, m) == \A t \in D : rank[t] < m => f[t] = g[t]
FromLower(D, V, rank, B) ==
  \A s \in D : \A f, g \in [D -> V] : Alike(f, g, D, rank, rank[s]) => B[<<s, f>>] = B[<<s, g>>]

LEMMA ObeysUpTo ==
  ASSUME NEW D, NEW V, V # {}, NEW rank \in [D -> Nat], NEW B \in [D \X [D -> V] -> V],
         FromLower(D, V, rank, B)
  PROVE  \A m \in Nat : \E f \in [D -> V] : Obeys(f, D, rank, B, m)
<1> DEFINE T == {m \in Nat : \E f \in [D -> V] : Obeys(f, D, rank, B, m)}
<1>1. ASSUME NEW m \in Nat, \A k \in Nat : k < m => k \in T
      PROVE  m \in T
  <2>1. CASE m = 0
    <3>1. PICK v : v \in V
      OBVIOUS
    <3> DEFINE f == [s \in D |-> v]
    <3>2. f \in [D -> V]
      BY <3>1
    <3>3. \A s \in D : ~(rank[s] < 0)
      OBVIOUS
    <3> HIDE DEF f
    <3>4. Obeys(f, D, rank, B, 0)
      BY <3>3 DEF Obeys
    <3> QED
      BY <2>1, <3>2, <3>4
  <2>2. CASE m # 0
    <3>1. PICK k \in Nat : m = k + 1
      <4>1. m - 1 \in Nat /\ m = (m - 1) + 1
        BY <2>2
      <4> QED
        BY <4>1
    <3>2. PICK f \in [D -> V] : Obeys(f, D, rank, B, k)
      <4>1. k < m
        BY <3>1
      <4> QED
        BY <1>1, <4>1
    <3> DEFINE g == [s \in D |-> B[<<s, f>>]]
    <3>3. g \in [D -> V]
      OBVIOUS
    <3>4. \A s \in D : g[s] = B[<<s, f>>]
      OBVIOUS
    <3> HIDE DEF g
    <3>5. ASSUME NEW s \in D, rank[s] < m
          PROVE  g[s] = B[<<s, g>>]
      <4>1. \A t \in D : rank[t] < rank[s] => f[t] = g[t]
        <5> TAKE t \in D
        <5>1. HAVE rank[t] < rank[s]
        <5>2. rank[t] \in Nat /\ rank[s] \in Nat
          OBVIOUS
        <5>3. rank[t] < k
          BY <3>1, <3>5, <5>1, <5>2
        <5>4. f[t] = B[<<t, f>>]
          BY <3>2, <5>3 DEF Obeys
        <5> QED
          BY <3>4, <5>4
      <4>2. Alike(f, g, D, rank, rank[s])
        BY <4>1 DEF Alike
      <4>3. B[<<s, f>>] = B[<<s, g>>]
        BY <3>3, <4>2 DEF FromLower
      <4> QED
        BY <3>4, <4>3
    <3>6. Obeys(g, D, rank, B, m)
      BY <3>5 DEF Obeys
    <3> QED
      BY <3>3, <3>6
  <2> QED
    BY <2>1, <2>2
<1> HIDE DEF T
<1>2. \A m \in Nat : m \in T
  BY <1>1, FromBelow
<1> QED
  BY <1>2 DEF T

LEMMA ObeysAlike ==
  ASSUME NEW D, NEW V, NEW rank \in [D -> Nat], NEW B, FromLower(D, V, rank, B),
         NEW f \in [D -> V], NEW g \in [D -> V], NEW i \in Nat, NEW j \in Nat,
         Obeys(f, D, rank, B, i), Obeys(g, D, rank, B, j)
  PROVE  \A s \in D : rank[s] < i /\ rank[s] < j => f[s] = g[s]
<1> DEFINE T == {m \in Nat : \A s \in D : rank[s] = m /\ m < i /\ m < j => f[s] = g[s]}
<1>1. ASSUME NEW m \in Nat, \A k \in Nat : k < m => k \in T
      PROVE  m \in T
  <2>1. ASSUME NEW s \in D, rank[s] = m, m < i, m < j
        PROVE  f[s] = g[s]
    <3>1. f[s] = B[<<s, f>>] /\ g[s] = B[<<s, g>>]
      BY <2>1 DEF Obeys
    <3>2. \A t \in D : rank[t] < rank[s] => f[t] = g[t]
      <4> TAKE t \in D
      <4>1. HAVE rank[t] < rank[s]
      <4> DEFINE k == rank[t]
      <4>2. k \in Nat /\ k < m /\ k < i /\ k < j /\ rank[t] = k
        BY <2>1, <4>1
      <4> HIDE DEF k
      <4>3. k \in T
        BY <1>1, <4>2
      <4> QED
        BY <4>2, <4>3
    <3>3. B[<<s, f>>] = B[<<s, g>>]
      BY <3>2 DEF FromLower, Alike
    <3> QED
      BY <3>1, <3>3
  <2> QED
    BY <2>1
<1> HIDE DEF T
<1>2. \A m \in Nat : m \in T
  BY <1>1, FromBelow
<1> QED
  BY <1>2 DEF T

IsBody(D, V, rank, B) ==
  V # {} /\ rank \in [D -> Nat] /\ B \in [D \X [D -> V] -> V] /\ FromLower(D, V, rank, B)
HasFix(D, V, B) == \E f \in [D -> V] : \A s \in D : f[s] = B[<<s, f>>]

LEMMA ByRank ==
  ASSUME NEW D, NEW V, NEW rank, NEW B, IsBody(D, V, rank, B)
  PROVE  HasFix(D, V, B)
<1> SUFFICES ASSUME V # {}, rank \in [D -> Nat], B \in [D \X [D -> V] -> V],
                    FromLower(D, V, rank, B)
             PROVE  HasFix(D, V, B)
  BY DEF IsBody
<1> DEFINE each == [m \in Nat |-> CHOOSE f \in [D -> V] : Obeys(f, D, rank, B, m)]
           F == [s \in D |-> each[rank[s] + 1][s]]
<1>1. \A m \in Nat : each[m] \in [D -> V] /\ Obeys(each[m], D, rank, B, m)
  BY ObeysUpTo
<1> HIDE DEF each
<1>2. \A s \in D : rank[s] + 1 \in Nat /\ F[s] = each[rank[s] + 1][s] /\ F[s] \in V
  BY <1>1
<1>3. F \in [D -> V]
  BY <1>2
<1> HIDE DEF F
<1>4. ASSUME NEW s \in D
      PROVE  F[s] = B[<<s, F>>]
  <2> DEFINE m == rank[s] + 1
             f == each[m]
  <2>1. rank[s] \in Nat /\ m \in Nat /\ rank[s] < m /\ f \in [D -> V] /\ Obeys(f, D, rank, B, m)
        /\ F[s] = f[s]
    BY <1>1, <1>2
  <2>2. f[s] = B[<<s, f>>]
    BY <2>1 DEF Obeys
  <2>3. \A t \in D : rank[t] < rank[s] => f[t] = F[t]
    <3> TAKE t \in D
    <3>1. HAVE rank[t] < rank[s]
    <3> DEFINE k == rank[t] + 1
               g == each[k]
    <3>2. rank[t] \in Nat /\ k \in Nat /\ rank[t] < k /\ g \in [D -> V] /\ Obeys(g, D, rank, B, k)
          /\ F[t] = g[t]
      BY <1>1, <1>2
    <3>3. rank[t] < m
      BY <2>1, <3>1, <3>2
    <3> HIDE DEF m, f, k, g
    <3>4. f[t] = g[t]
      BY <2>1, <3>2, <3>3, ObeysAlike
    <3> QED
      BY <3>2, <3>4
  <2> HIDE DEF m, f
  <2>4. B[<<s, f>>] = B[<<s, F>>]
    BY <1>3, <2>1, <2>3 DEF FromLower, Alike
  <2> QED
    BY <2>1, <2>2, <2>4
<1> QED
  BY <1>3, <1>4 DEF HasFix

-----------------------------------------------------------------------------
(* Texts put together, and taken apart.                                    *)

LEMMA ConcatParts ==
  ASSUME NEW S, NEW x \in Seq(S), NEW y \in Seq(S)
  PROVE  /\ x \o y \in Seq(S) /\ Len(x \o y) = Len(x) + Len(y) /\ Len(x) \in Nat /\ Len(y) \in Nat
         /\ \A i \in 1..Len(x) : (x \o y)[i] = x[i]
         /\ \A i \in 1..Len(y) : (x \o y)[Len(x) + i] = y[i]
<1>1. /\ x \o y \in Seq(S) /\ Len(x \o y) = Len(x) + Len(y) /\ Len(x) \in Nat /\ Len(y) \in Nat
      /\ \A i \in 1..Len(x) + Len(y) : (x \o y)[i] = IF i <= Len(x) THEN x[i] ELSE y[i - Len(x)]
  BY ConcatProperties
<1>2. ASSUME NEW i \in 1..Len(x)
      PROVE  (x \o y)[i] = x[i]
  <2>1. i \in 1..Len(x) + Len(y) /\ i <= Len(x)
    BY <1>1
  <2> QED
    BY <1>1, <2>1
<1>3. ASSUME NEW i \in 1..Len(y)
      PROVE  (x \o y)[Len(x) + i] = y[i]
  <2>1. PICK k \in 1..Len(x) + Len(y) : k = Len(x) + i /\ ~(k <= Len(x)) /\ k - Len(x) = i
    BY <1>1
  <2>2. (x \o y)[k] = y[k - Len(x)]
    BY <1>1, <2>1
  <2> QED
    BY <2>1, <2>2
<1> QED
  BY <1>1, <1>2, <1>3

LEMMA ConcatCut ==
  ASSUME NEW S, NEW x \in Seq(S), NEW y \in Seq(S)
  PROVE  /\ SubSeq(x \o y, 1, Len(x)) = x
         /\ SubSeq(x \o y, Len(x) + 1, Len(x) + Len(y)) = y
<1> DEFINE w == x \o y
           n == Len(x)
           o == Len(y)
<1>1. /\ w \in Seq(S) /\ Len(w) = n + o /\ n \in Nat /\ o \in Nat
      /\ \A i \in 1..n : w[i] = x[i]
      /\ \A i \in 1..o : w[n + i] = y[i]
  BY ConcatParts
<1>2. \A i \in 1..n : x[i] \in S
  OBVIOUS
<1>3. \A i \in 1..o : y[i] \in S
  OBVIOUS
<1> HIDE DEF w
<1>4. SubSeq(w, 1, n) = x
  <2> DEFINE l == SubSeq(w, 1, n)
  <2>1. \A i \in 1..n : w[i] \in S
    BY <1>1, <1>2
  <2>2. l \in Seq(S) /\ Len(l) = IF 1 <= n THEN n - 1 + 1 ELSE 0
    BY <1>1, <2>1, SubSeqProperties
  <2>3. \A i \in 1..n - 1 + 1 : l[i] = w[1 + i - 1]
    BY <1>1, <2>1, SubSeqProperties
  <2> HIDE DEF l
  <2>4. Len(l) = n
    BY <1>1, <2>2
  <2>5. \A i \in 1..n : l[i] = x[i]
    <3> TAKE i \in 1..n
    <3>1. i \in 1..n - 1 + 1 /\ 1 + i - 1 = i
      BY <1>1
    <3> QED
      BY <1>1, <2>3, <3>1
  <2>6. l = x
    BY <2>2, <2>4, <2>5, SeqEqual
  <2> QED
    BY <2>6 DEF l
<1>5. SubSeq(w, n + 1, n + o) = y
  <2> DEFINE r == SubSeq(w, n + 1, n + o)
  <2>1. \A i \in n + 1..n + o : w[i] \in S
    <3> TAKE i \in n + 1..n + o
    <3>1. PICK k \in 1..o : i = n + k
      <4>1. i - n \in 1..o /\ i = n + (i - n)
        BY <1>1
      <4> QED
        BY <4>1
    <3> QED
      BY <1>1, <1>3, <3>1
  <2>2. n + 1 \in Int /\ n + o \in Int
    BY <1>1
  <2>3. /\ r \in Seq(S) /\ Len(r) = IF n + 1 <= n + o THEN n + o - (n + 1) + 1 ELSE 0
        /\ \A i \in 1..n + o - (n + 1) + 1 : r[i] = w[(n + 1) + i - 1]
    BY <2>1, <2>2, SubSeqProperties
  <2> HIDE DEF r, n, o
  <2>4. Len(r) = o
    BY <1>1, <2>3
  <2>5. \A i \in 1..o : r[i] = y[i]
    <3> TAKE i \in 1..o
    <3>1. i \in 1..n + o - (n + 1) + 1 /\ (n + 1) + i - 1 = n + i
      BY <1>1
    <3>2. r[i] = w[n + i]
      BY <2>3, <3>1
    <3> QED
      BY <1>1, <3>2
  <2>6. r = y
    BY <2>3, <2>4, <2>5, SeqEqual DEF o
  <2> QED
    BY <2>6 DEF r
<1> QED
  BY <1>4, <1>5 DEF w

\* A text around a part of it.
LEMMA ConcatThree ==
  ASSUME NEW S, NEW l \in Seq(S), NEW y \in Seq(S), NEW z \in Seq(S)
  PROVE  LET t == l \o y \o z IN
         /\ t \in Seq(S) /\ Len(t) = Len(l) + Len(y) + Len(z)
         /\ Len(l) \in Nat /\ Len(y) \in Nat /\ Len(z) \in Nat
         /\ SubSeq(t, 1, Len(l)) = l
         /\ SubSeq(t, Len(l) + Len(y) + 1, Len(t)) = z
         /\ \A i \in 1..Len(y) : t[Len(l) + i] = y[i]
<1> DEFINE w == l \o y
           t == w \o z
           a == Len(l)
           b == Len(y)
           c == Len(z)
<1>1. /\ w \in Seq(S) /\ Len(w) = a + b /\ a \in Nat /\ b \in Nat
      /\ \A i \in 1..a : w[i] = l[i]
      /\ \A i \in 1..b : w[a + i] = y[i]
  BY ConcatParts
<1> HIDE DEF w
<1>2. /\ t \in Seq(S) /\ Len(t) = (a + b) + c /\ c \in Nat
      /\ \A i \in 1..a + b : t[i] = w[i]
      /\ SubSeq(t, (a + b) + 1, (a + b) + c) = z
  <2>1. /\ t \in Seq(S) /\ Len(t) = Len(w) + c /\ c \in Nat
        /\ \A i \in 1..Len(w) : t[i] = w[i]
    <3>1. w \in Seq(S)
      BY <1>1
    <3> QED
      BY <3>1, ConcatParts
  <2>2. SubSeq(t, Len(w) + 1, Len(w) + c) = z
    BY <1>1, ConcatCut
  <2> HIDE DEF t, c
  <2>3. Len(w) = a + b
    BY <1>1
  <2> HIDE DEF a, b
  <2> QED
    BY <2>1, <2>2, <2>3
<1>3. ASSUME NEW i \in 1..b
      PROVE  t[a + i] = y[i]
  <2>1. a + i \in 1..a + b
    BY <1>1
  <2> QED
    BY <1>1, <1>2, <2>1
<1>4. SubSeq(t, 1, a) = l
  <2>1. t = l \o (y \o z)
    BY ConcatAssociative DEF w
  <2>2. y \o z \in Seq(S)
    BY ConcatProperties
  <2> HIDE DEF t
  <2> QED
    BY <2>1, <2>2, ConcatCut
<1> HIDE DEF a, b, c, t
<1>5. (a + b) + c = Len(t) /\ (a + b) + 1 = a + b + 1
  BY <1>1, <1>2
<1>6. /\ t \in Seq(S) /\ Len(t) = a + b + c /\ a \in Nat /\ b \in Nat /\ c \in Nat
      /\ SubSeq(t, 1, a) = l /\ SubSeq(t, a + b + 1, Len(t)) = z
      /\ \A i \in 1..b : t[a + i] = y[i]
  BY <1>1, <1>2, <1>3, <1>4, <1>5
<1> QED
  BY <1>6 DEF a, b, c, t, w

\* The middle of a text around a part of it.
LEMMA ConcatMiddle ==
  ASSUME NEW l \in Seq(Char), NEW y \in Seq(Char), NEW z \in Seq(Char),
         NEW i \in Nat, NEW j \in Nat, i <= j, j <= Len(y)
  PROVE  SubSeq(l \o y \o z, Len(l) + i + 1, Len(l) + j) = SubSeq(y, i + 1, j)
<1> DEFINE t == l \o y \o z
           n == Len(l)
           p == SubSeq(t, (n + i) + 1, n + j)
           q == SubSeq(y, i + 1, j)
<1>1. /\ t \in Seq(Char) /\ Len(t) = Len(l) + Len(y) + Len(z)
      /\ n \in Nat /\ Len(y) \in Nat /\ Len(z) \in Nat
      /\ \A k \in 1..Len(y) : t[n + k] = y[k]
  BY ConcatThree
<1> HIDE DEF t
<1>2. /\ q \in Seq(Char) /\ Len(q) = j - i /\ \A k \in 1..j - i : q[k] = y[i + k]
  <2>1. LET part == SubSeq(y, i + 1, j) IN
        part \in Seq(Char) /\ Len(part) = j - i /\ \A k \in 1..j - i : part[k] = y[i + k]
    BY PartOf
  <2> QED
    BY <2>1
<1>3. n + i \in Nat /\ n + j \in Nat /\ n + i <= n + j /\ n + j <= Len(t) /\ (n + j) - (n + i) = j - i
  BY <1>1
<1>4. /\ p \in Seq(Char) /\ Len(p) = j - i /\ \A k \in 1..j - i : p[k] = t[(n + i) + k]
  <2> DEFINE f == n + i
             g == n + j
  <2>1. f \in Nat /\ g \in Nat /\ f <= g /\ g <= Len(t)
    BY <1>3
  <2> HIDE DEF f, g
  <2>2. LET part == SubSeq(t, f + 1, g) IN
        part \in Seq(Char) /\ Len(part) = g - f /\ \A k \in 1..g - f : part[k] = t[f + k]
    BY <1>1, <2>1, PartOf
  <2> QED
    BY <1>3, <2>2 DEF f, g
<1>5. \A k \in 1..j - i : p[k] = q[k]
  <2> TAKE k \in 1..j - i
  <2>1. PICK m \in 1..Len(y) : m = i + k /\ (n + i) + k = n + m
    <3>1. i + k \in 1..Len(y) /\ (n + i) + k = n + (i + k)
      BY <1>1
    <3> QED
      BY <3>1
  <2>2. p[k] = t[(n + i) + k] /\ q[k] = y[i + k]
    BY <1>2, <1>4
  <2> QED
    BY <1>1, <2>1, <2>2
<1> HIDE DEF p, q
<1>6. p = q
  BY <1>2, <1>4, <1>5, SeqEqual
<1>7. (n + i) + 1 = n + i + 1
  BY <1>1
<1> QED
  BY <1>6, <1>7 DEF p, q, t, n

-----------------------------------------------------------------------------
(* The text of a snippet.                                                  *)

AnyChar == Char \cup {Newline, "."}

LEMMA AnyText ==
  /\ \A s \in Seq(Char) : s \in Seq(AnyChar)
  /\ Ellipsis \in Seq(AnyChar) /\ Len(Ellipsis) = 3 /\ <<Newline>> \in Seq(AnyChar)
<1>1. ASSUME NEW s \in Seq(Char)
      PROVE  s \in Seq(AnyChar)
  BY DEF AnyChar
<1> DEFINE dot == "."
<1>2. dot \in AnyChar /\ Newline \in AnyChar
  BY DEF AnyChar
<1>3. Ellipsis = <<dot, dot, dot>>
  BY DEF Ellipsis
<1> HIDE DEF dot
<1>4. Ellipsis \in Seq(AnyChar) /\ Len(Ellipsis) = 3 /\ <<Newline>> \in Seq(AnyChar)
  BY <1>2, <1>3
<1> QED
  BY <1>1, <1>4

\* What a text begins with.
LEMMA Beginning ==
  ASSUME NEW S, NEW s \in Seq(S), NEW m \in 0..Len(s)
  PROVE  /\ SubSeq(s, 1, m) \in Seq(S) /\ Len(SubSeq(s, 1, m)) = m
         /\ \A i \in 1..m : SubSeq(s, 1, m)[i] = s[i]
<1> DEFINE l == SubSeq(s, 1, m)
<1>1. \A i \in 1..m : s[i] \in S
  OBVIOUS
<1>2. m \in Int /\ m \in Nat
  OBVIOUS
<1>3. /\ l \in Seq(S) /\ Len(l) = IF 1 <= m THEN m - 1 + 1 ELSE 0
      /\ \A i \in 1..m - 1 + 1 : l[i] = s[1 + i - 1]
  BY <1>1, <1>2, SubSeqProperties
<1> HIDE DEF l
<1>4. Len(l) = m
  BY <1>2, <1>3
<1>5. \A i \in 1..m : l[i] = s[i]
  <2> TAKE i \in 1..m
  <2>1. i \in 1..m - 1 + 1 /\ 1 + i - 1 = i
    BY <1>2
  <2> QED
    BY <1>3, <2>1
<1> QED
  BY <1>3, <1>4, <1>5 DEF l

\* A text is cut to its length, and what has room before the ellipsis stays.
LEMMA ShortenedFacts ==
  ASSUME NEW text \in Seq(AnyChar)
  PROVE  /\ Shortened(text) \in Seq(AnyChar) /\ Len(Shortened(text)) <= MaxLen
         /\ \A k \in 0..Len(text) : k + Len(Ellipsis) <= MaxLen \/ Len(text) <= MaxLen =>
              /\ k \in 0..Len(Shortened(text))
              /\ \A i \in 1..k : Shortened(text)[i] = text[i]
<1> DEFINE n == Len(text)
           short == Shortened(text)
<1>1. n \in Nat /\ MaxLen \in Nat /\ Ellipsis \in Seq(AnyChar) /\ Len(Ellipsis) = 3
  BY AnyText, TextAssumption
<1>2. CASE n <= MaxLen
  <2>1. short = text
    BY <1>2 DEF Shortened
  <2> HIDE DEF short
  <2> QED
    BY <1>1, <1>2, <2>1 DEF short
<1>3. CASE ~(n <= MaxLen) /\ MaxLen <= 3
  <2>1. short = SubSeq(text, 1, MaxLen)
    BY <1>1, <1>3 DEF Shortened
  <2>2. MaxLen \in 0..n
    BY <1>1, <1>3
  <2>3. short \in Seq(AnyChar) /\ Len(short) = MaxLen
    BY <2>1, <2>2, Beginning
  <2> HIDE DEF short
  <2>4. \A k \in 0..n : k + Len(Ellipsis) <= MaxLen \/ n <= MaxLen => k = 0
    BY <1>1, <1>3
  <2> QED
    BY <1>1, <2>3, <2>4 DEF short
<1>4. CASE ~(n <= MaxLen) /\ ~(MaxLen <= 3)
  <2> DEFINE m == MaxLen - 3
             begin == SubSeq(text, 1, m)
  <2>1. short = begin \o Ellipsis
    BY <1>1, <1>4 DEF Shortened
  <2>2. m \in 0..n /\ m \in Nat /\ m + 3 = MaxLen
    BY <1>1, <1>4
  <2> HIDE DEF m
  <2>3. begin \in Seq(AnyChar) /\ Len(begin) = m /\ \A i \in 1..m : begin[i] = text[i]
    BY <2>2, Beginning
  <2> HIDE DEF begin, short
  <2>4. /\ short \in Seq(AnyChar) /\ Len(short) = Len(begin) + Len(Ellipsis)
        /\ \A i \in 1..Len(begin) : short[i] = begin[i]
    <3>1. begin \in Seq(AnyChar) /\ Ellipsis \in Seq(AnyChar)
      BY <1>1, <2>3
    <3> DEFINE w == begin \o Ellipsis
    <3>2. /\ w \in Seq(AnyChar) /\ Len(w) = Len(begin) + Len(Ellipsis)
          /\ \A i \in 1..Len(begin) : w[i] = begin[i]
      BY <3>1, ConcatParts
    <3>3. short = w
      BY <2>1
    <3> HIDE DEF w
    <3> QED
      BY <3>2, <3>3
  <2>5. Len(short) = MaxLen
    BY <1>1, <2>2, <2>3, <2>4
  <2>6. ASSUME NEW k \in 0..n, k + Len(Ellipsis) <= MaxLen
        PROVE  k \in 0..MaxLen /\ \A i \in 1..k : short[i] = text[i]
    <3>1. k \in 0..m /\ k \in 0..MaxLen
      BY <1>1, <2>2, <2>6
    <3>2. \A i \in 1..k : i \in 1..m
      BY <2>2, <3>1
    <3> QED
      BY <2>3, <2>4, <3>1, <3>2
  <2> QED
    BY <1>1, <1>4, <2>4, <2>5, <2>6 DEF short
<1> QED
  BY <1>2, <1>3, <1>4

\* The lines of a text, each but the first after the end of the one before it.
Pages(lines) ==
  [i \in 1..Len(lines) |-> IF i = 1 THEN lines[i] ELSE <<Newline>> \o lines[i]]

LEMMA PagesType ==
  ASSUME NEW lines \in Seq(Seq(Char))
  PROVE  /\ Pages(lines) \in Seq(Seq(AnyChar)) /\ Len(Pages(lines)) = Len(lines)
         /\ Joined(lines) = FlattenSeq(Pages(lines)) /\ Joined(lines) \in Seq(AnyChar)
<1>1. Len(lines) \in Nat /\ \A i \in 1..Len(lines) : lines[i] \in Seq(Char)
  OBVIOUS
<1>2. ASSUME NEW i \in 1..Len(lines)
      PROVE  (IF i = 1 THEN lines[i] ELSE <<Newline>> \o lines[i]) \in Seq(AnyChar)
  <2>1. lines[i] \in Seq(AnyChar) /\ <<Newline>> \in Seq(AnyChar)
    BY <1>1, AnyText
  <2>2. <<Newline>> \o lines[i] \in Seq(AnyChar)
    BY <2>1, ConcatProperties
  <2> QED
    BY <2>1, <2>2
<1>3. Pages(lines) \in [1..Len(lines) -> Seq(AnyChar)]
  BY <1>2 DEF Pages
<1>4. Pages(lines) \in Seq(Seq(AnyChar)) /\ Len(Pages(lines)) = Len(lines)
  BY <1>1, <1>3, FunctionSeq
<1>5. Joined(lines) = FlattenSeq(Pages(lines))
  BY DEF Joined, Pages
<1> QED
  BY <1>4, <1>5, FlatType

\* The text of some lines begins with that of the first of them.
LEMMA JoinedInTwo ==
  ASSUME NEW lines \in Seq(Seq(Char)), NEW m \in 0..Len(lines)
  PROVE  \E rest \in Seq(AnyChar) :
           /\ Joined(SubSeq(lines, 1, m)) \in Seq(AnyChar)
           /\ Joined(lines) = Joined(SubSeq(lines, 1, m)) \o rest
<1> DEFINE SS == Seq(AnyChar)
           begin == SubSeq(lines, 1, m)
           pages == Pages(lines)
           some == Pages(begin)
           T == {k \in 0..Len(lines) : m <= k => \E rest \in SS :
                   FlattenSeq(SubSeq(pages, 1, k)) = FlattenSeq(SubSeq(pages, 1, m)) \o rest}
<1>1. Len(lines) \in Nat /\ m \in Nat /\ m <= Len(lines)
  OBVIOUS
<1>2. begin \in Seq(Seq(Char)) /\ Len(begin) = m /\ \A i \in 1..m : begin[i] = lines[i]
  <2> DEFINE CC == Seq(Char)
  <2>1. lines \in Seq(CC)
    OBVIOUS
  <2> HIDE DEF CC
  <2>2. begin \in Seq(CC) /\ Len(begin) = m /\ \A i \in 1..m : begin[i] = lines[i]
    BY <2>1, Beginning
  <2> QED
    BY <2>2 DEF CC
<1>3. pages \in Seq(SS) /\ Len(pages) = Len(lines) /\ Joined(lines) = FlattenSeq(pages)
  BY PagesType
<1>4. /\ some \in Seq(SS) /\ Len(some) = m /\ Joined(begin) = FlattenSeq(some)
      /\ Joined(begin) \in SS
  BY <1>2, PagesType
<1>5. \A i \in 1..m : some[i] = pages[i]
  BY <1>1, <1>2 DEF Pages
<1>6. \A s \in Seq(SS) : FlattenSeq(s) \in SS
  BY FlatType
<1>7. \A s \in Seq(SS) : \A x \in SS : FlattenSeq(Append(s, x)) = FlattenSeq(s) \o x
  BY FlatAppend
<1>8. \A x \in SS : \A y \in SS : x \o y \in SS
  BY ConcatProperties
<1>9. \A x \in SS : \A y \in SS : \A z \in SS : (x \o y) \o z = x \o (y \o z)
  BY ConcatAssociative
<1>10. <<>> \in SS /\ \A x \in SS : x \o <<>> = x
  BY ConcatEmptySeq
<1> HIDE DEF SS, begin, pages, some
<1>11. /\ SubSeq(pages, 1, Len(lines)) = pages
       /\ \A k \in 0..Len(lines) : SubSeq(pages, 1, k) \in Seq(SS)
       /\ \A k \in 0..Len(lines) - 1 :
            SubSeq(pages, 1, k + 1) = Append(SubSeq(pages, 1, k), pages[k + 1])
  BY <1>3, Beginnings
<1>12. SubSeq(pages, 1, m) = some
  <2> DEFINE l == SubSeq(pages, 1, m)
  <2>1. l \in Seq(SS) /\ Len(l) = m /\ \A i \in 1..m : l[i] = pages[i]
    BY <1>1, <1>3, Beginning
  <2> HIDE DEF l
  <2>2. l = some
    BY <1>4, <1>5, <2>1, SeqEqual
  <2> QED
    BY <2>2 DEF l
<1>13. 0 \in T
  <2>1. 0 \in 0..Len(lines)
    BY <1>1
  <2>2. CASE m = 0
    <3> DEFINE none == FlattenSeq(SubSeq(pages, 1, 0))
    <3>1. SubSeq(pages, 1, 0) \in Seq(SS)
      BY <1>11, <2>1
    <3>2. none \in SS
      BY <1>6, <3>1
    <3>3. none = FlattenSeq(SubSeq(pages, 1, m)) \o <<>>
      <4>1. none = FlattenSeq(SubSeq(pages, 1, m))
        BY <2>2
      <4> HIDE DEF none
      <4> QED
        BY <1>10, <3>2, <4>1
    <3> QED
      BY <1>10, <2>1, <3>3
  <2>3. CASE m # 0
    <3>1. ~(m <= 0)
      BY <1>1, <2>3
    <3> QED
      BY <2>1, <3>1
  <2> QED
    BY <2>2, <2>3
<1>14. ASSUME NEW k \in 0..Len(lines) - 1, k \in T
       PROVE  k + 1 \in T
  <2>1. k \in 0..Len(lines) /\ k + 1 \in 0..Len(lines) /\ k + 1 \in 1..Len(lines)
    BY <1>1
  <2>2. CASE m <= k
    <3>1. PICK rest \in SS :
            FlattenSeq(SubSeq(pages, 1, k)) = FlattenSeq(SubSeq(pages, 1, m)) \o rest
      BY <1>14, <2>2
    <3>2. pages[k + 1] \in SS
      BY <1>3, <2>1
    <3>3. FlattenSeq(SubSeq(pages, 1, k + 1)) = FlattenSeq(SubSeq(pages, 1, k)) \o pages[k + 1]
      BY <1>7, <1>11, <2>1, <3>2
    <3>4. FlattenSeq(SubSeq(pages, 1, m)) \in SS
      BY <1>6, <1>11
    <3>5. FlattenSeq(SubSeq(pages, 1, k + 1))
            = FlattenSeq(SubSeq(pages, 1, m)) \o (rest \o pages[k + 1])
      <4> DEFINE head == FlattenSeq(SubSeq(pages, 1, m))
                 page == pages[k + 1]
      <4>1. head \in SS /\ page \in SS
        BY <3>2, <3>4
      <4>2. FlattenSeq(SubSeq(pages, 1, k + 1)) = (head \o rest) \o page
        BY <3>1, <3>3
      <4> HIDE DEF head, page
      <4>3. (head \o rest) \o page = head \o (rest \o page)
        BY <1>9, <4>1
      <4> QED
        BY <4>2, <4>3 DEF head, page
    <3> QED
      BY <1>8, <2>1, <3>2, <3>5
  <2>3. CASE m = k + 1
    <3>1. FlattenSeq(SubSeq(pages, 1, m)) = FlattenSeq(SubSeq(pages, 1, m)) \o <<>>
      BY <1>6, <1>10, <1>11
    <3> QED
      BY <1>10, <2>1, <2>3, <3>1
  <2>4. CASE ~(m <= k + 1)
    BY <2>1, <2>4
  <2>5. m <= k \/ m = k + 1 \/ ~(m <= k + 1)
    BY <1>1, <2>1
  <2> QED
    BY <2>2, <2>3, <2>4, <2>5
<1> HIDE DEF T
<1>15. \A k \in 0..Len(lines) : k \in T
  BY <1>1, <1>13, <1>14, FromZero
<1>16. Len(lines) \in T
  BY <1>1, <1>15
<1>17. PICK rest \in SS :
         FlattenSeq(SubSeq(pages, 1, Len(lines))) = FlattenSeq(SubSeq(pages, 1, m)) \o rest
  BY <1>1, <1>16 DEF T
<1>18. Joined(lines) = Joined(begin) \o rest
  BY <1>3, <1>4, <1>11, <1>12, <1>17
<1>19. rest \in Seq(AnyChar) /\ Joined(begin) \in Seq(AnyChar)
  BY <1>4 DEF SS
<1> QED
  BY <1>18, <1>19 DEF begin

\* Two texts that agree up to a place begin alike.
LEMMA BeginAlike ==
  ASSUME NEW S, NEW s \in Seq(S), NEW t \in Seq(S), NEW k \in 0..Len(s), k \in 0..Len(t),
         \A i \in 1..k : s[i] = t[i]
  PROVE  SubSeq(s, 1, k) = SubSeq(t, 1, k)
<1> DEFINE u == SubSeq(s, 1, k)
           v == SubSeq(t, 1, k)
<1>1. u \in Seq(S) /\ Len(u) = k /\ \A i \in 1..k : u[i] = s[i]
  BY Beginning
<1>2. v \in Seq(S) /\ Len(v) = k /\ \A i \in 1..k : v[i] = t[i]
  BY Beginning
<1> HIDE DEF u, v
<1>3. u = v
  BY <1>1, <1>2, SeqEqual
<1> QED
  BY <1>3 DEF u, v

\* What a snippet's text promises of some lines and the first of them.
Printed(text, lines, m) ==
  LET upTo == Joined(SubSeq(lines, 1, m)) IN
  /\ Len(text) <= MaxLen
  /\ Len(upTo) + Len(Ellipsis) <= MaxLen \/ Len(Joined(lines)) <= MaxLen
       => SubSeq(text, 1, Len(upTo)) = upTo

LEMMA ShortenedLines ==
  ASSUME NEW lines \in Seq(Seq(Char)), NEW m \in 0..Len(lines)
  PROVE  Printed(Shortened(Joined(lines)), lines, m)
<1> DEFINE upTo == Joined(SubSeq(lines, 1, m))
           all == Joined(lines)
           text == Shortened(all)
           k == Len(upTo)
<1>1. PICK rest \in Seq(AnyChar) : upTo \in Seq(AnyChar) /\ all = upTo \o rest
  BY JoinedInTwo
<1>2. all \in Seq(AnyChar)
  BY PagesType
<1> HIDE DEF upTo, all
<1>3. /\ text \in Seq(AnyChar) /\ Len(text) <= MaxLen
      /\ \A j \in 0..Len(all) : j + Len(Ellipsis) <= MaxLen \/ Len(all) <= MaxLen =>
           j \in 0..Len(text) /\ \A i \in 1..j : text[i] = all[i]
  BY <1>2, ShortenedFacts
<1>4. Len(upTo) \in 0..Len(all) /\ SubSeq(all, 1, Len(upTo)) = upTo
  <2>1. Len(all) = Len(upTo) + Len(rest) /\ Len(upTo) \in Nat /\ Len(rest) \in Nat
    BY <1>1, ConcatParts
  <2>2. SubSeq(upTo \o rest, 1, Len(upTo)) = upTo
    BY <1>1, ConcatCut
  <2> QED
    BY <1>1, <2>1, <2>2
<1> HIDE DEF text
<1>5. ASSUME k + Len(Ellipsis) <= MaxLen \/ Len(all) <= MaxLen
      PROVE  SubSeq(text, 1, k) = upTo
  <2>1. k \in 0..Len(text) /\ \A i \in 1..k : text[i] = all[i]
    BY <1>3, <1>4, <1>5
  <2>2. SubSeq(text, 1, k) = SubSeq(all, 1, k)
    BY <1>2, <1>3, <1>4, <2>1, BeginAlike
  <2> QED
    BY <1>4, <2>2
<1>6. Printed(text, lines, m) <=>
        /\ Len(text) <= MaxLen
        /\ k + Len(Ellipsis) <= MaxLen \/ Len(all) <= MaxLen => SubSeq(text, 1, k) = upTo
  BY DEF Printed, upTo, all
<1>7. Printed(text, lines, m)
  BY <1>3, <1>5, <1>6
<1> QED
  BY <1>7 DEF text, all
-----------------------------------------------------------------------------
(* Braces.                                                                 *)

\* Where a group is: between two texts.
IsGroup(y) ==
  /\ y \in Seq(Char) /\ Len(y) >= 3 /\ y[1] = Open /\ y[Len(y)] = Close
  /\ \A k \in 2..Len(y) - 1 : y[k] \notin {Open, Close}
Variants(y) == ToSet(Split(SubSeq(y, 2, Len(y) - 1), Comma))
At(l, y) == <<Len(l) + 1, Len(l) + Len(y)>>
Chosen(l, y, z) == {l \o p \o z : p \in Variants(y)}

LEMMA ChoicesFacts ==
  ASSUME NEW y, IsGroup(y)
  PROVE  /\ Variants(y) # {} /\ IsFiniteSet(Variants(y))
         /\ \A p \in Variants(y) : p \in Seq(Char) /\ Len(p) + 2 <= Len(y)
<1> DEFINE w == SubSeq(y, 2, Len(y) - 1)
           parts == Split(w, Comma)
           n == Len(parts)
<1>1. y \in Seq(Char) /\ Len(y) \in Nat /\ Len(y) >= 3
  BY DEF IsGroup
<1>2. w \in Seq(Char) /\ Len(w) = Len(y) - 2
  <2> DEFINE to == Len(y) - 1
  <2>1. to \in Nat /\ 1 \in Nat /\ 1 <= to /\ to <= Len(y)
    BY <1>1
  <2> HIDE DEF to
  <2>2. LET part == SubSeq(y, 1 + 1, to) IN part \in Seq(Char) /\ Len(part) = to - 1
    BY <1>1, <2>1, PartOf
  <2>3. 1 + 1 = 2
    OBVIOUS
  <2>4. SubSeq(y, 2, to) \in Seq(Char) /\ Len(SubSeq(y, 2, to)) = to - 1
    BY <2>2, <2>3
  <2>5. to - 1 = Len(y) - 2
    BY <1>1 DEF to
  <2> QED
    BY <2>4, <2>5 DEF to
<1> HIDE DEF w
<1>3. n \in Nat /\ n >= 1 /\ DOMAIN parts = 1..n
  <2>1. UpTo(w, Comma, Len(w)) \in Nat /\ n = UpTo(w, Comma, Len(w)) + 1
    BY <1>2, Pieces
  <2>2. parts = [k \in 1..Count(w, Comma) + 1 |->
                   SubSeq(w, Cut(w, Comma, k - 1) + 1, Cut(w, Comma, k) - 1)]
    BY DEF Split
  <2>3. Count(w, Comma) = UpTo(w, Comma, Len(w))
    BY <1>2, CountIsUpTo
  <2> QED
    BY <2>1, <2>2, <2>3
<1>4. Variants(y) = {parts[i] : i \in 1..n}
  <2>1. Variants(y) = ToSet(parts)
    BY DEF Variants, w
  <2> HIDE DEF parts, n
  <2> QED
    BY <1>3, <2>1 DEF ToSet
<1>5. ASSUME NEW i \in 1..n
      PROVE  parts[i] \in Seq(Char) /\ Len(parts[i]) + 2 <= Len(y)
  <2> DEFINE a == Cut(w, Comma, i - 1)
             e == Cut(w, Comma, i)
             p == parts[i]
  <2>1. IsPiece(p, w, a, e)
    BY <1>2, PieceFacts
  <2> HIDE DEF p, a, e
  <2>2. p \in Seq(Char) /\ a \in 0..Len(w) /\ e \in 1..Len(w) + 1 /\ Len(p) = e - a - 1
    BY <2>1 DEF IsPiece
  <2>3. Len(p) + 2 <= Len(y)
    BY <1>1, <1>2, <2>2
  <2> QED
    BY <2>2, <2>3 DEF p
<1> HIDE DEF parts, n
<1>6. IsFiniteSet({parts[i] : i \in 1..n})
  <2>1. IsFiniteSet(1..n)
    BY <1>3, FS_Interval
  <2>2. \A f : IsFiniteSet({f[i] : i \in 1..n})
    <3> TAKE f
    <3> DEFINE g == [i \in 1..n |-> f[i]]
               T == {f[i] : i \in 1..n}
    <3>1. g \in Surjection(1..n, T)
      BY DEF Surjection
    <3> QED
      BY <2>1, <3>1, FS_Surjection
  <2> QED
    BY <2>2
<1>7. 1 \in 1..n
  BY <1>3
<1> QED
  BY <1>4, <1>5, <1>6, <1>7

\* A group is where it is at.
LEMMA GroupAt ==
  ASSUME NEW l \in Seq(Char), NEW y, NEW z \in Seq(Char), IsGroup(y)
  PROVE  LET s == l \o y \o z
             each == Alternatives(s, At(l, y)) IN
         /\ s \in Seq(Char) /\ At(l, y) \in Groups(s)
         /\ Len(each) \in Nat /\ DOMAIN each = 1..Len(each)
         /\ ToSet(each) = Chosen(l, y, z)
<1> DEFINE s == l \o y \o z
           a == Len(l) + 1
           b == Len(l) + Len(y)
           g == At(l, y)
           each == Alternatives(s, g)
           w == SubSeq(y, 2, Len(y) - 1)
           parts == Split(w, Comma)
           n == Len(parts)
<1>1. /\ y \in Seq(Char) /\ Len(y) \in Nat /\ Len(y) >= 3 /\ y[1] = Open /\ y[Len(y)] = Close
      /\ \A k \in 2..Len(y) - 1 : y[k] \notin {Open, Close}
  BY DEF IsGroup
<1>2. /\ s \in Seq(Char) /\ Len(s) = Len(l) + Len(y) + Len(z)
      /\ Len(l) \in Nat /\ Len(z) \in Nat
      /\ SubSeq(s, 1, Len(l)) = l /\ SubSeq(s, Len(l) + Len(y) + 1, Len(s)) = z
      /\ \A i \in 1..Len(y) : s[Len(l) + i] = y[i]
  <2>1. y \in Seq(Char)
    BY <1>1
  <2> QED
    BY <2>1, ConcatThree
<1>3. SubSeq(s, a + 1, b - 1) = w
  <2> DEFINE j == Len(y) - 1
  <2>1. 1 \in Nat /\ j \in Nat /\ 1 <= j /\ j <= Len(y)
    BY <1>1
  <2> HIDE DEF j
  <2>2. SubSeq(l \o y \o z, Len(l) + 1 + 1, Len(l) + j) = SubSeq(y, 1 + 1, j)
    BY <1>1, <2>1, ConcatMiddle
  <2>3. Len(l) + 1 + 1 = a + 1 /\ Len(l) + j = b - 1 /\ 1 + 1 = 2
    BY <1>1, <1>2 DEF j
  <2> QED
    BY <2>2, <2>3 DEF j
<1> HIDE DEF s
<1>4. g \in Groups(s)
  <2>1. a \in 1..Len(s) /\ b \in 1..Len(s) /\ a + 1 < b /\ g[1] = a /\ g[2] = b
        /\ g = <<a, b>>
    BY <1>1, <1>2 DEF At
  <2>2. s[a] = Open
    <3>1. 1 \in 1..Len(y)
      BY <1>1
    <3>2. s[Len(l) + 1] = y[1]
      BY <1>2, <3>1
    <3> QED
      BY <1>1, <3>2
  <2>3. s[b] = Close
    <3>1. Len(y) \in 1..Len(y)
      BY <1>1
    <3> QED
      BY <1>1, <1>2, <3>1
  <2>4. ASSUME NEW k \in a + 1..b - 1
        PROVE  s[k] \notin {Open, Close}
    <3>1. PICK i \in 2..Len(y) - 1 : k = Len(l) + i
      <4>1. k - Len(l) \in 2..Len(y) - 1 /\ k = Len(l) + (k - Len(l))
        BY <1>1, <1>2
      <4> QED
        BY <4>1
    <3>2. i \in 1..Len(y)
      BY <1>1
    <3> QED
      BY <1>1, <1>2, <3>1, <3>2
  <2> HIDE DEF a, b, g
  <2> QED
    BY <2>1, <2>2, <2>3, <2>4 DEF Groups
<1>5. /\ SubSeq(s, 1, g[1] - 1) = l /\ SubSeq(s, g[2] + 1, Len(s)) = z
      /\ SubSeq(s, g[1] + 1, g[2] - 1) = w
  <2>1. g[1] = a /\ g[2] = b /\ a - 1 = Len(l) /\ b + 1 = Len(l) + Len(y) + 1
    BY <1>1, <1>2 DEF At
  <2> QED
    BY <1>2, <1>3, <2>1
<1>6. each = [i \in 1..n |-> l \o parts[i] \o z]
  BY <1>5 DEF Alternatives
<1>7. n \in Nat /\ DOMAIN parts = 1..n
  <2>0. w \in Seq(Char)
    <3>1. \A i \in 2..Len(y) - 1 : y[i] \in Char
      BY <1>1
    <3>2. 2 \in Int /\ Len(y) - 1 \in Int
      BY <1>1
    <3> QED
      BY <3>1, <3>2, SubSeqProperties
  <2> HIDE DEF w
  <2>1. UpTo(w, Comma, Len(w)) \in Nat /\ n = UpTo(w, Comma, Len(w)) + 1
    BY <2>0, Pieces
  <2>2. parts = [k \in 1..Count(w, Comma) + 1 |->
                   SubSeq(w, Cut(w, Comma, k - 1) + 1, Cut(w, Comma, k) - 1)]
    BY DEF Split
  <2>3. Count(w, Comma) = UpTo(w, Comma, Len(w))
    BY <2>0, CountIsUpTo
  <2> QED
    BY <2>1, <2>2, <2>3
<1> HIDE DEF w
<1>8. Variants(y) = {parts[i] : i \in 1..n}
  <2>1. Variants(y) = ToSet(parts)
    BY DEF Variants, w
  <2> HIDE DEF parts, n
  <2> QED
    BY <1>7, <2>1 DEF ToSet
<1> HIDE DEF parts, n, each, g
<1>9. Len(each) = n /\ DOMAIN each = 1..n
  BY <1>6, <1>7
<1>10. ToSet(each) = {l \o parts[i] \o z : i \in 1..n}
  BY <1>6, <1>9 DEF ToSet
<1>11. ToSet(each) = Chosen(l, y, z)
  BY <1>8, <1>10 DEF Chosen
<1> QED
  BY <1>2, <1>4, <1>7, <1>9, <1>11 DEF each, g, s

\* Every group is at such a place.
LEMMA GroupPlace ==
  ASSUME NEW s \in Seq(Char), NEW g \in Groups(s)
  PROVE  /\ g[1] \in 1..Len(s) /\ g[2] \in 1..Len(s) /\ g = <<g[1], g[2]>>
         /\ g[1] + 1 < g[2] /\ s[g[1]] = Open /\ s[g[2]] = Close
         /\ \A k \in g[1] + 1..g[2] - 1 : s[k] \notin {Open, Close}
BY DEF Groups

\* What is between two places.
LEMMA StaysBetween ==
  ASSUME NEW s \in Seq(Char), NEW i \in Nat, NEW j \in Nat, i <= j, j <= Len(s)
  PROVE  /\ SubSeq(s, i + 1, j) \in Seq(Char) /\ Len(SubSeq(s, i + 1, j)) = j - i
         /\ \A k \in 1..j - i : SubSeq(s, i + 1, j)[k] = s[i + k]
<1>1. LET part == SubSeq(s, i + 1, j) IN
      part \in Seq(Char) /\ Len(part) = j - i /\ \A k \in 1..j - i : part[k] = s[i + k]
  BY PartOf
<1> QED
  BY <1>1

\* Two neighbours.
LEMMA JoinedUp ==
  ASSUME NEW s \in Seq(Char), NEW i \in Nat, NEW j \in Nat, NEW k \in Nat,
         i <= j, j <= k, k <= Len(s)
  PROVE  SubSeq(s, i + 1, j) \o SubSeq(s, j + 1, k) = SubSeq(s, i + 1, k)
<1>1. i + 1 \in 1..Len(s) + 1 /\ j \in (i + 1) - 1..Len(s) /\ k \in j..Len(s)
  OBVIOUS
<1> QED
  BY <1>1, ConcatAdjacentSubSeq

LEMMA BracedIsGroup ==
  ASSUME NEW s \in Seq(Char), NEW g \in Groups(s)
  PROVE  IsGroup(SubSeq(s, g[1], g[2])) /\ Len(SubSeq(s, g[1], g[2])) = g[2] - (g[1] - 1)
<1> DEFINE a == g[1] - 1
           b == g[2]
           y == SubSeq(s, a + 1, b)
<1>1. /\ g[1] \in 1..Len(s) /\ g[2] \in 1..Len(s)
      /\ g[1] + 1 < g[2] /\ s[g[1]] = Open /\ s[g[2]] = Close
      /\ \A k \in g[1] + 1..g[2] - 1 : s[k] \notin {Open, Close}
  BY GroupPlace
<1>2. /\ a \in Nat /\ b \in Nat /\ a + 2 < b /\ b <= Len(s) /\ a + 1 = g[1] /\ a <= b
      /\ s[a + 1] = Open /\ s[b] = Close
      /\ \A k \in a + 2..b - 1 : s[k] \notin {Open, Close}
  BY <1>1
<1> HIDE DEF a, b
<1>3. y \in Seq(Char) /\ Len(y) = b - a /\ \A k \in 1..b - a : y[k] = s[a + k]
  BY <1>2, StaysBetween
<1> HIDE DEF y
<1>4. y[1] = Open
  <2>1. 1 \in 1..b - a
    BY <1>2
  <2> QED
    BY <1>2, <1>3, <2>1
<1>5. y[Len(y)] = Close
  <2>1. PICK i \in 1..b - a : i = b - a /\ a + i = b
    <3>1. b - a \in 1..b - a /\ a + (b - a) = b
      BY <1>2
    <3> QED
      BY <3>1
  <2>2. y[i] = s[a + i]
    BY <1>3
  <2> QED
    BY <1>2, <1>3, <2>1, <2>2
<1>6. ASSUME NEW k \in 2..Len(y) - 1
      PROVE  y[k] \notin {Open, Close}
  <2>1. k \in 1..b - a /\ a + k \in a + 2..b - 1
    BY <1>2, <1>3
  <2>2. y[k] = s[a + k]
    BY <1>3, <2>1
  <2>3. s[a + k] \notin {Open, Close}
    BY <1>2, <2>1
  <2> QED
    BY <2>2, <2>3
<1>7. Len(y) >= 3
  BY <1>2, <1>3
<1>8. IsGroup(y)
  BY <1>3, <1>4, <1>5, <1>6, <1>7 DEF IsGroup
<1>9. y = SubSeq(s, g[1], g[2])
  BY <1>2 DEF y, b
<1> QED
  BY <1>3, <1>8, <1>9 DEF a, b

LEMMA GroupIs ==
  ASSUME NEW s \in Seq(Char), NEW g \in Groups(s)
  PROVE  \E l, y, z \in Seq(Char) : IsGroup(y) /\ s = l \o y \o z /\ g = At(l, y)
<1> DEFINE a == g[1] - 1
           b == g[2]
           n == Len(s)
           l == SubSeq(s, 0 + 1, a)
           y == SubSeq(s, a + 1, b)
           z == SubSeq(s, b + 1, n)
<1>1. /\ g[1] \in 1..Len(s) /\ g[2] \in 1..Len(s) /\ g = <<g[1], g[2]>> /\ g[1] + 1 < g[2]
  BY GroupPlace
<1>2. /\ a \in Nat /\ b \in Nat /\ n \in Nat /\ 0 \in Nat /\ 0 <= a /\ a <= b /\ b <= n
      /\ a + 1 = g[1] /\ a <= n /\ n <= Len(s)
  BY <1>1
<1>3. IsGroup(y) /\ Len(y) = b - a
  <2>1. IsGroup(SubSeq(s, g[1], g[2])) /\ Len(SubSeq(s, g[1], g[2])) = g[2] - (g[1] - 1)
    BY BracedIsGroup
  <2> QED
    BY <1>2, <2>1
<1> HIDE DEF a, b, n
<1>4. /\ l \in Seq(Char) /\ y \in Seq(Char) /\ z \in Seq(Char) /\ Len(l) = a - 0
  BY <1>2, StaysBetween DEF n
<1>5. l \o y = SubSeq(s, 0 + 1, b) /\ SubSeq(s, 0 + 1, b) \o z = SubSeq(s, 0 + 1, n)
  <2>1. 0 <= b /\ b <= Len(s)
    BY <1>2
  <2>2. l \o y = SubSeq(s, 0 + 1, b)
    BY <1>2, <2>1, JoinedUp
  <2>3. SubSeq(s, 0 + 1, b) \o z = SubSeq(s, 0 + 1, n)
    BY <1>2, <2>1, JoinedUp
  <2> QED
    BY <2>2, <2>3
<1>6. SubSeq(s, 0 + 1, n) = s
  BY SubSeqFull DEF n
<1> HIDE DEF l, y, z
<1>7. s = l \o y \o z
  BY <1>5, <1>6
<1>8. At(l, y) = g
  <2>1. Len(l) + 1 = g[1] /\ Len(l) + Len(y) = g[2]
    BY <1>2, <1>3, <1>4 DEF b
  <2> QED
    BY <1>1, <2>1 DEF At
<1> QED
  BY <1>3, <1>4, <1>7, <1>8

\* Groups do not overlap.
LEMMA GroupsApart ==
  ASSUME NEW s \in Seq(Char), NEW g \in Groups(s), NEW h \in Groups(s), g # h
  PROVE  g[2] < h[1] \/ h[2] < g[1]
<1>1. /\ g[1] \in 1..Len(s) /\ g[2] \in 1..Len(s) /\ g = <<g[1], g[2]>>
      /\ g[1] + 1 < g[2] /\ s[g[1]] = Open /\ s[g[2]] = Close
      /\ \A k \in g[1] + 1..g[2] - 1 : s[k] \notin {Open, Close}
  BY GroupPlace
<1>2. /\ h[1] \in 1..Len(s) /\ h[2] \in 1..Len(s) /\ h = <<h[1], h[2]>>
      /\ h[1] + 1 < h[2] /\ s[h[1]] = Open /\ s[h[2]] = Close
      /\ \A k \in h[1] + 1..h[2] - 1 : s[k] \notin {Open, Close}
  BY GroupPlace
<1> DEFINE a == g[1]
           b == g[2]
           c == h[1]
           d == h[2]
<1>3. /\ a \in Nat /\ b \in Nat /\ c \in Nat /\ d \in Nat /\ a + 1 < b /\ c + 1 < d
      /\ ~(a = c /\ b = d)
      /\ c \notin a + 1..b - 1 /\ d \notin a + 1..b - 1
      /\ a \notin c + 1..d - 1 /\ b \notin c + 1..d - 1
      /\ a # d /\ b # c
  <2>1. Open # Close
    BY DEF Open, Close
  <2> QED
    BY <1>1, <1>2, <2>1
<1> HIDE DEF a, b, c, d
<1>4. b < c \/ d < a
  BY <1>3
<1> QED
  BY <1>4 DEF a, b, c, d

OneThenOther(s, g, h) ==
  \E l, x, m, y, z \in Seq(Char) :
    /\ IsGroup(x) /\ IsGroup(y) /\ s = l \o x \o m \o y \o z
    /\ g = At(l, x) /\ h = At(l \o x \o m, y)

LEMMA TwoGroups ==
  ASSUME NEW s \in Seq(Char), NEW g \in Groups(s), NEW h \in Groups(s), g[2] < h[1]
  PROVE  OneThenOther(s, g, h)
<1> DEFINE a == g[1] - 1
           b == g[2]
           c == h[1] - 1
           d == h[2]
           n == Len(s)
           l == SubSeq(s, 0 + 1, a)
           x == SubSeq(s, a + 1, b)
           m == SubSeq(s, b + 1, c)
           y == SubSeq(s, c + 1, d)
           z == SubSeq(s, d + 1, n)
<1>1. /\ g[1] \in 1..Len(s) /\ g[2] \in 1..Len(s) /\ g = <<g[1], g[2]>> /\ g[1] + 1 < g[2]
      /\ h[1] \in 1..Len(s) /\ h[2] \in 1..Len(s) /\ h = <<h[1], h[2]>> /\ h[1] + 1 < h[2]
  BY GroupPlace
<1>2. /\ a \in Nat /\ b \in Nat /\ c \in Nat /\ d \in Nat /\ n \in Nat /\ 0 \in Nat
      /\ 0 <= a /\ a <= b /\ b <= c /\ c <= d /\ d <= n
      /\ a + 1 = g[1] /\ c + 1 = h[1] /\ a <= n /\ b <= n /\ c <= n
      /\ 0 <= b /\ 0 <= c /\ 0 <= d /\ n <= Len(s)
  BY <1>1
<1>3. IsGroup(x) /\ Len(x) = b - a
  <2>1. IsGroup(SubSeq(s, g[1], g[2])) /\ Len(SubSeq(s, g[1], g[2])) = g[2] - (g[1] - 1)
    BY BracedIsGroup
  <2> QED
    BY <1>2, <2>1
<1>4. IsGroup(y) /\ Len(y) = d - c
  <2>1. IsGroup(SubSeq(s, h[1], h[2])) /\ Len(SubSeq(s, h[1], h[2])) = h[2] - (h[1] - 1)
    BY BracedIsGroup
  <2> QED
    BY <1>2, <2>1
<1> HIDE DEF a, b, c, d, n
<1>5. /\ l \in Seq(Char) /\ Len(l) = a - 0 /\ x \in Seq(Char)
      /\ m \in Seq(Char) /\ y \in Seq(Char) /\ z \in Seq(Char)
  BY <1>2, StaysBetween DEF n
<1>6. l \o x = SubSeq(s, 0 + 1, b)
  BY <1>2, JoinedUp DEF n
<1>7. l \o x \o m = SubSeq(s, 0 + 1, c)
  BY <1>2, <1>6, JoinedUp DEF n
<1>8. l \o x \o m \o y = SubSeq(s, 0 + 1, d)
  BY <1>2, <1>7, JoinedUp DEF n
<1>9. l \o x \o m \o y \o z = SubSeq(s, 0 + 1, n)
  BY <1>2, <1>8, JoinedUp
<1>10. SubSeq(s, 0 + 1, n) = s
  BY SubSeqFull DEF n
<1>11. Len(l \o x \o m) = c - 0
  BY <1>2, <1>7, StaysBetween DEF n
<1> HIDE DEF l, x, m, y, z
<1>12. g = At(l, x)
  <2>1. Len(l) + 1 = g[1] /\ Len(l) + Len(x) = g[2]
    BY <1>2, <1>3, <1>5 DEF b
  <2> QED
    BY <1>1, <2>1 DEF At
<1>13. h = At(l \o x \o m, y)
  <2> DEFINE o == Len(l \o x \o m)
  <2>0. o = c - 0
    BY <1>11
  <2> HIDE DEF o
  <2>1. o + 1 = h[1] /\ o + Len(y) = h[2]
    BY <1>2, <1>4, <2>0 DEF d
  <2> QED
    BY <1>1, <2>1 DEF At, o
<1> QED
  BY <1>3, <1>4, <1>5, <1>9, <1>10, <1>12, <1>13 DEF OneThenOther

LEMMA FirstIsGroup ==
  ASSUME NEW s \in Seq(Char), Groups(s) # {}
  PROVE  FirstGroup(s) \in Groups(s)
<1> DEFINE B == {g[1] : g \in Groups(s)}
<1>1. \A g \in Groups(s) : g[1] \in Nat
  BY GroupPlace
<1>2. B \in SUBSET Nat /\ B # {}
  BY <1>1
<1>3. Min(B) \in B /\ \A m \in B : Min(B) <= m
  BY <1>2, LeastOf
<1> DEFINE least == Min(B)
<1> HIDE DEF least
<1>4. PICK g \in Groups(s) : g[1] = least
  BY <1>3 DEF least
<1>5. \A h \in Groups(s) : g[1] <= h[1]
  BY <1>3, <1>4 DEF least
<1> QED
  BY <1>5 DEF FirstGroup

\* The alternatives of a group are texts that are shorter.
LEMMA AlternativesFacts ==
  ASSUME NEW s \in Seq(Char), NEW g \in Groups(s)
  PROVE  LET each == Alternatives(s, g) IN
         /\ Len(each) \in Nat /\ DOMAIN each = 1..Len(each)
         /\ ToSet(each) = {each[i] : i \in 1..Len(each)}
         /\ ToSet(each) # {}
         /\ \A t \in ToSet(each) : t \in Seq(Char) /\ Len(t) < Len(s)
<1> DEFINE each == Alternatives(s, g)
<1>1. PICK l, y, z \in Seq(Char) : IsGroup(y) /\ s = l \o y \o z /\ g = At(l, y)
  BY GroupIs
<1>2. /\ Len(each) \in Nat /\ DOMAIN each = 1..Len(each) /\ ToSet(each) = Chosen(l, y, z)
  BY <1>1, GroupAt
<1> HIDE DEF each
<1>3. ToSet(each) = {each[i] : i \in 1..Len(each)}
  BY <1>2 DEF ToSet
<1>4. Variants(y) # {} /\ \A p \in Variants(y) : p \in Seq(Char) /\ Len(p) + 2 <= Len(y)
  BY <1>1, ChoicesFacts
<1>5. ASSUME NEW t \in Chosen(l, y, z)
      PROVE  t \in Seq(Char) /\ Len(t) < Len(s)
  <2>1. PICK p \in Variants(y) : t = l \o p \o z
    BY DEF Chosen
  <2>2. p \in Seq(Char) /\ Len(p) + 2 <= Len(y)
    BY <1>4
  <2>3. t \in Seq(Char) /\ Len(t) = Len(l) + Len(p) + Len(z)
    BY <2>1, <2>2, ConcatThree
  <2>4. Len(s) = Len(l) + Len(y) + Len(z)
    BY <1>1, ConcatThree
  <2>5. Len(l) \in Nat /\ Len(p) \in Nat /\ Len(y) \in Nat /\ Len(z) \in Nat
    BY <2>2
  <2> QED
    BY <2>2, <2>3, <2>4, <2>5
<1>6. Chosen(l, y, z) # {}
  BY <1>4 DEF Chosen
<1>7. /\ Len(each) \in Nat /\ DOMAIN each = 1..Len(each)
      /\ ToSet(each) = {each[i] : i \in 1..Len(each)} /\ ToSet(each) # {}
      /\ \A t \in ToSet(each) : t \in Seq(Char) /\ Len(t) < Len(s)
  BY <1>2, <1>3, <1>5, <1>6
<1> QED
  BY <1>7 DEF each

Lengths == [s \in Seq(Char) |-> Len(s)]

LEMMA LengthsType ==
  Lengths \in [Seq(Char) -> Nat] /\ \A s \in Seq(Char) : Lengths[s] = Len(s)
BY DEF Lengths

\* All expansions, whatever the order.
AllBody(s, f) ==
  IF Groups(s) = {} THEN {s}
  ELSE UNION {UNION {f[t] : t \in ToSet(Alternatives(s, g))} : g \in Groups(s)}
IsAll(f) == f = [s \in Seq(Char) |-> AllBody(s, f)]

LEMMA AllExists == \E f \in [Seq(Char) -> SUBSET Seq(Char)] : IsAll(f)
<1> DEFINE D == Seq(Char)
           V == SUBSET D
           B == [p \in D \X [D -> V] |-> AllBody(p[1], p[2])]
<1>1. \A s \in D : \A g \in Groups(s) : \A t \in ToSet(Alternatives(s, g)) :
        t \in D /\ Len(t) < Len(s)
  BY AlternativesFacts
<1> HIDE DEF D
<1>2. ASSUME NEW s \in D, NEW f \in [D -> V]
      PROVE  AllBody(s, f) \in V
  <2>1. \A g \in Groups(s) : \A t \in ToSet(Alternatives(s, g)) : f[t] \in SUBSET D
    BY <1>1
  <2> QED
    BY <2>1 DEF AllBody
<1>3. B \in [D \X [D -> V] -> V]
  BY <1>2
<1>4. \A s \in D : \A f \in [D -> V] : B[<<s, f>>] = AllBody(s, f)
  OBVIOUS
<1> HIDE DEF B
<1>5. FromLower(D, V, Lengths, B)
  <2> SUFFICES ASSUME NEW s \in D, NEW f \in [D -> V], NEW g \in [D -> V],
                      Alike(f, g, D, Lengths, Lengths[s])
               PROVE  B[<<s, f>>] = B[<<s, g>>]
    BY DEF FromLower
  <2>1. \A h \in Groups(s) : \A t \in ToSet(Alternatives(s, h)) : f[t] = g[t]
    <3> TAKE h \in Groups(s)
    <3> TAKE t \in ToSet(Alternatives(s, h))
    <3>1. t \in D /\ Len(t) < Len(s)
      BY <1>1
    <3>2. Lengths[t] < Lengths[s]
      BY <3>1, LengthsType DEF D
    <3> QED
      BY <3>1, <3>2 DEF Alike
  <2>2. \A h \in Groups(s) : {f[t] : t \in ToSet(Alternatives(s, h))}
                               = {g[t] : t \in ToSet(Alternatives(s, h))}
    BY <2>1
  <2>3. AllBody(s, f) = AllBody(s, g)
    BY <2>2 DEF AllBody
  <2> QED
    BY <1>4, <2>3
<1>6. PICK f \in [D -> V] : \A s \in D : f[s] = B[<<s, f>>]
  <2>1. V # {} /\ Lengths \in [D -> Nat]
    BY LengthsType DEF D
  <2> HIDE DEF V
  <2>2. IsBody(D, V, Lengths, B)
    BY <1>3, <1>5, <2>1 DEF IsBody
  <2>3. HasFix(D, V, B)
    BY <2>2, ByRank
  <2> QED
    BY <2>3 DEF HasFix
<1>7. \A s \in D : f[s] = AllBody(s, f)
  BY <1>4, <1>6
<1>8. IsAll(f)
  BY <1>6, <1>7 DEF IsAll, D
<1> QED
  BY <1>8 DEF D

\* What is found, the first group first.
Collected(s, f) ==
  [i \in 1..Len(Alternatives(s, FirstGroup(s))) |-> f[Alternatives(s, FirstGroup(s))[i]]]
Upto(all) == SubSeq(all, 1, Min({Len(all), MaxBraceExpansions}))
ExpandBody(s, f) ==
  IF Groups(s) = {} THEN <<s>> ELSE Upto(Distinct(FlattenSeq(Collected(s, f))))
IsExpand(f) == f = [s \in Seq(Char) |-> ExpandBody(s, f)]

LEMMA UptoFacts ==
  ASSUME NEW S, NEW all \in Seq(S)
  PROVE  /\ Upto(all) \in Seq(S) /\ Len(Upto(all)) = Min({Len(all), MaxBraceExpansions})
         /\ Len(Upto(all)) <= Len(all) /\ Len(Upto(all)) \in Nat
         /\ \A i \in 1..Len(Upto(all)) : i \in 1..Len(all) /\ Upto(all)[i] = all[i]
<1> DEFINE m == Min({Len(all), MaxBraceExpansions})
           u == SubSeq(all, 1, m)
<1>1. Len(all) \in Nat /\ MaxBraceExpansions \in Nat /\ \A i \in 1..Len(all) : all[i] \in S
  BY TextAssumption
<1>2. m \in Nat /\ m <= Len(all)
  <2> DEFINE n == Len(all)
  <2>1. n \in Nat
    BY <1>1
  <2> HIDE DEF n
  <2>2. Min({n, MaxBraceExpansions}) \in Nat /\ Min({n, MaxBraceExpansions}) <= n
    BY <1>1, <2>1, LesserOf
  <2> QED
    BY <2>2 DEF n
<1> HIDE DEF m
<1>3. \A i \in 1..m : all[i] \in S
  BY <1>1, <1>2
<1>4. /\ u \in Seq(S) /\ Len(u) = IF 1 <= m THEN m - 1 + 1 ELSE 0
      /\ \A i \in 1..m - 1 + 1 : u[i] = all[1 + i - 1]
  BY <1>2, <1>3, SubSeqProperties
<1> HIDE DEF u
<1>5. Len(u) = m
  BY <1>2, <1>4
<1>6. \A i \in 1..m : i \in 1..Len(all) /\ u[i] = all[i]
  <2> TAKE i \in 1..m
  <2>1. i \in 1..m - 1 + 1 /\ 1 + i - 1 = i /\ i \in 1..Len(all)
    BY <1>1, <1>2
  <2> QED
    BY <1>4, <2>1
<1>7. u = Upto(all)
  BY DEF u, m, Upto
<1> QED
  BY <1>2, <1>4, <1>5, <1>6, <1>7 DEF m

LEMMA CollectedType ==
  ASSUME NEW s \in Seq(Char), Groups(s) # {}, NEW f,
         \A t \in Seq(Char) : Len(t) < Len(s) => f[t] \in Seq(Seq(Char))
  PROVE  /\ Collected(s, f) \in Seq(Seq(Seq(Char)))
         /\ Len(Collected(s, f)) = Len(Alternatives(s, FirstGroup(s)))
         /\ \A i \in 1..Len(Collected(s, f)) :
              Collected(s, f)[i] = f[Alternatives(s, FirstGroup(s))[i]]
<1> DEFINE each == Alternatives(s, FirstGroup(s))
           n == Len(each)
<1>1. FirstGroup(s) \in Groups(s)
  BY FirstIsGroup
<1>2. /\ n \in Nat /\ ToSet(each) = {each[i] : i \in 1..n}
      /\ \A t \in ToSet(each) : t \in Seq(Char) /\ Len(t) < Len(s)
  BY <1>1, AlternativesFacts
<1>3. Collected(s, f) = [i \in 1..n |-> f[each[i]]]
  BY DEF Collected
<1> HIDE DEF each, n
<1>4. \A i \in 1..n : each[i] \in Seq(Char) /\ Len(each[i]) < Len(s)
  BY <1>2
<1>5. \A i \in 1..n : f[each[i]] \in Seq(Seq(Char))
  BY <1>4
<1> DEFINE V == Seq(Seq(Char))
           c == [i \in 1..n |-> f[each[i]]]
<1>6. c \in [1..n -> V] /\ \A i \in 1..n : c[i] = f[each[i]]
  BY <1>5
<1> HIDE DEF V, c
<1>7. c \in Seq(V) /\ Len(c) = n
  BY <1>2, <1>6, FunctionSeq
<1>8. c = Collected(s, f)
  BY <1>3 DEF c
<1> QED
  BY <1>6, <1>7, <1>8 DEF each, n, V

LEMMA ExpandBodyType ==
  ASSUME NEW s \in Seq(Char), NEW f \in [Seq(Char) -> Seq(Seq(Char))]
  PROVE  ExpandBody(s, f) \in Seq(Seq(Char))
<1>1. CASE Groups(s) = {}
  BY <1>1 DEF ExpandBody
<1>2. CASE Groups(s) # {}
  <2> DEFINE D == Seq(Char)
             c == Collected(s, f)
             fl == FlattenSeq(c)
             di == Distinct(fl)
  <2>1. c \in Seq(Seq(D))
    BY <1>2, CollectedType
  <2> HIDE DEF D, c
  <2>2. fl \in Seq(D)
    BY <2>1, FlatType
  <2> HIDE DEF fl
  <2>3. di \in Seq(D)
    BY <2>2, OnlyFromParted DEF Distinct
  <2> HIDE DEF di
  <2>4. Upto(di) \in Seq(D)
    BY <2>3, UptoFacts
  <2> QED
    BY <1>2, <2>4 DEF ExpandBody, di, fl, c, D
<1> QED
  BY <1>1, <1>2

LEMMA ExpandExists == \E f \in [Seq(Char) -> Seq(Seq(Char))] : IsExpand(f)
<1> DEFINE D == Seq(Char)
           V == Seq(D)
           B == [p \in D \X [D -> V] |-> ExpandBody(p[1], p[2])]
<1>1. \A s \in D, f \in [D -> V] : ExpandBody(s, f) \in V
  BY ExpandBodyType
<1>2. \A s \in D : Groups(s) # {} =>
        /\ Len(Alternatives(s, FirstGroup(s))) \in Nat
        /\ \A i \in 1..Len(Alternatives(s, FirstGroup(s))) :
             /\ Alternatives(s, FirstGroup(s))[i] \in D
             /\ Len(Alternatives(s, FirstGroup(s))[i]) < Len(s)
  <2> TAKE s \in D
  <2> HAVE Groups(s) # {}
  <2> DEFINE each == Alternatives(s, FirstGroup(s))
  <2>1. FirstGroup(s) \in Groups(s)
    BY FirstIsGroup
  <2>2. /\ Len(each) \in Nat /\ ToSet(each) = {each[i] : i \in 1..Len(each)}
        /\ \A t \in ToSet(each) : t \in Seq(Char) /\ Len(t) < Len(s)
    BY <2>1, AlternativesFacts
  <2> HIDE DEF each
  <2>3. Len(each) \in Nat /\ \A i \in 1..Len(each) : each[i] \in D /\ Len(each[i]) < Len(s)
    BY <2>2
  <2> QED
    BY <2>3 DEF each
<1> HIDE DEF D, V
<1>3. B \in [D \X [D -> V] -> V]
  BY <1>1
<1>4. \A s \in D : \A f \in [D -> V] : B[<<s, f>>] = ExpandBody(s, f)
  OBVIOUS
<1> HIDE DEF B
<1>5. FromLower(D, V, Lengths, B)
  <2> SUFFICES ASSUME NEW s \in D, NEW f \in [D -> V], NEW g \in [D -> V],
                      Alike(f, g, D, Lengths, Lengths[s])
               PROVE  B[<<s, f>>] = B[<<s, g>>]
    BY DEF FromLower
  <2>1. CASE Groups(s) = {}
    <3>1. ExpandBody(s, f) = ExpandBody(s, g)
      BY <2>1 DEF ExpandBody
    <3> QED
      BY <1>4, <3>1
  <2>2. CASE Groups(s) # {}
    <3> DEFINE each == Alternatives(s, FirstGroup(s))
    <3>1. \A i \in 1..Len(each) : f[each[i]] = g[each[i]]
      <4> TAKE i \in 1..Len(each)
      <4> DEFINE t == each[i]
      <4>1. t \in D /\ Len(t) < Len(s)
        BY <1>2, <2>2
      <4> HIDE DEF t
      <4>2. Lengths[t] < Lengths[s]
        BY <4>1, LengthsType DEF D
      <4>3. f[t] = g[t]
        BY <4>1, <4>2 DEF Alike
      <4> QED
        BY <4>3 DEF t
    <3> HIDE DEF each
    <3>2. [i \in 1..Len(each) |-> f[each[i]]] = [i \in 1..Len(each) |-> g[each[i]]]
      BY <3>1
    <3>3. Collected(s, f) = Collected(s, g)
      BY <3>2 DEF Collected, each
    <3>4. ExpandBody(s, f) = ExpandBody(s, g)
      BY <3>3 DEF ExpandBody
    <3> QED
      BY <1>4, <3>4
  <2> QED
    BY <2>1, <2>2
<1>6. PICK f \in [D -> V] : \A s \in D : f[s] = B[<<s, f>>]
  <2>1. V # {} /\ Lengths \in [D -> Nat]
    <3>1. <<>> \in V
      BY DEF V
    <3> QED
      BY <3>1, LengthsType DEF D
  <2>2. IsBody(D, V, Lengths, B)
    BY <1>3, <1>5, <2>1 DEF IsBody
  <2>3. HasFix(D, V, B)
    BY <2>2, ByRank
  <2> QED
    BY <2>3 DEF HasFix
<1>7. \A s \in D : f[s] = ExpandBody(s, f)
  BY <1>4, <1>6
<1>8. IsExpand(f)
  BY <1>6, <1>7 DEF IsExpand, D
<1> QED
  BY <1>8 DEF D, V
-----------------------------------------------------------------------------
(* Any order of the groups leads to the same expansions.                   *)

Via(f, s, g) == UNION {f[t] : t \in ToSet(Alternatives(s, g))}

Assoc(a, b, c) == (a \o b) \o c = a \o (b \o c)

LEMMA AssocTexts ==
  ASSUME NEW a \in Seq(Char), NEW b \in Seq(Char), NEW c \in Seq(Char)
  PROVE  Assoc(a, b, c)
BY ConcatAssociative DEF Assoc

OfFive(l, p, m, q, z) ==
  /\ l \o p \o (m \o q \o z) = l \o p \o m \o q \o z
  /\ l \o p \o m \in Seq(Char) /\ m \o q \o z \in Seq(Char)
  /\ l \o p \o m \o q \o z \in Seq(Char)

LEMMA Five ==
  ASSUME NEW l \in Seq(Char), NEW p \in Seq(Char), NEW m \in Seq(Char),
         NEW q \in Seq(Char), NEW z \in Seq(Char)
  PROVE  OfFive(l, p, m, q, z)
<1> DEFINE a == l \o p
           b == m \o q
           c == a \o m
<1>1. a \in Seq(Char) /\ b \in Seq(Char)
  BY ConcatProperties
<1> HIDE DEF a, b
<1>2. c \in Seq(Char) /\ b \o z \in Seq(Char) /\ a \o b \in Seq(Char)
  BY <1>1, ConcatProperties
<1>3. a \o b = c \o q
  <2>1. Assoc(a, m, q)
    BY <1>1, AssocTexts
  <2> QED
    BY <2>1 DEF b, Assoc
<1> HIDE DEF c
<1>4. (a \o b) \o z = a \o (b \o z)
  <2>1. Assoc(a, b, z)
    BY <1>1, AssocTexts
  <2> QED
    BY <2>1 DEF Assoc
<1>5. (c \o q) \o z \in Seq(Char)
  <2>1. c \o q \in Seq(Char)
    BY <1>2, ConcatProperties
  <2> QED
    BY <2>1, ConcatProperties
<1> QED
  BY <1>2, <1>3, <1>4, <1>5 DEF a, b, c, OfFive

LEMMA ViaAt ==
  ASSUME NEW l \in Seq(Char), NEW y, NEW z \in Seq(Char), IsGroup(y), NEW f, NEW e
  PROVE  e \in Via(f, l \o y \o z, At(l, y)) <=> \E p \in Variants(y) : e \in f[l \o p \o z]
<1>1. ToSet(Alternatives(l \o y \o z, At(l, y))) = Chosen(l, y, z)
  BY GroupAt
<1>2. Via(f, l \o y \o z, At(l, y)) = UNION {f[t] : t \in Chosen(l, y, z)}
  BY <1>1 DEF Via
<1> QED
  BY <1>2 DEF Chosen

\* The expansions of a text by one of its groups.
ByOne(f, s) == \A g \in Groups(s) : f[s] = Via(f, s, g)

LEMMA CrossOver ==
  ASSUME NEW s \in Seq(Char), NEW g \in Groups(s), NEW h \in Groups(s), g[2] < h[1], NEW f,
         \A t \in Seq(Char) : Len(t) < Len(s) => ByOne(f, t)
  PROVE  Via(f, s, g) = Via(f, s, h)
<1>1. PICK l, x, m, y, z \in Seq(Char) :
        /\ IsGroup(x) /\ IsGroup(y) /\ s = l \o x \o m \o y \o z
        /\ g = At(l, x) /\ h = At(l \o x \o m, y)
  <2>1. OneThenOther(s, g, h)
    BY TwoGroups
  <2> QED
    BY <2>1 DEF OneThenOther
<1>2. /\ \A p \in Variants(x) : p \in Seq(Char)
      /\ \A q \in Variants(y) : q \in Seq(Char)
  BY <1>1, ChoicesFacts
<1>3. /\ s = l \o x \o (m \o y \o z)
      /\ m \o y \o z \in Seq(Char) /\ l \o x \o m \in Seq(Char)
  <2>1. OfFive(l, x, m, y, z)
    BY Five
  <2> QED
    BY <1>1, <2>1 DEF OfFive
<1>4. \A e : e \in Via(f, s, g) <=> \E p \in Variants(x) : e \in f[l \o p \o (m \o y \o z)]
  <2> DEFINE r == m \o y \o z
  <2>1. r \in Seq(Char) /\ s = l \o x \o r
    BY <1>3
  <2> HIDE DEF r
  <2>2. \A e : e \in Via(f, l \o x \o r, At(l, x)) <=> \E p \in Variants(x) : e \in f[l \o p \o r]
    BY <1>1, <2>1, ViaAt
  <2> QED
    BY <1>1, <2>1, <2>2 DEF r
<1>5. \A e : e \in Via(f, s, h) <=> \E q \in Variants(y) : e \in f[(l \o x \o m) \o q \o z]
  <2> DEFINE r == l \o x \o m
  <2>1. r \in Seq(Char) /\ s = r \o y \o z /\ h = At(r, y)
    BY <1>1, <1>3
  <2> HIDE DEF r
  <2>2. \A e : e \in Via(f, r \o y \o z, At(r, y)) <=> \E q \in Variants(y) : e \in f[r \o q \o z]
    BY <1>1, <2>1, ViaAt
  <2> QED
    BY <2>1, <2>2 DEF r
<1>6. \A t \in ToSet(Alternatives(s, g)) : t \in Seq(Char) /\ Len(t) < Len(s)
  BY AlternativesFacts
<1>7. \A t \in ToSet(Alternatives(s, h)) : t \in Seq(Char) /\ Len(t) < Len(s)
  BY AlternativesFacts
<1>8. ASSUME NEW p \in Variants(x)
      PROVE  \A e : e \in f[l \o p \o (m \o y \o z)] <=>
                      \E q \in Variants(y) : e \in f[l \o p \o m \o q \o z]
  <2> DEFINE r == m \o y \o z
             t == l \o p \o r
             k == l \o p \o m
  <2>1. p \in Seq(Char) /\ r \in Seq(Char) /\ s = l \o x \o r
    BY <1>2, <1>3
  <2>2. t = k \o y \o z /\ k \in Seq(Char)
    <3>1. OfFive(l, p, m, y, z)
      BY <2>1, Five
    <3> QED
      BY <3>1 DEF OfFive
  <2>3. t \in Seq(Char) /\ Len(t) < Len(s)
    <3> HIDE DEF r
    <3>1. ToSet(Alternatives(l \o x \o r, At(l, x))) = Chosen(l, x, r)
      BY <1>1, <2>1, GroupAt
    <3>2. t \in Chosen(l, x, r)
      BY DEF Chosen
    <3> HIDE DEF t
    <3> QED
      BY <1>1, <1>6, <2>1, <3>1, <3>2
  <2> HIDE DEF r, t, k
  <2>4. At(k, y) \in Groups(t)
    <3>1. At(k, y) \in Groups(k \o y \o z)
      BY <1>1, <2>2, GroupAt
    <3> QED
      BY <2>2, <3>1
  <2>5. f[t] = Via(f, t, At(k, y))
    BY <2>3, <2>4 DEF ByOne
  <2>6. \A e : e \in Via(f, k \o y \o z, At(k, y)) <=> \E q \in Variants(y) : e \in f[k \o q \o z]
    BY <1>1, <2>2, ViaAt
  <2>7. \A e : e \in f[t] <=> \E q \in Variants(y) : e \in f[k \o q \o z]
    BY <2>2, <2>5, <2>6
  <2> QED
    BY <2>7 DEF t, r, k
<1>9. ASSUME NEW q \in Variants(y)
      PROVE  \A e : e \in f[(l \o x \o m) \o q \o z] <=>
                      \E p \in Variants(x) : e \in f[l \o p \o m \o q \o z]
  <2> DEFINE r == l \o x \o m
             t == r \o q \o z
             k == m \o q \o z
  <2>1. q \in Seq(Char) /\ r \in Seq(Char) /\ s = r \o y \o z /\ h = At(r, y)
    BY <1>1, <1>2, <1>3
  <2>2. t = l \o x \o k /\ k \in Seq(Char)
    <3>1. OfFive(l, x, m, q, z)
      BY <2>1, Five
    <3> QED
      BY <3>1 DEF OfFive
  <2>3. t \in Seq(Char) /\ Len(t) < Len(s)
    <3> HIDE DEF r
    <3>1. ToSet(Alternatives(r \o y \o z, At(r, y))) = Chosen(r, y, z)
      BY <1>1, <2>1, GroupAt
    <3>2. t \in Chosen(r, y, z)
      BY DEF Chosen
    <3> HIDE DEF t
    <3> QED
      BY <1>7, <2>1, <3>1, <3>2
  <2>4. \A p \in Variants(x) : l \o p \o k = l \o p \o m \o q \o z
    <3> TAKE p \in Variants(x)
    <3>1. p \in Seq(Char)
      BY <1>2
    <3>2. OfFive(l, p, m, q, z)
      BY <2>1, <3>1, Five
    <3> QED
      BY <3>2 DEF OfFive
  <2> HIDE DEF r, t, k
  <2>5. At(l, x) \in Groups(t)
    <3>1. At(l, x) \in Groups(l \o x \o k)
      BY <1>1, <2>2, GroupAt
    <3> QED
      BY <2>2, <3>1
  <2>6. f[t] = Via(f, t, At(l, x))
    BY <2>3, <2>5 DEF ByOne
  <2>7. \A e : e \in Via(f, l \o x \o k, At(l, x)) <=> \E p \in Variants(x) : e \in f[l \o p \o k]
    BY <1>1, <2>2, ViaAt
  <2>8. \A e : e \in f[t] <=> \E p \in Variants(x) : e \in f[l \o p \o k]
    BY <2>2, <2>6, <2>7
  <2>9. \A e : e \in f[t] <=> \E p \in Variants(x) : e \in f[l \o p \o m \o q \o z]
    BY <2>4, <2>8
  <2> QED
    BY <2>9 DEF t, r
<1>10. \A e : e \in Via(f, s, g) <=>
                \E p \in Variants(x) : \E q \in Variants(y) : e \in f[l \o p \o m \o q \o z]
  BY <1>4, <1>8
<1>11. \A e : e \in Via(f, s, h) <=>
                \E q \in Variants(y) : \E p \in Variants(x) : e \in f[l \o p \o m \o q \o z]
  BY <1>5, <1>9
<1>12. \A e : e \in Via(f, s, g) <=> e \in Via(f, s, h)
  BY <1>10, <1>11
<1> QED
  BY <1>12

LEMMA AnyOrder ==
  ASSUME NEW f, IsAll(f)
  PROVE  \A s \in Seq(Char) : ByOne(f, s)
<1> DEFINE T == {m \in Nat : \A s \in Seq(Char) : Len(s) = m => ByOne(f, s)}
<1>1. \A s \in Seq(Char) :
        f[s] = IF Groups(s) = {} THEN {s} ELSE UNION {Via(f, s, g) : g \in Groups(s)}
  BY DEF IsAll, AllBody, Via
<1>2. ASSUME NEW m \in Nat, \A k \in Nat : k < m => k \in T
      PROVE  m \in T
  <2>1. ASSUME NEW s \in Seq(Char), Len(s) = m
        PROVE  ByOne(f, s)
    <3>1. \A t \in Seq(Char) : Len(t) < Len(s) => ByOne(f, t)
      <4> TAKE t \in Seq(Char)
      <4>1. HAVE Len(t) < Len(s)
      <4> DEFINE k == Len(t)
      <4>2. k \in Nat /\ k < m
        BY <2>1, <4>1
      <4> HIDE DEF k
      <4>3. k \in T
        BY <1>2, <4>2
      <4> QED
        BY <4>3 DEF k
    <3>2. ASSUME NEW g \in Groups(s), NEW h \in Groups(s)
          PROVE  Via(f, s, g) = Via(f, s, h)
      <4>1. CASE g = h
        BY <4>1
      <4>2. CASE g # h
        <5>1. g[2] < h[1] \/ h[2] < g[1]
          BY <4>2, GroupsApart
        <5>2. CASE g[2] < h[1]
          BY <3>1, <5>2, CrossOver
        <5>3. CASE h[2] < g[1]
          <6>1. Via(f, s, h) = Via(f, s, g)
            BY <3>1, <5>3, CrossOver
          <6> QED
            BY <6>1
        <5> QED
          BY <5>1, <5>2, <5>3
      <4> QED
        BY <4>1, <4>2
    <3>3. ASSUME NEW g \in Groups(s)
          PROVE  f[s] = Via(f, s, g)
      <4>1. f[s] = UNION {Via(f, s, h) : h \in Groups(s)}
        BY <1>1
      <4>2. \A h \in Groups(s) : Via(f, s, h) = Via(f, s, g)
        BY <3>2
      <4> QED
        BY <4>1, <4>2
    <3> QED
      BY <3>3 DEF ByOne
  <2> QED
    BY <2>1
<1> HIDE DEF T
<1>3. \A m \in Nat : m \in T
  BY <1>2, FromBelow
<1> QED
  <2> TAKE s \in Seq(Char)
  <2>1. Len(s) \in Nat
    OBVIOUS
  <2> QED
    BY <1>3, <2>1 DEF T
-----------------------------------------------------------------------------
(* The list that is found, and the expansions there are.                   *)

LEMMA ToSetIs ==
  ASSUME NEW S, NEW s \in Seq(S)
  PROVE  /\ Len(s) \in Nat /\ ToSet(s) = {s[i] : i \in 1..Len(s)} /\ IsFiniteSet(ToSet(s))
         /\ Cardinality(ToSet(s)) \in Nat /\ Cardinality(ToSet(s)) <= Len(s)
         /\ ToSet(s) \in SUBSET S
<1> DEFINE n == Len(s)
           T == {s[i] : i \in 1..n}
           g == [i \in 1..n |-> s[i]]
<1>1. n \in Nat /\ DOMAIN s = 1..n /\ \A i \in 1..n : s[i] \in S
  OBVIOUS
<1>2. ToSet(s) = T
  BY <1>1 DEF ToSet
<1>3. g \in Surjection(1..n, T)
  BY DEF Surjection
<1> HIDE DEF n, T, g
<1>4. IsFiniteSet(1..n) /\ Cardinality(1..n) = n
  <2>1. 1 \in Int /\ n \in Int
    BY <1>1
  <2>2. Cardinality(1..n) = IF 1 > n THEN 0 ELSE n - 1 + 1
    BY <2>1, FS_Interval
  <2> QED
    BY <1>1, <2>1, <2>2, FS_Interval
<1>5. IsFiniteSet(T) /\ Cardinality(T) <= Cardinality(1..n)
  BY <1>3, <1>4, FS_Surjection
<1>6. Cardinality(T) \in Nat
  BY <1>5, FS_CardinalityType
<1>7. T \in SUBSET S
  BY <1>1 DEF T
<1> QED
  BY <1>1, <1>2, <1>4, <1>5, <1>6, <1>7 DEF n, T

\* Without repetitions: as many members as places.
LEMMA NoRepetitions ==
  ASSUME NEW S, NEW s \in Seq(S)
  PROVE  Len(s) = Cardinality(ToSet(s)) <=>
           \A i, j \in 1..Len(s) : s[i] = s[j] => i = j
<1> DEFINE n == Len(s)
           T == {s[i] : i \in 1..n}
           g == [i \in 1..n |-> s[i]]
<1>1. n \in Nat /\ ToSet(s) = T
  BY ToSetIs
<1>2. g \in Surjection(1..n, T) /\ \A i \in 1..n : g[i] = s[i]
  BY DEF Surjection
<1>3. g \in Injection(1..n, T) <=> \A i, j \in 1..n : s[i] = s[j] => i = j
  <2>1. g \in [1..n -> T]
    OBVIOUS
  <2> HIDE DEF g, T
  <2> QED
    BY <1>2, <2>1 DEF Injection, IsInjective
<1> HIDE DEF n, T, g
<1>4. IsFiniteSet(1..n) /\ Cardinality(1..n) = n
  <2>1. 1 \in Int /\ n \in Int
    BY <1>1
  <2>2. Cardinality(1..n) = IF 1 > n THEN 0 ELSE n - 1 + 1
    BY <2>1, FS_Interval
  <2> QED
    BY <1>1, <2>1, <2>2, FS_Interval
<1>5. Cardinality(T) = Cardinality(1..n) <=> g \in Injection(1..n, T)
  BY <1>2, <1>4, FS_Surjection
<1>6. n = Cardinality(T) <=> \A i, j \in 1..n : s[i] = s[j] => i = j
  BY <1>3, <1>4, <1>5
<1> QED
  BY <1>1, <1>6 DEF n

LEMMA FlatMembers ==
  ASSUME NEW S, NEW ss \in Seq(Seq(S))
  PROVE  ToSet(FlattenSeq(ss)) = UNION {ToSet(ss[i]) : i \in 1..Len(ss)}
<1> DEFINE T == {c \in Seq(Seq(S)) :
                   ToSet(FlattenSeq(c)) = UNION {ToSet(c[i]) : i \in 1..Len(c)}}
<1>1. <<>> \in T
  <2>1. ToSet(<<>>) = {}
    BY DEF ToSet
  <2>2. ToSet(FlattenSeq(<<>>)) = UNION {ToSet(<<>>[i]) : i \in 1..Len(<<>>)}
    BY <2>1, FlatEmpty
  <2>3. <<>> \in Seq(Seq(S))
    OBVIOUS
  <2> QED
    BY <2>2, <2>3
<1>2. ASSUME NEW c \in Seq(Seq(S)), NEW x \in Seq(S), c \in T
      PROVE  Append(c, x) \in T
  <2> DEFINE d == Append(c, x)
             fc == FlattenSeq(c)
  <2>1. ToSet(fc) = UNION {ToSet(c[i]) : i \in 1..Len(c)}
    BY <1>2
  <2>2. /\ d \in Seq(Seq(S)) /\ Len(d) = Len(c) + 1 /\ d[Len(c) + 1] = x /\ Len(c) \in Nat
        /\ \A i \in 1..Len(c) : d[i] = c[i]
    BY AppendProperties
  <2>3. FlattenSeq(d) = fc \o x /\ fc \in Seq(S)
    BY FlatAppend, FlatType
  <2> HIDE DEF d, fc
  <2>4. ToSet(fc \o x) = ToSet(fc) \cup ToSet(x)
    <3> DEFINE w == fc \o x
    <3>1. /\ w \in Seq(S) /\ Len(w) = Len(fc) + Len(x) /\ Len(fc) \in Nat /\ Len(x) \in Nat
          /\ \A i \in 1..Len(fc) : w[i] = fc[i]
          /\ \A i \in 1..Len(x) : w[Len(fc) + i] = x[i]
      BY <2>3, ConcatParts
    <3> HIDE DEF w
    <3>2. /\ ToSet(w) = {w[i] : i \in 1..Len(w)} /\ ToSet(fc) = {fc[i] : i \in 1..Len(fc)}
          /\ ToSet(x) = {x[i] : i \in 1..Len(x)}
      BY <2>3, <3>1, ToSetIs
    <3>3. \A i \in 1..Len(w) : i \in 1..Len(fc) \/ \E k \in 1..Len(x) : i = Len(fc) + k
      <4> TAKE i \in 1..Len(w)
      <4>1. i \in 1..Len(fc) \/ (i - Len(fc) \in 1..Len(x) /\ i = Len(fc) + (i - Len(fc)))
        BY <3>1
      <4> QED
        BY <4>1
    <3>4. ToSet(w) \subseteq ToSet(fc) \cup ToSet(x)
      <4> SUFFICES ASSUME NEW i \in 1..Len(w)
                   PROVE  w[i] \in ToSet(fc) \cup ToSet(x)
        BY <3>2
      <4>1. CASE i \in 1..Len(fc)
        BY <3>1, <3>2, <4>1
      <4>2. ASSUME NEW k \in 1..Len(x), i = Len(fc) + k
            PROVE  w[i] \in ToSet(x)
        <5>1. w[Len(fc) + k] = x[k]
          BY <3>1
        <5> QED
          BY <3>2, <4>2, <5>1
      <4> QED
        BY <3>3, <4>1, <4>2
    <3>5. ToSet(fc) \subseteq ToSet(w)
      <4> SUFFICES ASSUME NEW i \in 1..Len(fc)
                   PROVE  fc[i] \in ToSet(w)
        BY <3>2
      <4>1. i \in 1..Len(w) /\ w[i] = fc[i]
        BY <3>1
      <4> QED
        BY <3>2, <4>1
    <3>6. ToSet(x) \subseteq ToSet(w)
      <4> SUFFICES ASSUME NEW i \in 1..Len(x)
                   PROVE  x[i] \in ToSet(w)
        BY <3>2
      <4>1. PICK k \in 1..Len(w) : k = Len(fc) + i
        <5>1. Len(fc) + i \in 1..Len(w)
          BY <3>1
        <5> QED
          BY <5>1
      <4>2. w[k] = x[i]
        BY <3>1, <4>1
      <4> QED
        BY <3>2, <4>2
    <3> QED
      BY <3>4, <3>5, <3>6 DEF w
  <2>5. UNION {ToSet(d[i]) : i \in 1..Len(d)} = (UNION {ToSet(c[i]) : i \in 1..Len(c)}) \cup ToSet(x)
    <3>1. \A i \in 1..Len(d) : i \in 1..Len(c) \/ i = Len(c) + 1
      BY <2>2
    <3>2. 1..Len(c) \subseteq 1..Len(d) /\ Len(c) + 1 \in 1..Len(d)
      BY <2>2
    <3> QED
      BY <2>2, <3>1, <3>2
  <2>6. ToSet(FlattenSeq(d)) = UNION {ToSet(d[i]) : i \in 1..Len(d)}
    BY <2>1, <2>3, <2>4, <2>5
  <2> QED
    BY <2>2, <2>6 DEF d
<1> HIDE DEF T
<1>3. \A c \in Seq(Seq(S)) : c \in T
  <2> DEFINE SS == Seq(S)
  <2>1. \A c \in Seq(SS) : \A x \in SS : c \in T => Append(c, x) \in T
    BY <1>2
  <2> HIDE DEF SS
  <2>2. \A c \in Seq(SS) : c \in T
    BY <1>1, <2>1, FromEmpty
  <2> QED
    BY <2>2 DEF SS
<1> QED
  BY <1>3 DEF T

\* Duplicates dropped, each member is left once.
LEMMA DistinctFacts ==
  ASSUME NEW S, NEW ss \in Seq(S)
  PROVE  /\ Distinct(ss) \in Seq(S) /\ ToSet(Distinct(ss)) = ToSet(ss)
         /\ Len(Distinct(ss)) = Cardinality(ToSet(ss))
<1> DEFINE n == Len(ss)
           I == {i \in 1..n : \A j \in 1..i - 1 : ss[j] # ss[i]}
           g == [i \in I |-> ss[i]]
<1>1. n \in Nat /\ ToSet(ss) = {ss[i] : i \in 1..n}
  BY ToSetIs
<1>2. Distinct(ss) = Only(ss, I)
  BY DEF Distinct
<1>3. Those(ss, I) = I
  BY DEF Those
<1>4. I \in SUBSET (1..n)
  OBVIOUS
<1>5. \A i, j \in I : ss[i] = ss[j] => i = j
  <2> TAKE i, j \in I
  <2>1. i \in 1..n /\ j \in 1..n /\ (i < j => ss[i] # ss[j]) /\ (j < i => ss[j] # ss[i])
    BY <1>1
  <2> QED
    BY <2>1
<1>6. \A i \in 1..n : \E k \in I : ss[k] = ss[i]
  <2> TAKE i \in 1..n
  <2> DEFINE E == {k \in 1..n : ss[k] = ss[i]}
  <2>1. E \in SUBSET Nat /\ E # {}
    BY <1>1
  <2>2. Min(E) \in E /\ \A m \in E : Min(E) <= m
    BY <2>1, LeastOf
  <2> DEFINE k == Min(E)
  <2> HIDE DEF k
  <2>3. k \in 1..n /\ ss[k] = ss[i] /\ \A m \in 1..n : ss[m] = ss[i] => k <= m
    BY <2>2 DEF k
  <2>4. \A j \in 1..k - 1 : ss[j] # ss[k]
    <3> TAKE j \in 1..k - 1
    <3>1. j \in 1..n /\ ~(k <= j)
      BY <1>1, <2>3
    <3> QED
      BY <2>3, <3>1
  <2>5. k \in I
    BY <2>3, <2>4
  <2> QED
    BY <2>3, <2>5
<1>7. g \in Bijection(I, ToSet(ss))
  <2>1. \A i \in I : g[i] = ss[i] /\ ss[i] \in ToSet(ss)
    BY <1>1
  <2>2. \A t \in ToSet(ss) : \E i \in I : g[i] = t
    BY <1>1, <1>6, <2>1
  <2>3. g \in [I -> ToSet(ss)]
    BY <2>1
  <2> HIDE DEF g, I
  <2> QED
    BY <1>5, <2>1, <2>2, <2>3 DEF Bijection, Injection, Surjection, IsInjective
<1> HIDE DEF I, g
<1>8. IsFiniteSet(I)
  <2>1. IsFiniteSet(1..n)
    BY <1>1, FS_Interval
  <2> QED
    BY <1>4, <2>1, FS_Subset
<1>9. Cardinality(I) = Cardinality(ToSet(ss))
  <2>1. ExistsBijection(I, ToSet(ss))
    BY <1>7 DEF ExistsBijection
  <2> QED
    BY <1>8, <2>1, FS_Bijection
<1>10. Only(ss, I) \in Seq(S) /\ Len(Only(ss, I)) = Cardinality(Those(ss, I))
       /\ ToSet(Only(ss, I)) = Has(ss, I)
  BY OnlyFromParted, OnlyLength, OnlyMembers
<1>11. Has(ss, I) = ToSet(ss)
  BY <1>1, <1>3, <1>4, <1>6 DEF Has
<1> QED
  BY <1>2, <1>3, <1>9, <1>10, <1>11

\* The list is right for the set: all of it, or as much as may be.
Good(r, A) ==
  /\ r \in Seq(Seq(Char)) /\ IsFiniteSet(A) /\ ToSet(r) \subseteq A
  /\ Len(r) = Min({Cardinality(A), MaxBraceExpansions})
  /\ Len(r) = Cardinality(ToSet(r))

LEMMA LesserIs ==
  ASSUME NEW x \in Nat, NEW y \in Nat
  PROVE  Min({x, y}) = IF x <= y THEN x ELSE y
<1>1. Min({x, y}) \in {x, y} /\ Min({x, y}) <= x /\ Min({x, y}) <= y
  BY LesserOf
<1> DEFINE m == Min({x, y})
<1> HIDE DEF m
<1>2. (m = x \/ m = y) /\ m <= x /\ m <= y
  BY <1>1 DEF m
<1>3. m = IF x <= y THEN x ELSE y
  BY <1>2
<1> QED
  BY <1>3 DEF m

LEMMA OneExpansion ==
  ASSUME NEW s \in Seq(Char)
  PROVE  Good(<<s>>, {s})
<1>1. <<s>> \in Seq(Seq(Char)) /\ Len(<<s>>) = 1
  OBVIOUS
<1>2. ToSet(<<s>>) = {s}
  <2>1. ToSet(<<s>>) = {<<s>>[i] : i \in 1..1}
    BY <1>1, ToSetIs
  <2>2. 1..1 = {1} /\ <<s>>[1] = s
    OBVIOUS
  <2> QED
    BY <2>1, <2>2
<1>3. IsFiniteSet({s}) /\ Cardinality({s}) = 1
  BY FS_Singleton
<1>4. Min({1, MaxBraceExpansions}) = 1
  <2>1. MaxBraceExpansions \in Nat /\ 1 <= MaxBraceExpansions /\ 1 \in Nat
    BY TextAssumption
  <2> QED
    BY <2>1, LesserIs
<1> QED
  BY <1>1, <1>2, <1>3, <1>4 DEF Good

\* Lists that are right for each of some sets make one for all of them.
EachGood(n, c, A) ==
  /\ n \in Nat /\ c \in Seq(Seq(Seq(Char))) /\ Len(c) = n
  /\ \A i \in 1..n : Good(c[i], A[i])
AllGood(n, c, A) == Good(Upto(Distinct(FlattenSeq(c))), UNION {A[i] : i \in 1..n})

LEMMA TogetherGood ==
  ASSUME NEW n, NEW c, NEW A, EachGood(n, c, A)
  PROVE  AllGood(n, c, A)
<1>0. /\ n \in Nat /\ c \in Seq(Seq(Seq(Char))) /\ Len(c) = n
      /\ \A i \in 1..n : Good(c[i], A[i])
  BY DEF EachGood
<1> DEFINE D == Seq(Char)
           fl == FlattenSeq(c)
           di == Distinct(fl)
           up == Upto(di)
           U == UNION {A[i] : i \in 1..n}
           M == MaxBraceExpansions
<1>1. M \in Nat
  BY TextAssumption
<1>2. fl \in Seq(D) /\ ToSet(fl) = UNION {ToSet(c[i]) : i \in 1..n}
  <2>1. c \in Seq(Seq(D)) /\ n = Len(c)
    BY <1>0
  <2> HIDE DEF D
  <2> QED
    BY <2>1, FlatType, FlatMembers
<1>3. \A i \in 1..n : /\ c[i] \in Seq(D) /\ IsFiniteSet(A[i]) /\ ToSet(c[i]) \subseteq A[i]
                      /\ Len(c[i]) = Min({Cardinality(A[i]), M})
                      /\ Len(c[i]) = Cardinality(ToSet(c[i]))
  BY <1>0 DEF Good
<1> HIDE DEF D, fl, U, M
<1>4. di \in Seq(D) /\ ToSet(di) = ToSet(fl) /\ Len(di) = Cardinality(ToSet(fl))
  BY <1>2, DistinctFacts
<1> HIDE DEF di
<1>5. /\ up \in Seq(D) /\ Len(up) = Min({Len(di), M}) /\ Len(up) \in Nat
      /\ \A i \in 1..Len(up) : i \in 1..Len(di) /\ up[i] = di[i]
  BY <1>4, UptoFacts DEF M
<1> HIDE DEF up
<1>6. ToSet(fl) \subseteq U
  BY <1>2, <1>3 DEF U
<1>7. IsFiniteSet(U) /\ Cardinality(U) \in Nat
  <2> DEFINE T == {A[i] : i \in 1..n}
             g == [i \in 1..n |-> A[i]]
  <2>1. g \in Surjection(1..n, T)
    BY DEF Surjection
  <2>2. IsFiniteSet(1..n)
    BY <1>0, FS_Interval
  <2>3. IsFiniteSet(T)
    BY <2>1, <2>2, FS_Surjection
  <2>4. \A t \in T : IsFiniteSet(t)
    BY <1>3
  <2> HIDE DEF T
  <2>5. IsFiniteSet(UNION T)
    BY <2>3, <2>4, FS_UNION
  <2>6. IsFiniteSet(U)
    BY <2>5 DEF U, T
  <2> QED
    BY <2>6, FS_CardinalityType
<1>8. ToSet(up) \subseteq U
  <2>1. ToSet(up) = {up[i] : i \in 1..Len(up)} /\ ToSet(di) = {di[i] : i \in 1..Len(di)}
    BY <1>4, <1>5, ToSetIs
  <2>2. ToSet(up) \subseteq ToSet(di)
    BY <1>5, <2>1
  <2> QED
    BY <1>4, <1>6, <2>2
<1>9. Len(up) = Cardinality(ToSet(up))
  <2>1. \A i, j \in 1..Len(di) : di[i] = di[j] => i = j
    BY <1>4, NoRepetitions
  <2>2. \A i, j \in 1..Len(up) : up[i] = up[j] => i = j
    BY <1>5, <2>1
  <2> QED
    BY <1>5, <2>2, NoRepetitions
<1> DEFINE d == Cardinality(ToSet(fl))
           u == Cardinality(U)
<1>10. d \in Nat /\ u \in Nat /\ d <= u
  <2>1. IsFiniteSet(ToSet(fl)) /\ Cardinality(ToSet(fl)) <= Cardinality(U)
    BY <1>6, <1>7, FS_Subset
  <2> QED
    BY <1>7, <2>1, FS_CardinalityType
<1>11. Len(up) = Min({u, M})
  <2>1. CASE \A i \in 1..n : Cardinality(A[i]) <= M
    <3>1. \A i \in 1..n : ToSet(c[i]) = A[i]
      <4> TAKE i \in 1..n
      <4> DEFINE x == Cardinality(A[i])
      <4>1. /\ IsFiniteSet(A[i]) /\ ToSet(c[i]) \in SUBSET A[i] /\ x \in Nat
            /\ Cardinality(ToSet(c[i])) = Min({x, M}) /\ x <= M
        <5>1. x \in Nat
          BY <1>3, FS_CardinalityType
        <5> QED
          BY <1>3, <2>1, <5>1
      <4>2. Min({x, M}) = x
        <5> HIDE DEF x
        <5> QED
          BY <1>1, <4>1, LesserIs
      <4>3. Cardinality(A[i]) = Cardinality(ToSet(c[i]))
        BY <4>1, <4>2
      <4> QED
        BY <4>1, <4>3, FS_Subset
    <3>2. {ToSet(c[i]) : i \in 1..n} = {A[i] : i \in 1..n}
      BY <3>1
    <3>3. ToSet(fl) = U
      BY <1>2, <3>2 DEF U
    <3> QED
      BY <1>4, <1>5, <3>3
  <2>2. CASE ~ \A i \in 1..n : Cardinality(A[i]) <= M
    <3>1. PICK i \in 1..n : ~(Cardinality(A[i]) <= M)
      BY <2>2
    <3> DEFINE x == Cardinality(A[i])
               k == Cardinality(ToSet(c[i]))
    <3>2. x \in Nat
      BY <1>3, FS_CardinalityType
    <3>3. k = Min({x, M})
      BY <1>3
    <3>4. k <= d
      <4>1. ToSet(c[i]) \in SUBSET ToSet(fl)
        BY <1>2
      <4>2. IsFiniteSet(ToSet(fl))
        BY <1>6, <1>7, FS_Subset
      <4> QED
        BY <4>1, <4>2, FS_Subset
    <3> HIDE DEF k
    <3>5. ~(x <= M)
      BY <3>1
    <3> HIDE DEF x, d, u
    <3>6. k = M
      BY <1>1, <3>2, <3>3, <3>5, LesserIs
    <3>7. M <= d /\ M <= u
      BY <1>1, <1>10, <3>4, <3>6
    <3>8. Min({d, M}) = M /\ Min({u, M}) = M
      <4>1. Min({d, M}) = IF d <= M THEN d ELSE M
        BY <1>1, <1>10, LesserIs
      <4>2. Min({u, M}) = IF u <= M THEN u ELSE M
        BY <1>1, <1>10, LesserIs
      <4> QED
        BY <1>1, <1>10, <3>7, <4>1, <4>2
    <3> QED
      BY <1>4, <1>5, <3>8 DEF d
  <2> QED
    BY <2>1, <2>2
<1> QED
  BY <1>5, <1>7, <1>8, <1>9, <1>11 DEF AllGood, Good, up, di, fl, U, M, D

LEMMA ExpandIsGood ==
  ASSUME NEW e, IsExpand(e), NEW f, IsAll(f)
  PROVE  \A s \in Seq(Char) : Good(e[s], f[s])
<1> DEFINE T == {m \in Nat : \A s \in Seq(Char) : Len(s) = m => Good(e[s], f[s])}
<1>1. \A s \in Seq(Char) : e[s] = ExpandBody(s, e) /\ f[s] = AllBody(s, f)
  BY DEF IsExpand, IsAll
<1>2. ASSUME NEW m \in Nat, \A k \in Nat : k < m => k \in T
      PROVE  m \in T
  <2>1. ASSUME NEW s \in Seq(Char), Len(s) = m
        PROVE  Good(e[s], f[s])
    <3>1. \A t \in Seq(Char) : Len(t) < Len(s) => Good(e[t], f[t])
      <4> TAKE t \in Seq(Char)
      <4>1. HAVE Len(t) < Len(s)
      <4> DEFINE k == Len(t)
      <4>2. k \in Nat /\ k < m
        BY <2>1, <4>1
      <4> HIDE DEF k
      <4>3. k \in T
        BY <1>2, <4>2
      <4> QED
        BY <4>3 DEF k
    <3>2. CASE Groups(s) = {}
      <4>1. e[s] = <<s>> /\ f[s] = {s}
        BY <1>1, <3>2 DEF ExpandBody, AllBody
      <4> QED
        BY <4>1, OneExpansion
    <3>3. CASE Groups(s) # {}
      <4> DEFINE each == Alternatives(s, FirstGroup(s))
                 c == Collected(s, e)
                 n == Len(each)
                 A == [i \in 1..n |-> f[each[i]]]
      <4>1. FirstGroup(s) \in Groups(s)
        BY <3>3, FirstIsGroup
      <4>2. /\ n \in Nat /\ ToSet(each) = {each[i] : i \in 1..n}
            /\ \A t \in ToSet(each) : t \in Seq(Char) /\ Len(t) < Len(s)
        BY <4>1, AlternativesFacts
      <4>3. \A t \in Seq(Char) : Len(t) < Len(s) => e[t] \in Seq(Seq(Char))
        BY <3>1 DEF Good
      <4>4. c \in Seq(Seq(Seq(Char))) /\ Len(c) = n /\ \A i \in 1..Len(c) : c[i] = e[each[i]]
        BY <3>3, <4>3, CollectedType
      <4>5. f[s] = UNION {f[t] : t \in ToSet(each)}
        <5>1. f[s] = Via(f, s, FirstGroup(s))
          BY <4>1, AnyOrder DEF ByOne
        <5> QED
          BY <5>1 DEF Via
      <4>6. e[s] = Upto(Distinct(FlattenSeq(c)))
        BY <1>1, <3>3 DEF ExpandBody
      <4> HIDE DEF each, c, n
      <4>7. \A i \in 1..n : A[i] = f[each[i]]
        OBVIOUS
      <4>8. UNION {A[i] : i \in 1..n} = UNION {f[t] : t \in ToSet(each)}
        BY <4>2, <4>7
      <4> HIDE DEF A
      <4>9. \A i \in 1..n : Good(c[i], A[i])
        <5> TAKE i \in 1..n
        <5>1. each[i] \in Seq(Char) /\ Len(each[i]) < Len(s)
          BY <4>2
        <5>2. Good(e[each[i]], f[each[i]])
          BY <3>1, <5>1
        <5> QED
          BY <4>4, <4>7, <5>2
      <4>10. Good(Upto(Distinct(FlattenSeq(c))), UNION {A[i] : i \in 1..n})
        <5>1. EachGood(n, c, A)
          BY <4>2, <4>4, <4>9 DEF EachGood
        <5>2. AllGood(n, c, A)
          BY <5>1, TogetherGood
        <5> QED
          BY <5>2 DEF AllGood
      <4> QED
        BY <4>5, <4>6, <4>8, <4>10
    <3> QED
      BY <3>2, <3>3
  <2> QED
    BY <2>1
<1> HIDE DEF T
<1>3. \A m \in Nat : m \in T
  BY <1>2, FromBelow
<1> QED
  <2> TAKE s \in Seq(Char)
  <2>1. Len(s) \in Nat
    OBVIOUS
  <2> QED
    BY <1>3, <2>1 DEF T

\* The functions the definitions choose.
LEMMA BracesOfAPattern ==
  ASSUME NEW pattern \in Seq(Char)
  PROVE  Good(expand_braces(pattern), Expansions(pattern))
<1> DEFINE e == CHOOSE g : IsExpand(g)
           f == CHOOSE g : IsAll(g)
<1>1. IsExpand(e)
  BY ExpandExists
<1>2. IsAll(f)
  BY AllExists
<1>3. expand_braces(pattern) = e[pattern]
  BY DEF expand_braces, IsExpand, ExpandBody, Collected, Upto
<1>4. Expansions(pattern) = f[pattern]
  BY DEF Expansions, IsAll, AllBody
<1> HIDE DEF e, f
<1>5. Good(e[pattern], f[pattern])
  BY <1>1, <1>2, ExpandIsGood
<1> QED
  BY <1>3, <1>4, <1>5
-----------------------------------------------------------------------------
(* The letters of a lexical query.                                         *)

LEMMA LettersOf == \A s : sanitize_fts_term(s) = Kept(s, Letter)
BY DEF sanitize_fts_term, Kept

LEMMA NoLetters == Blank \notin Letter /\ Quote \notin Letter /\ Hyphen \notin Letter /\ Dot \notin Letter
BY DEF Blank, Quote, Hyphen, Dot, Letter, Han

\* What is kept of what is kept.
LEMMA KeptTwice ==
  ASSUME NEW S, NEW s \in Seq(S), NEW K, NEW L, L \subseteq K
  PROVE  Kept(Kept(s, K), L) = Kept(s, L)
<1> DEFINE T == {c \in Seq(S) : Kept(Kept(c, K), L) = Kept(c, L)}
<1>1. <<>> \in T
  <2>1. Kept(Kept(<<>>, K), L) = Kept(<<>>, L)
    BY KeptEmpty
  <2> QED
    BY <2>1
<1>2. ASSUME NEW c \in Seq(S), NEW x \in S, c \in T
      PROVE  Append(c, x) \in T
  <2> DEFINE k == Kept(c, K)
  <2>1. Kept(k, L) = Kept(c, L) /\ k \in Seq(S) /\ Append(c, x) \in Seq(S)
    BY <1>2, KeptFromParts, AppendProperties
  <2>2. Kept(Append(c, x), K) = IF x \in K THEN Append(k, x) ELSE k
    BY KeptAppend
  <2>3. Kept(Append(c, x), L) = IF x \in L THEN Append(Kept(c, L), x) ELSE Kept(c, L)
    BY KeptAppend
  <2> HIDE DEF k
  <2>4. Kept(Append(k, x), L) = IF x \in L THEN Append(Kept(k, L), x) ELSE Kept(k, L)
    BY <2>1, KeptAppend
  <2>5. Kept(Kept(Append(c, x), K), L) = Kept(Append(c, x), L)
    BY <2>1, <2>2, <2>3, <2>4
  <2> QED
    BY <2>1, <2>5
<1> HIDE DEF T
<1>3. \A c \in Seq(S) : c \in T
  BY <1>1, <1>2, FromEmpty
<1> QED
  BY <1>3 DEF T

\* What is kept depends on what is to be kept only.
LEMMA KeptAlike ==
  ASSUME NEW S, NEW a \in Seq(S), NEW b \in Seq(S), Len(a) = Len(b), NEW K,
         \A i \in 1..Len(a) : a[i] \in K \/ b[i] \in K => a[i] = b[i]
  PROVE  Kept(a, K) = Kept(b, K)
<1>1. /\ Kept(a, K) = FlattenSeq(Parts(a, K)) /\ Parts(a, K) \in Seq(Seq(S))
      /\ Len(Parts(a, K)) = Len(a)
  BY KeptFromParts
<1>2. /\ Kept(b, K) = FlattenSeq(Parts(b, K)) /\ Parts(b, K) \in Seq(Seq(S))
      /\ Len(Parts(b, K)) = Len(b)
  BY KeptFromParts
<1>3. \A i \in 1..Len(a) : Parts(a, K)[i] = Parts(b, K)[i]
  BY DEF Parts
<1>4. Parts(a, K) = Parts(b, K)
  BY <1>1, <1>2, <1>3, SeqEqual
<1> QED
  BY <1>1, <1>2, <1>4

LEMMA KeptNone ==
  ASSUME NEW S, NEW s \in Seq(S), NEW K, \A i \in 1..Len(s) : s[i] \notin K
  PROVE  Kept(s, K) = <<>>
<1> DEFINE I == {i \in 1..Len(s) : s[i] \in K}
<1>1. Kept(s, K) = Only(s, I)
  BY DEF Kept
<1>2. I = {}
  OBVIOUS
<1> HIDE DEF I
<1>3. Those(s, I) = {}
  BY <1>2 DEF Those
<1>4. Len(Only(s, I)) = 0
  BY <1>3, OnlyLength, FS_EmptySet
<1>5. Kept(s, K) \in Seq(S)
  BY KeptFromParts
<1> QED
  BY <1>1, <1>4, <1>5, EmptySeq

\* Members of what is kept.
LEMMA KeptMembers ==
  ASSUME NEW S, NEW s \in Seq(S), NEW K
  PROVE  \A x \in ToSet(Kept(s, K)) : x \in K /\ \E i \in 1..Len(s) : s[i] = x
<1> DEFINE I == {i \in 1..Len(s) : s[i] \in K}
<1>1. Kept(s, K) = Only(s, I)
  BY DEF Kept
<1>2. \A i \in Those(s, I) : i \in 1..Len(s) /\ s[i] \in K
  BY DEF Those
<1> HIDE DEF I
<1>3. ToSet(Only(s, I)) = Has(s, I)
  BY OnlyMembers
<1> QED
  BY <1>1, <1>2, <1>3 DEF Has

\* Nothing is lost with what is empty.
LEMMA NonEmptyIs ==
  ASSUME NEW S, NEW ss \in Seq(Seq(S))
  PROVE  /\ NonEmpty(ss) = Kept(ss, Seq(S) \ {<<>>}) /\ NonEmpty(ss) \in Seq(Seq(S))
         /\ FlattenSeq(NonEmpty(ss)) = FlattenSeq(ss)
<1> DEFINE K == Seq(S) \ {<<>>}
           T == {c \in Seq(Seq(S)) : FlattenSeq(Kept(c, K)) = FlattenSeq(c)}
<1>1. NonEmpty(ss) = Kept(ss, K)
  <2>1. \A i \in 1..Len(ss) : ss[i] # <<>> <=> ss[i] \in K
    OBVIOUS
  <2>2. {i \in 1..Len(ss) : ss[i] # <<>>} = {i \in 1..Len(ss) : ss[i] \in K}
    BY <2>1
  <2> QED
    BY <2>2 DEF NonEmpty, Kept
<1>2. <<>> \in T
  <2>1. FlattenSeq(Kept(<<>>, K)) = FlattenSeq(<<>>)
    BY KeptEmpty
  <2> QED
    BY <2>1
<1>3. ASSUME NEW c \in Seq(Seq(S)), NEW x \in Seq(S), c \in T
      PROVE  Append(c, x) \in T
  <2> DEFINE SS == Seq(S)
             k == Kept(c, K)
  <2>0. c \in Seq(SS) /\ x \in SS
    OBVIOUS
  <2> HIDE DEF SS, K
  <2>1. k \in Seq(SS) /\ Append(c, x) \in Seq(SS)
    BY <2>0, KeptFromParts, AppendProperties
  <2>2. Kept(Append(c, x), K) = IF x \in K THEN Append(k, x) ELSE k
    BY <2>0, KeptAppend
  <2>3. FlattenSeq(k) = FlattenSeq(c)
    BY <1>3
  <2> HIDE DEF k
  <2>4. /\ FlattenSeq(Append(c, x)) = FlattenSeq(c) \o x
        /\ FlattenSeq(Append(k, x)) = FlattenSeq(k) \o x
        /\ FlattenSeq(c) \in Seq(S)
    BY <2>1, FlatAppend, FlatType DEF SS
  <2>5. ASSUME x \in K
        PROVE  FlattenSeq(Kept(Append(c, x), K)) = FlattenSeq(Append(c, x))
    BY <2>2, <2>3, <2>4, <2>5
  <2>6. ASSUME x \notin K
        PROVE  FlattenSeq(Kept(Append(c, x), K)) = FlattenSeq(Append(c, x))
    <3>1. x = <<>>
      BY <2>6 DEF K
    <3>2. FlattenSeq(c) \o x = FlattenSeq(c)
      BY <2>4, <3>1, ConcatEmptySeq
    <3> QED
      BY <2>2, <2>3, <2>4, <2>6, <3>2
  <2>7. FlattenSeq(Kept(Append(c, x), K)) = FlattenSeq(Append(c, x))
    BY <2>5, <2>6
  <2> QED
    BY <2>1, <2>7 DEF SS
<1>4. Kept(ss, K) \in Seq(Seq(S))
  BY KeptFromParts
<1> HIDE DEF K
<1>5. \A c \in Seq(Seq(S)) : c \in T
  <2> DEFINE SS == Seq(S)
  <2> HIDE DEF T
  <2>1. \A c \in Seq(SS) : \A x \in SS : c \in T => Append(c, x) \in T
    BY <1>3
  <2> HIDE DEF SS
  <2>2. \A c \in Seq(SS) : c \in T
    BY <1>2, <2>1, FromEmpty
  <2> QED
    BY <2>2 DEF SS
<1> QED
  BY <1>1, <1>4, <1>5 DEF K

\* A text and a part in front of it.
LEMMA TwoParts ==
  ASSUME NEW s \in Seq(Char), NEW i \in Nat, NEW j \in Nat, i <= j, j <= Len(s)
  PROVE  /\ SubSeq(s, 1, i) \in Seq(Char) /\ SubSeq(s, i + 1, j) \in Seq(Char)
         /\ SubSeq(s, 1, j) = SubSeq(s, 1, i) \o SubSeq(s, i + 1, j)
<1> DEFINE a == SubSeq(s, 1, i)
           b == SubSeq(s, i + 1, j)
           t == SubSeq(s, 1, j)
           o == a \o b
<1>1. /\ a \in Seq(Char) /\ Len(a) = i /\ t \in Seq(Char) /\ Len(t) = j
      /\ \A k \in 1..i : a[k] = s[k]
      /\ \A k \in 1..j : t[k] = s[k]
  BY PartOf
<1>2. b \in Seq(Char) /\ Len(b) = j - i /\ \A k \in 1..j - i : b[k] = s[i + k]
  BY PartOf
<1> HIDE DEF a, b, t
<1>3. /\ o \in Seq(Char) /\ Len(o) = j
      /\ \A k \in 1..i : o[k] = a[k]
      /\ \A k \in 1..j - i : o[i + k] = b[k]
  <2>1. /\ o \in Seq(Char) /\ Len(o) = Len(a) + Len(b)
        /\ \A k \in 1..Len(a) : o[k] = a[k]
        /\ \A k \in 1..Len(b) : o[Len(a) + k] = b[k]
    <3>1. a \in Seq(Char) /\ b \in Seq(Char)
      BY <1>1, <1>2
    <3> QED
      BY <3>1, ConcatParts
  <2> QED
    BY <1>1, <1>2, <2>1
<1> HIDE DEF o
<1>4. \A k \in 1..j : t[k] = o[k]
  <2> TAKE k \in 1..j
  <2>1. CASE k <= i
    BY <1>1, <1>3, <2>1
  <2>2. CASE ~(k <= i)
    <3>1. PICK m \in 1..j - i : k = i + m
      <4>1. k - i \in 1..j - i /\ k = i + (k - i)
        BY <2>2
      <4> QED
        BY <4>1
    <3>2. o[k] = b[m] /\ b[m] = s[k] /\ t[k] = s[k]
      BY <1>1, <1>2, <1>3, <3>1
    <3> QED
      BY <3>2
  <2> QED
    BY <2>1, <2>2
<1>5. t = o
  BY <1>1, <1>3, <1>4, SeqEqual
<1> QED
  BY <1>1, <1>2, <1>5 DEF a, b, t, o

LEMMA KeptOfParts ==
  ASSUME NEW s \in Seq(Char), NEW i \in Nat, NEW j \in Nat, i <= j, j <= Len(s), NEW K
  PROVE  Kept(SubSeq(s, 1, j), K) = Kept(SubSeq(s, 1, i), K) \o Kept(SubSeq(s, i + 1, j), K)
<1>1. /\ SubSeq(s, 1, i) \in Seq(Char) /\ SubSeq(s, i + 1, j) \in Seq(Char)
      /\ SubSeq(s, 1, j) = SubSeq(s, 1, i) \o SubSeq(s, i + 1, j)
  BY TwoParts
<1> DEFINE a == SubSeq(s, 1, i)
           b == SubSeq(s, i + 1, j)
<1>2. a \in Seq(Char) /\ b \in Seq(Char) /\ SubSeq(s, 1, j) = a \o b
  BY <1>1
<1> HIDE DEF a, b
<1>3. Kept(a \o b, K) = Kept(a, K) \o Kept(b, K)
  BY <1>2, KeptConcat
<1>4. Kept(SubSeq(s, 1, j), K) = Kept(a, K) \o Kept(b, K)
  BY <1>2, <1>3
<1> QED
  BY <1>4 DEF a, b

\* No separator is in a piece.
LEMMA PieceWithout ==
  ASSUME NEW s \in Seq(Char), NEW c, NEW k \in Nat \ {0}
  PROVE  \A i \in 1..Len(s) : Cut(s, c, k - 1) < i /\ i < Cut(s, c, k) => s[i] # c
<1> TAKE i \in 1..Len(s)
<1> DEFINE a == Cut(s, c, k - 1)
           e == Cut(s, c, k)
<1>1. HAVE a < i /\ i < e
<1>2. PICK h \in Nat : i = h + 1
  <2>1. i - 1 \in Nat /\ i = (i - 1) + 1
    OBVIOUS
  <2> QED
    BY <2>1
<1>3. a \in 0..Len(s) + 1 /\ e \in 0..Len(s) + 1
  BY CutFacts
<1>4. \A m \in 0..Len(s) : a <= m <=> UpTo(s, c, m) >= k - 1
  <2>1. k - 1 \in Nat
    OBVIOUS
  <2> QED
    BY <2>1, CutFacts
<1>5. \A m \in 0..Len(s) : e <= m <=> UpTo(s, c, m) >= k
  BY CutFacts
<1> HIDE DEF a, e
<1>6. UpTo(s, c, h) >= k - 1
  <2>1. h \in 0..Len(s) /\ a <= h
    BY <1>1, <1>2, <1>3
  <2> QED
    BY <1>4, <2>1
<1>7. ~(UpTo(s, c, h + 1) >= k)
  <2>1. h + 1 \in 0..Len(s) /\ ~(e <= h + 1)
    BY <1>1, <1>2, <1>3
  <2> QED
    BY <1>5, <2>1
<1>8. UpTo(s, c, h) \in Nat /\ UpTo(s, c, h + 1) = UpTo(s, c, h) + (IF s[h + 1] = c THEN 1 ELSE 0)
  BY <1>2, UpToNat, UpToOneMore
<1> QED
  BY <1>2, <1>6, <1>7, <1>8

\* A separator ends a piece that is not the last.
LEMMA PieceBefore ==
  ASSUME NEW s \in Seq(Char), NEW c, NEW k \in Nat \ {0}, Cut(s, c, k) <= Len(s)
  PROVE  Cut(s, c, k) \in 1..Len(s) /\ s[Cut(s, c, k)] = c
<1> DEFINE e == Cut(s, c, k)
<1>1. e \in 0..Len(s) /\ \A m \in 0..Len(s) : e <= m <=> UpTo(s, c, m) >= k
  BY CutFacts
<1> HIDE DEF e
<1>2. UpTo(s, c, e) >= k
  BY <1>1
<1>3. e # 0
  BY <1>2, UpToNone
<1>4. PICK h \in Nat : e = h + 1
  <2>1. e - 1 \in Nat /\ e = (e - 1) + 1
    BY <1>1, <1>3
  <2> QED
    BY <2>1
<1>5. ~(UpTo(s, c, h) >= k)
  <2>1. h \in 0..Len(s) /\ ~(e <= h)
    BY <1>1, <1>4
  <2> QED
    BY <1>1, <2>1
<1>6. UpTo(s, c, h) \in Nat /\ UpTo(s, c, h + 1) = UpTo(s, c, h) + (IF s[h + 1] = c THEN 1 ELSE 0)
  BY <1>4, UpToNat, UpToOneMore
<1>7. s[e] = c
  BY <1>2, <1>4, <1>5, <1>6
<1> QED
  BY <1>1, <1>3, <1>7 DEF e

\* Pieces have all of a text but the separators.
EndOf(s, c, k) == IF Cut(s, c, k) > Len(s) THEN Len(s) ELSE Cut(s, c, k)

LEMMA KeptOfSplit ==
  ASSUME NEW s \in Seq(Char), NEW c, NEW K, c \notin K
  PROVE  /\ Split(s, c) \in Seq(Seq(Char))
         /\ Kept(FlattenSeq(Split(s, c)), K) = Kept(s, K)
<1> DEFINE n == UpTo(s, c, Len(s))
           sp == Split(s, c)
           SS == Seq(Char)
<1>0. Count(s, c) = n /\ n \in Nat
  <2>1. Len(s) \in Nat
    OBVIOUS
  <2> QED
    BY <2>1, CountIsUpTo, UpToNat
<1>1. /\ n \in Nat /\ Len(sp) = n + 1 /\ DOMAIN sp = 1..n + 1
      /\ \A k \in 1..n + 1 : sp[k] = SubSeq(s, Cut(s, c, k - 1) + 1, Cut(s, c, k) - 1)
  <2>1. DOMAIN sp = 1..n + 1
    <3> HIDE DEF n
    <3> QED
      BY <1>0 DEF Split
  <2>2. Len(sp) = n + 1
    BY Pieces
  <2> QED
    BY <1>0, <2>1, <2>2, Pieces
<1>2. \A k \in 1..n + 1 : IsPiece(sp[k], s, Cut(s, c, k - 1), Cut(s, c, k))
  BY <1>1, PieceFacts
<1>3. sp \in Seq(SS)
  <2>1. \A k \in 1..n + 1 : sp[k] \in SS
    BY <1>2 DEF IsPiece
  <2>2. sp \in [1..n + 1 -> SS]
    <3>1. sp = [k \in 1..n + 1 |-> sp[k]]
      BY <1>0 DEF Split
    <3> HIDE DEF sp, SS
    <3> QED
      BY <2>1, <3>1
  <2>3. n + 1 \in Nat
    BY <1>0
  <2> HIDE DEF sp, SS, n
  <2> QED
    BY <2>2, <2>3, FunctionSeq
<1>4. /\ SubSeq(sp, 1, 0) = <<>> /\ SubSeq(sp, 1, Len(sp)) = sp
      /\ \A m \in 0..Len(sp) : SubSeq(sp, 1, m) \in Seq(SS)
      /\ \A m \in 0..Len(sp) - 1 : SubSeq(sp, 1, m + 1) = Append(SubSeq(sp, 1, m), sp[m + 1])
  <2> HIDE DEF SS, sp
  <2> QED
    BY <1>3, Beginnings
<1>5. Cut(s, c, 0) = 0
  <2>1. UpTo(s, c, 0) >= 0 /\ 0 \in Nat /\ 0 \in 0..Len(s)
    BY UpToNone
  <2>2. Cut(s, c, 0) <= 0 /\ Cut(s, c, 0) \in 0..Len(s) + 1
    BY <2>1, CutFacts
  <2> QED
    BY <2>2
<1>6. \A k \in Nat : Cut(s, c, k) \in 0..Len(s) + 1
  BY CutFacts
<1> DEFINE T == {k \in 0..n + 1 :
                   FlattenSeq(Keeps(SubSeq(sp, 1, k), K)) = Kept(SubSeq(s, 1, EndOf(s, c, k)), K)}
<1> HIDE DEF n, sp, SS, T
<1>7. 0 \in T
  <2>1. Keeps(<<>>, K) = <<>>
    BY DEF Keeps
  <2>2. EndOf(s, c, 0) = 0
    BY <1>5 DEF EndOf
  <2>3. SubSeq(s, 1, 0) = <<>>
    BY Beginnings
  <2>4. FlattenSeq(Keeps(SubSeq(sp, 1, 0), K)) = Kept(SubSeq(s, 1, EndOf(s, c, 0)), K)
    BY <1>4, <2>1, <2>2, <2>3, FlatEmpty, KeptEmpty
  <2>5. 0 \in 0..n + 1
    BY <1>1
  <2> QED
    BY <2>4, <2>5 DEF T
<1>8. ASSUME NEW m \in 0..n, m \in T
      PROVE  m + 1 \in T
  <2> DEFINE a == Cut(s, c, m)
             e == Cut(s, c, m + 1)
             part == SubSeq(s, a + 1, e - 1)
  <2>1. a \in 0..Len(s) /\ a < e /\ e \in 0..Len(s) + 1 /\ e - 1 \in 0..Len(s) /\ a <= e - 1
    <3>1. m \in Nat /\ m <= UpTo(s, c, Len(s)) /\ m + 1 \in Nat
      BY <1>1 DEF n
    <3>2. a \in 0..Len(s) /\ a < e
      BY <3>1, CutsAscend
    <3>3. e \in 0..Len(s) + 1
      BY <1>6, <3>1
    <3> QED
      BY <3>2, <3>3
  <2>2. EndOf(s, c, m) = a /\ EndOf(s, c, m + 1) = IF e > Len(s) THEN Len(s) ELSE e
    BY <2>1 DEF EndOf
  <2>3. m + 1 \in 1..n + 1 /\ sp[m + 1] = part
    <3>1. m + 1 \in 1..n + 1 /\ (m + 1) - 1 = m
      BY <1>1
    <3> QED
      BY <1>1, <3>1
  <2>4. Kept(SubSeq(s, 1, e - 1), K) = Kept(SubSeq(s, 1, a), K) \o Kept(part, K) /\ part \in SS
    <3>1. a \in Nat /\ e - 1 \in Nat /\ a <= e - 1 /\ e - 1 <= Len(s)
      BY <2>1
    <3> DEFINE j == e - 1
    <3> HIDE DEF a, e
    <3>2. a \in Nat /\ j \in Nat /\ a <= j /\ j <= Len(s)
      BY <3>1
    <3> HIDE DEF j
    <3>3. Kept(SubSeq(s, 1, j), K) = Kept(SubSeq(s, 1, a), K) \o Kept(SubSeq(s, a + 1, j), K)
      BY <3>2, KeptOfParts
    <3>4. SubSeq(s, a + 1, j) \in Seq(Char)
      BY <3>2, TwoParts
    <3> QED
      BY <3>3, <3>4 DEF SS, j
  <2> HIDE DEF part
  <2>5. Kept(SubSeq(s, 1, EndOf(s, c, m + 1)), K) = Kept(SubSeq(s, 1, e - 1), K)
    <3>1. CASE e > Len(s)
      <4>1. EndOf(s, c, m + 1) = e - 1
        BY <2>1, <2>2, <3>1
      <4> QED
        BY <4>1
    <3>2. CASE ~(e > Len(s))
      <4>1. s[e] = c /\ e \in 1..Len(s)
        <5>1. m + 1 \in Nat \ {0} /\ e <= Len(s)
          BY <3>2, <2>1
        <5> QED
          BY <5>1, PieceBefore
      <4>2. PICK h \in 0..Len(s) - 1 : e = h + 1
        <5>1. e - 1 \in 0..Len(s) - 1 /\ e = (e - 1) + 1
          BY <4>1
        <5> QED
          BY <5>1
      <4>3. SubSeq(s, 1, h + 1) = Append(SubSeq(s, 1, h), s[h + 1]) /\ SubSeq(s, 1, h) \in Seq(Char)
        BY <4>2, Beginnings
      <4> DEFINE b == SubSeq(s, 1, h)
      <4> HIDE DEF b
      <4>4. Kept(Append(b, c), K) = Kept(b, K)
        <5>1. b \in Seq(Char) /\ c \in Char
          BY <4>1, <4>3 DEF b
        <5> QED
          BY <5>1, KeptAppend
      <4>5. Kept(SubSeq(s, 1, e), K) = Kept(SubSeq(s, 1, h), K)
        BY <4>1, <4>2, <4>3, <4>4 DEF b
      <4>6. e - 1 = h /\ EndOf(s, c, m + 1) = e
        BY <2>2, <3>2, <4>2
      <4> QED
        BY <4>5, <4>6
    <3> QED
      BY <3>1, <3>2
  <2> DEFINE be == SubSeq(sp, 1, m)
  <2>6. SubSeq(sp, 1, m + 1) = Append(be, part) /\ be \in Seq(SS)
    <3>1. m \in 0..Len(sp) /\ m \in 0..Len(sp) - 1
      BY <1>1
    <3> QED
      BY <1>4, <2>3, <3>1
  <2>7. FlattenSeq(Keeps(be, K)) = Kept(SubSeq(s, 1, a), K)
    BY <1>8, <2>2 DEF T
  <2> HIDE DEF be
  <2>8. Keeps(Append(be, part), K) = Append(Keeps(be, K), Kept(part, K))
    BY <2>4, <2>6, KeepsAppend DEF SS
  <2>9. Keeps(be, K) \in Seq(SS) /\ Kept(part, K) \in SS
    BY <2>4, <2>6, KeepsType, KeptFromParts DEF SS
  <2>10. FlattenSeq(Append(Keeps(be, K), Kept(part, K))) = FlattenSeq(Keeps(be, K)) \o Kept(part, K)
    <3> DEFINE u == Keeps(be, K)
               v == Kept(part, K)
    <3> HIDE DEF u, v
    <3>1. u \in Seq(Seq(Char)) /\ v \in Seq(Char)
      BY <2>9 DEF u, v, SS
    <3>2. FlattenSeq(Append(u, v)) = FlattenSeq(u) \o v
      BY <3>1, FlatAppend
    <3> QED
      BY <3>2 DEF u, v
  <2>11. FlattenSeq(Keeps(SubSeq(sp, 1, m + 1), K)) = Kept(SubSeq(s, 1, EndOf(s, c, m + 1)), K)
    BY <2>4, <2>5, <2>6, <2>7, <2>8, <2>10
  <2>12. m + 1 \in 0..n + 1
    BY <1>1
  <2> QED
    BY <2>11, <2>12 DEF T
<1>9. \A m \in 0..n + 1 : m \in T
  <2>1. \A m \in 0..(n + 1) - 1 : m \in T => m + 1 \in T
    <3>1. (n + 1) - 1 = n
      BY <1>1
    <3> QED
      BY <1>8, <3>1
  <2>2. n + 1 \in Nat
    BY <1>1
  <2> QED
    BY <1>7, <2>1, <2>2, FromZero
<1>10. n + 1 \in T
  BY <1>1, <1>9
<1>11. EndOf(s, c, n + 1) = Len(s)
  <2>1. UpTo(s, c, Len(s)) = n /\ Len(s) \in 0..Len(s)
    BY DEF n
  <2>2. ~(Cut(s, c, n + 1) <= Len(s))
    <3>1. ~(UpTo(s, c, Len(s)) >= n + 1)
      BY <1>1, <2>1
    <3>2. n + 1 \in Nat
      BY <1>1
    <3> QED
      BY <2>1, <3>1, <3>2, CutFacts
  <2>3. n + 1 \in Nat
    BY <1>1
  <2> QED
    BY <1>6, <2>2, <2>3 DEF EndOf
<1>12. FlattenSeq(Keeps(sp, K)) = Kept(s, K)
  <2>1. SubSeq(s, 1, Len(s)) = s
    BY Beginnings
  <2> QED
    BY <1>1, <1>4, <1>10, <1>11, <2>1 DEF T
<1>13. Kept(FlattenSeq(sp), K) = FlattenSeq(Keeps(sp, K))
  <2>1. sp \in Seq(Seq(Char))
    BY <1>3 DEF SS
  <2> QED
    BY <2>1, KeptOfFlat
<1> QED
  BY <1>3, <1>12, <1>13 DEF sp, SS
-----------------------------------------------------------------------------
(* The words of a term.                                                    *)

\* Words that have the letters of a text, in order.
AreWords(ws, s) == ws \in Seq(Seq(Char)) /\ Kept(FlattenSeq(ws), Letter) = Kept(s, Letter)

LEMMA WordsFacts ==
  ASSUME NEW s \in Seq(Char), NEW c, c \notin Letter
  PROVE  /\ AreWords(Words(s, c), s)
         /\ \A w \in ToSet(Words(s, c)) :
              \E k \in 1..Len(Split(s, c)) : w = Kept(Split(s, c)[k], Letter)
<1> DEFINE sp == Split(s, c)
           kp == Keeps(sp, Letter)
           ws == NonEmpty(kp)
<1>1. sp \in Seq(Seq(Char)) /\ Kept(FlattenSeq(sp), Letter) = Kept(s, Letter)
  BY KeptOfSplit
<1>2. Words(s, c) = ws
  BY LettersOf DEF Words, Keeps
<1> HIDE DEF sp
<1>3. /\ kp \in Seq(Seq(Char)) /\ Len(kp) = Len(sp)
      /\ \A i \in 1..Len(sp) : kp[i] = Kept(sp[i], Letter)
  BY <1>1, KeepsType
<1>4. FlattenSeq(kp) = Kept(s, Letter)
  BY <1>1, KeptOfFlat
<1> HIDE DEF kp
<1>5. /\ ws = Kept(kp, Seq(Char) \ {<<>>}) /\ ws \in Seq(Seq(Char))
      /\ FlattenSeq(ws) = FlattenSeq(kp)
  BY <1>3, NonEmptyIs
<1>6. Kept(FlattenSeq(ws), Letter) = Kept(s, Letter)
  BY <1>4, <1>5, KeptTwice
<1>7. \A w \in ToSet(ws) : \E k \in 1..Len(sp) : w = Kept(sp[k], Letter)
  <2> DEFINE SS == Seq(Char)
             K == SS \ {<<>>}
  <2>1. kp \in Seq(SS)
    BY <1>3
  <2>2. ws = Kept(kp, K)
    BY <1>5
  <2> HIDE DEF SS, K, ws
  <2>3. \A w \in ToSet(Kept(kp, K)) : \E k \in 1..Len(kp) : kp[k] = w
    BY <2>1, KeptMembers
  <2> QED
    BY <1>3, <2>2, <2>3
<1> QED
  BY <1>2, <1>5, <1>6, <1>7 DEF AreWords, sp

\* Chinese characters stand apart.
Apart(m) ==
  \A p \in 1..Len(m) : m[p] = Han =>
    /\ p - 1 \in 1..Len(m) /\ m[p - 1] = Blank
    /\ p + 1 \in 1..Len(m) /\ m[p + 1] = Blank

LEMMA Characters ==
  /\ Blank \in Char /\ Han \in Char /\ Blank # Han
  /\ Han \in Letter /\ Blank \notin Letter
<1>1. Blank # Han
  BY DEF Blank, Han
<1>2. Han \in Letter
  BY DEF Letter
<1> QED
  BY <1>1, <1>2, NoLetters, BlankAssumption

Spaced(x) == IF x = Han THEN <<Blank, Han, Blank>> ELSE <<x>>

\* A character and the blanks around it.
LEMMA SpacedCharacter ==
  ASSUME NEW x \in Char
  PROVE  /\ Spaced(x) \in Seq(Char) /\ Kept(Spaced(x), Letter) = Kept(<<x>>, Letter)
         /\ x = Han => /\ Len(Spaced(x)) = 3
                       /\ Spaced(x)[1] = Blank /\ Spaced(x)[2] = Han /\ Spaced(x)[3] = Blank
         /\ x # Han => Len(Spaced(x)) = 1 /\ Spaced(x)[1] = x
<1> DEFINE B == Blank
           H == Han
           a == <<B>>
           b == <<B, H>>
           c == <<B, H, B>>
<1>1. B \in Char /\ H \in Char /\ B # H /\ H \in Letter /\ B \notin Letter
  BY Characters
<1>2. Spaced(x) = IF x = H THEN <<B, H, B>> ELSE <<x>>
  BY DEF Spaced
<1> HIDE DEF B, H
<1>3. a \in Seq(Char) /\ b \in Seq(Char) /\ c \in Seq(Char)
  BY <1>1
<1>4. Len(c) = 3 /\ c[1] = B /\ c[2] = H /\ c[3] = B
  OBVIOUS
<1>5. Kept(c, Letter) = <<H>>
  <2>1. b = Append(a, H)
    OBVIOUS
  <2>2. c = Append(b, B)
    OBVIOUS
  <2>3. Kept(a, Letter) = <<>>
    BY <1>1, KeptOne
  <2> HIDE DEF a, b, c
  <2>4. Kept(Append(a, H), Letter) = Append(Kept(a, Letter), H)
    BY <1>1, <1>3, KeptAppend
  <2>5. Kept(Append(b, B), Letter) = Kept(b, Letter)
    BY <1>1, <1>3, KeptAppend
  <2>6. Append(<<>>, H) = <<H>>
    OBVIOUS
  <2> QED
    BY <2>1, <2>2, <2>3, <2>4, <2>5, <2>6
<1>6. Kept(<<H>>, Letter) = <<H>>
  BY <1>1, KeptOne
<1> HIDE DEF a, b, c
<1>7. CASE x = Han
  <2>1. Spaced(x) = c /\ x = H
    BY <1>2, <1>7 DEF H, c
  <2> QED
    BY <1>3, <1>4, <1>5, <1>6, <1>7, <2>1 DEF B, H
<1>8. CASE x # Han
  <2>1. Spaced(x) = <<x>>
    BY <1>8 DEF Spaced
  <2>2. <<x>> \in Seq(Char) /\ Len(<<x>>) = 1 /\ <<x>>[1] = x
    OBVIOUS
  <2> QED
    BY <1>8, <2>1, <2>2
<1> QED
  BY <1>7, <1>8

LEMMA NormalizeAppend ==
  ASSUME NEW a \in Seq(Char), NEW x \in Char
  PROVE  normalize_cjk_for_fts(Append(a, x)) = normalize_cjk_for_fts(a) \o Spaced(x)
<1> DEFINE b == Append(a, x)
           ma == [i \in 1..Len(a) |-> Spaced(a[i])]
           mb == [i \in 1..Len(b) |-> Spaced(b[i])]
           y == Spaced(x)
           SS == Seq(Char)
<1>1. normalize_cjk_for_fts(a) = FlattenSeq(ma) /\ normalize_cjk_for_fts(b) = FlattenSeq(mb)
  BY DEF normalize_cjk_for_fts, Spaced
<1>2. /\ b \in Seq(Char) /\ Len(b) = Len(a) + 1 /\ b[Len(a) + 1] = x
      /\ \A i \in 1..Len(a) : b[i] = a[i]
  BY AppendProperties
<1> HIDE DEF b
<1>3. (\A i \in 1..Len(a) : a[i] \in Char) /\ \A i \in 1..Len(b) : b[i] \in Char
  BY <1>2
<1>4. \A z \in Char : Spaced(z) \in SS
  BY SpacedCharacter
<1>5. ma \in [1..Len(a) -> SS] /\ mb \in [1..Len(b) -> SS] /\ y \in SS
  <2> HIDE DEF SS
  <2> QED
    BY <1>3, <1>4
<1>6. /\ \A i \in 1..Len(a) : ma[i] = Spaced(a[i])
      /\ \A i \in 1..Len(b) : mb[i] = Spaced(b[i])
  OBVIOUS
<1> HIDE DEF SS, ma, mb, y
<1>7. ma \in Seq(SS) /\ Len(ma) = Len(a) /\ mb \in Seq(SS) /\ Len(mb) = Len(b)
  <2>1. Len(a) \in Nat /\ Len(b) \in Nat
    BY <1>2
  <2> QED
    BY <1>5, <2>1, FunctionSeq
<1>8. mb = Append(ma, y)
  <2> DEFINE c == Append(ma, y)
  <2>1. /\ c \in Seq(SS) /\ Len(c) = Len(a) + 1 /\ c[Len(a) + 1] = y
        /\ \A i \in 1..Len(a) : c[i] = ma[i]
    BY <1>5, <1>7, AppendProperties
  <2> HIDE DEF c
  <2>2. \A i \in 1..Len(a) + 1 : mb[i] = c[i]
    <3> TAKE i \in 1..Len(a) + 1
    <3>1. i \in 1..Len(a) \/ i = Len(a) + 1
      OBVIOUS
    <3>2. mb[i] = Spaced(b[i])
      BY <1>2, <1>6
    <3> QED
      BY <1>2, <1>6, <2>1, <3>1, <3>2 DEF y
  <2>3. mb = c
    BY <1>2, <1>7, <2>1, <2>2, SeqEqual
  <2> QED
    BY <2>3 DEF c
<1>9. FlattenSeq(Append(ma, y)) = FlattenSeq(ma) \o y
  BY <1>5, <1>7, FlatAppend DEF SS
<1> QED
  BY <1>1, <1>8, <1>9 DEF b, y

IsNormal(m, s) == m \in Seq(Char) /\ Kept(m, Letter) = Kept(s, Letter) /\ Apart(m)

LEMMA NormalizeFacts ==
  ASSUME NEW s \in Seq(Char)
  PROVE  IsNormal(normalize_cjk_for_fts(s), s)
<1> DEFINE T == {c \in Seq(Char) : IsNormal(normalize_cjk_for_fts(c), c)}
<1>1. <<>> \in T
  <2>1. normalize_cjk_for_fts(<<>>) = <<>>
    <3>1. [i \in 1..Len(<<>>) |-> IF <<>>[i] = Han THEN <<Blank, Han, Blank>> ELSE <<<<>>[i]>>] = <<>>
      OBVIOUS
    <3> QED
      BY <3>1, FlatEmpty DEF normalize_cjk_for_fts
  <2>2. <<>> \in Seq(Char) /\ \A p \in 1..Len(<<>>) : FALSE
    OBVIOUS
  <2>3. Apart(<<>>)
    BY <2>2 DEF Apart
  <2>4. IsNormal(normalize_cjk_for_fts(<<>>), <<>>)
    BY <2>1, <2>2, <2>3 DEF IsNormal
  <2> QED
    BY <2>2, <2>4
<1>2. ASSUME NEW c \in Seq(Char), NEW x \in Char, c \in T
      PROVE  Append(c, x) \in T
  <2> DEFINE m == normalize_cjk_for_fts(c)
             y == Spaced(x)
             o == m \o y
             B == Blank
             H == Han
  <2>1. m \in Seq(Char) /\ Kept(m, Letter) = Kept(c, Letter) /\ Apart(m)
    BY <1>2 DEF IsNormal
  <2>2. normalize_cjk_for_fts(Append(c, x)) = o
    BY NormalizeAppend
  <2>3. /\ y \in Seq(Char) /\ Kept(y, Letter) = Kept(<<x>>, Letter)
        /\ x = H => Len(y) = 3 /\ y[1] = B /\ y[2] = H /\ y[3] = B
        /\ x # H => Len(y) = 1 /\ y[1] = x
        /\ B # H
    BY SpacedCharacter, Characters
  <2> HIDE DEF m, y, B, H
  <2>4. /\ o \in Seq(Char) /\ Len(o) = Len(m) + Len(y) /\ Len(m) \in Nat /\ Len(y) \in Nat
        /\ \A i \in 1..Len(m) : o[i] = m[i]
        /\ \A i \in 1..Len(y) : o[Len(m) + i] = y[i]
    BY <2>1, <2>3, ConcatParts
  <2>5. Kept(o, Letter) = Kept(Append(c, x), Letter)
    <3>1. Kept(m \o y, Letter) = Kept(m, Letter) \o Kept(y, Letter)
      <4>1. m \in Seq(Char) /\ y \in Seq(Char)
        BY <2>1, <2>3
      <4> HIDE DEF o
      <4> QED
        BY <4>1, KeptConcat
    <3> DEFINE z == <<x>>
    <3>2. z \in Seq(Char) /\ Append(c, x) = c \o z
      BY AppendIsConcat
    <3> HIDE DEF z
    <3>3. Kept(c \o z, Letter) = Kept(c, Letter) \o Kept(z, Letter)
      BY <3>2, KeptConcat
    <3>4. Kept(y, Letter) = Kept(z, Letter)
      BY <2>3 DEF z
    <3> QED
      BY <2>1, <3>1, <3>2, <3>3, <3>4
  <2> HIDE DEF o
  <2>6. \A p \in 1..Len(m) : m[p] = H =>
          /\ p - 1 \in 1..Len(m) /\ m[p - 1] = B
          /\ p + 1 \in 1..Len(m) /\ m[p + 1] = B
    BY <2>1 DEF Apart, B, H
  <2>7. ASSUME NEW p \in 1..Len(o), o[p] = H
        PROVE  /\ p - 1 \in 1..Len(o) /\ o[p - 1] = B
               /\ p + 1 \in 1..Len(o) /\ o[p + 1] = B
    <3>1. CASE p \in 1..Len(m)
      <4>1. m[p] = H
        BY <2>4, <2>7, <3>1
      <4>2. /\ p - 1 \in 1..Len(m) /\ m[p - 1] = B
            /\ p + 1 \in 1..Len(m) /\ m[p + 1] = B
        BY <2>6, <3>1, <4>1
      <4>3. o[p - 1] = m[p - 1] /\ o[p + 1] = m[p + 1]
        BY <2>4, <4>2
      <4>4. \A i \in 1..Len(m) : i \in 1..Len(o)
        BY <2>4
      <4> QED
        BY <4>2, <4>3, <4>4
    <3>2. CASE p \notin 1..Len(m)
      <4>1. PICK i \in 1..Len(y) : p = Len(m) + i
        <5>1. p - Len(m) \in 1..Len(y) /\ p = Len(m) + (p - Len(m))
          BY <2>4, <3>2
        <5> QED
          BY <5>1
      <4>2. y[i] = H
        BY <2>4, <2>7, <4>1
      <4>3. x = H
        BY <2>3, <4>1, <4>2
      <4>4. Len(y) = 3 /\ y[1] = B /\ y[2] = H /\ y[3] = B /\ i = 2
        <5>1. Len(y) = 3 /\ y[1] = B /\ y[2] = H /\ y[3] = B
          BY <2>3, <4>3
        <5>2. i \in 1..3
          BY <4>1, <5>1
        <5>3. i = 1 \/ i = 2 \/ i = 3
          BY <5>2
        <5> QED
          BY <2>3, <4>2, <5>1, <5>3
      <4>5. o[Len(m) + 1] = B /\ o[Len(m) + 3] = B /\ Len(o) = Len(m) + 3
        <5>1. 1 \in 1..Len(y) /\ 3 \in 1..Len(y)
          BY <4>4
        <5> QED
          BY <2>4, <4>4, <5>1
      <4>6. p - 1 = Len(m) + 1 /\ p + 1 = Len(m) + 3
        BY <2>4, <4>1, <4>4
      <4>7. Len(m) + 1 \in 1..Len(o) /\ Len(m) + 3 \in 1..Len(o)
        BY <2>4, <4>5
      <4> QED
        BY <4>5, <4>6, <4>7
    <3> QED
      BY <3>1, <3>2
  <2>8. Apart(o)
    BY <2>7 DEF Apart, B, H
  <2>9. IsNormal(o, Append(c, x)) /\ Append(c, x) \in Seq(Char)
    BY <2>4, <2>5, <2>8, AppendProperties DEF IsNormal
  <2> QED
    BY <2>2, <2>9
<1> HIDE DEF T
<1>3. \A c \in Seq(Char) : c \in T
  BY <1>1, <1>2, FromEmpty
<1> QED
  BY <1>3 DEF T

\* A Chinese character is a word of its own, or in no word.
Lone(w) == Among(w, Han) => w = <<Han>>

LEMMA SpacedFacts ==
  ASSUME NEW s \in Seq(Char)
  PROVE  AreWords(SpacedWords(s), s) /\ \A w \in ToSet(SpacedWords(s)) : Lone(w)
<1> DEFINE m == normalize_cjk_for_fts(s)
<1>1. m \in Seq(Char) /\ Kept(m, Letter) = Kept(s, Letter) /\ Apart(m)
  BY NormalizeFacts DEF IsNormal
<1>2. SpacedWords(s) = Words(m, Blank)
  BY DEF SpacedWords
<1> HIDE DEF m
<1>3. /\ AreWords(Words(m, Blank), m)
      /\ \A w \in ToSet(Words(m, Blank)) :
           \E k \in 1..Len(Split(m, Blank)) : w = Kept(Split(m, Blank)[k], Letter)
  BY <1>1, NoLetters, WordsFacts
<1>4. AreWords(SpacedWords(s), s)
  BY <1>1, <1>2, <1>3 DEF AreWords
<1>5. ASSUME NEW k \in 1..Len(Split(m, Blank)), Among(Kept(Split(m, Blank)[k], Letter), Han)
      PROVE  Kept(Split(m, Blank)[k], Letter) = <<Han>>
  <2> DEFINE a == Cut(m, Blank, k - 1)
             e == Cut(m, Blank, k)
             q == Split(m, Blank)[k]
  <2>0. k \in Nat \ {0}
    OBVIOUS
  <2>1. IsPiece(q, m, a, e)
    BY <1>1, PieceFacts
  <2>2. \A i \in 1..Len(m) : a < i /\ i < e => m[i] # Blank
    BY <1>1, <2>0, PieceWithout
  <2> HIDE DEF a, e
  <2>3. /\ a \in 0..Len(m) /\ e \in 1..Len(m) + 1 /\ a < e
        /\ q \in Seq(Char) /\ Len(q) = e - a - 1
        /\ \A i \in 1..Len(q) : q[i] = m[a + i]
    BY <2>1 DEF IsPiece
  <2>4. PICK i \in 1..Len(q) : q[i] = Han
    <3> HIDE DEF q
    <3>1. Kept(q, Letter) \in Seq(Char) /\ \A x \in ToSet(Kept(q, Letter)) : \E i \in 1..Len(q) : q[i] = x
      BY <2>3, KeptFromParts, KeptMembers
    <3>2. Among(Kept(q, Letter), Han)
      BY <1>5 DEF q
    <3>3. Han \in ToSet(Kept(q, Letter))
      <4> DEFINE u == Kept(q, Letter)
      <4>1. u \in Seq(Char) /\ Among(u, Han)
        BY <3>1, <3>2
      <4> HIDE DEF u
      <4>2. ToSet(u) = {u[i] : i \in 1..Len(u)}
        BY <4>1, ToSetIs
      <4>3. Han \in ToSet(u)
        BY <4>1, <4>2 DEF Among
      <4> QED
        BY <4>3 DEF u
    <3> QED
      BY <3>1, <3>3
  <2> HIDE DEF q
  <2>5. /\ Len(m) \in Nat /\ a + i \in 1..Len(m) /\ m[a + i] = Han /\ a + i < e
    BY <1>1, <2>3, <2>4
  <2>6. /\ (a + i) - 1 \in 1..Len(m) /\ m[(a + i) - 1] = Blank
        /\ (a + i) + 1 \in 1..Len(m) /\ m[(a + i) + 1] = Blank
    BY <1>1, <2>5 DEF Apart
  <2>7. i = 1
    <3>1. ~(a < (a + i) - 1)
      <4>1. (a + i) - 1 < e
        BY <2>3, <2>5
      <4> QED
        BY <2>2, <2>6, <4>1
    <3> QED
      BY <2>3, <2>4, <3>1
  <2>8. Len(q) = 1
    <3>1. ~((a + i) + 1 < e)
      <4>1. a < (a + i) + 1
        BY <2>3, <2>4
      <4> QED
        BY <2>2, <2>6, <4>1
    <3> QED
      BY <2>3, <2>4, <2>7, <3>1
  <2>9. q = <<Han>>
    BY <2>3, <2>4, <2>7, <2>8
  <2>10. Kept(<<Han>>, Letter) = <<Han>>
    <3>1. Han \in Letter
      BY DEF Letter
    <3> QED
      BY <3>1, KeptOne
  <2> QED
    BY <2>9, <2>10 DEF q
<1>6. \A w \in ToSet(SpacedWords(s)) : Lone(w)
  BY <1>2, <1>3, <1>5 DEF Lone
<1> QED
  BY <1>4, <1>6

\* The words of a term, however it is written.
IsTerm(r, t) ==
  /\ r.prefix \in BOOLEAN /\ AreWords(r.words, t)
  /\ ~Among(t, Hyphen) /\ ~Among(t, Dot) => \A w \in ToSet(r.words) : Lone(w)

LEMMA OneWord ==
  ASSUME NEW t \in Seq(Char), NEW K, Letter \subseteq K
  PROVE  AreWords(<<Kept(t, K)>>, t)
<1> DEFINE k == Kept(t, K)
<1>1. k \in Seq(Char) /\ Kept(k, Letter) = Kept(t, Letter)
  BY KeptFromParts, KeptTwice
<1> HIDE DEF k
<1>2. FlattenSeq(<<k>>) = k /\ <<k>> \in Seq(Seq(Char))
  BY <1>1, FlatOne
<1> QED
  BY <1>1, <1>2 DEF AreWords, k

LEMMA TermFacts ==
  ASSUME NEW t \in Seq(Char)
  PROVE  IsTerm(Term(t), t)
<1>1. CASE is_hyphenated_token(t)
  <2>1. Term(t) = [prefix |-> FALSE, words |-> Words(t, Hyphen)]
    BY <1>1 DEF Term
  <2>2. AreWords(Words(t, Hyphen), t)
    BY WordsFacts, NoLetters
  <2>3. Among(t, Hyphen)
    BY <1>1 DEF is_hyphenated_token
  <2> QED
    BY <2>1, <2>2, <2>3 DEF IsTerm
<1>2. CASE ~is_hyphenated_token(t) /\ is_dotted_token(t)
  <2> DEFINE K == Letter \cup {Dot}
             k == Kept(t, K)
  <2>1. Term(t) = [prefix |-> TRUE, words |-> <<k>>]
    BY <1>2 DEF Term, Kept
  <2>2. AreWords(<<k>>, t)
    BY OneWord
  <2>3. Among(t, Dot)
    <3>1. Len(Split(t, Dot)) = UpTo(t, Dot, Len(t)) + 1 /\ UpTo(t, Dot, Len(t)) \in Nat
      BY Pieces
    <3>2. Len(Split(t, Dot)) >= 2
      BY <1>2 DEF is_dotted_token
    <3>3. UpTo(t, Dot, Len(t)) # 0
      BY <3>1, <3>2
    <3>4. {j \in 1..Len(t) : t[j] = Dot} # {}
      BY <3>3, FS_EmptySet DEF UpTo
    <3> QED
      BY <3>4 DEF Among
  <2> HIDE DEF k
  <2> QED
    BY <2>1, <2>2, <2>3 DEF IsTerm
<1>3. CASE ~is_hyphenated_token(t) /\ ~is_dotted_token(t) /\ Among(t, Han)
  <2>1. Term(t) = [prefix |-> FALSE, words |-> SpacedWords(t)]
    BY <1>3 DEF Term
  <2> QED
    BY <2>1, SpacedFacts DEF IsTerm
<1>4. CASE ~is_hyphenated_token(t) /\ ~is_dotted_token(t) /\ ~Among(t, Han)
  <2> DEFINE k == Kept(t, Letter)
             one == <<k>>
             ws == NonEmpty(one)
  <2>1. Term(t) = [prefix |-> TRUE, words |-> ws]
    BY <1>4, LettersOf DEF Term
  <2>2. AreWords(one, t) /\ k \in Seq(Char)
    BY OneWord, KeptFromParts
  <2>3. ~Among(k, Han)
    <3>1. \A x \in ToSet(k) : \E i \in 1..Len(t) : t[i] = x
      BY KeptMembers
    <3> HIDE DEF k
    <3>2. ToSet(k) = {k[i] : i \in 1..Len(k)}
      BY <2>2, ToSetIs
    <3> QED
      BY <1>4, <3>1, <3>2 DEF Among
  <2> HIDE DEF k
  <2>4. one \in Seq(Seq(Char)) /\ \A i \in 1..Len(one) : one[i] = k
    BY <2>2
  <2> HIDE DEF one
  <2>5. /\ ws = Kept(one, Seq(Char) \ {<<>>}) /\ ws \in Seq(Seq(Char))
        /\ FlattenSeq(ws) = FlattenSeq(one)
    BY <2>4, NonEmptyIs
  <2>6. AreWords(ws, t)
    BY <2>2, <2>5 DEF AreWords
  <2>7. \A w \in ToSet(ws) : Lone(w)
    <3> DEFINE SS == Seq(Char)
               K == SS \ {<<>>}
    <3>1. one \in Seq(SS) /\ ws = Kept(one, K)
      BY <2>4, <2>5
    <3> HIDE DEF SS, K, ws
    <3>2. \A w \in ToSet(Kept(one, K)) : \E i \in 1..Len(one) : one[i] = w
      BY <3>1, KeptMembers
    <3> QED
      BY <2>3, <2>4, <3>1, <3>2 DEF Lone
  <2> HIDE DEF ws
  <2> QED
    BY <2>1, <2>6, <2>7 DEF IsTerm
<1> QED
  BY <1>1, <1>2, <1>3, <1>4

-----------------------------------------------------------------------------
(* Items.                                                                  *)

\* What items say, what the positive ones say, and that characters are apart.
Voices(items) == [i \in 1..Len(items) |-> Said(items[i])]
Yeses(items) == [i \in 1..Len(items) |-> IF items[i].negated THEN <<>> ELSE Said(items[i])]
Heard(items) == FlattenSeq(Voices(items))
Affirmed(items) == FlattenSeq(Yeses(items))
AllLone(items) == \A i \in 1..Len(items) : \A w \in ToSet(items[i].words) : Lone(w)

LEMMA SaidType ==
  ASSUME NEW x \in LexItem
  PROVE  Said(x) = Kept(FlattenSeq(x.words), Letter) /\ Said(x) \in Seq(Char) /\ x.negated \in BOOLEAN
<1>1. x.words \in Seq(Seq(Char)) /\ x.negated \in BOOLEAN
  BY DEF LexItem
<1> DEFINE ws == x.words
<1>2. ws \in Seq(Seq(Char)) /\ Said(x) = Kept(FlattenSeq(ws), Letter)
  BY <1>1, LettersOf DEF Said
<1> HIDE DEF ws
<1>3. FlattenSeq(ws) \in Seq(Char)
  BY <1>2, FlatType
<1>4. Kept(FlattenSeq(ws), Letter) \in Seq(Char)
  BY <1>3, KeptFromParts
<1> QED
  BY <1>1, <1>2, <1>4 DEF ws

LEMMA VoicesType ==
  ASSUME NEW items \in Seq(LexItem)
  PROVE  /\ Voices(items) \in Seq(Seq(Char)) /\ Len(Voices(items)) = Len(items)
         /\ Yeses(items) \in Seq(Seq(Char)) /\ Len(Yeses(items)) = Len(items)
         /\ \A i \in 1..Len(items) :
              /\ Voices(items)[i] = Said(items[i])
              /\ Yeses(items)[i] = IF items[i].negated THEN <<>> ELSE Said(items[i])
<1> DEFINE SS == Seq(Char)
<1>1. \A i \in 1..Len(items) : items[i] \in LexItem
  OBVIOUS
<1>2. \A i \in 1..Len(items) : Said(items[i]) \in SS
  BY <1>1, SaidType
<1>3. <<>> \in SS /\ Len(items) \in Nat
  OBVIOUS
<1> HIDE DEF SS
<1>4. Voices(items) \in [1..Len(items) -> SS] /\ Yeses(items) \in [1..Len(items) -> SS]
  BY <1>2, <1>3 DEF Voices, Yeses
<1>5. /\ Voices(items) \in Seq(SS) /\ Len(Voices(items)) = Len(items)
      /\ Yeses(items) \in Seq(SS) /\ Len(Yeses(items)) = Len(items)
  BY <1>3, <1>4, FunctionSeq
<1>6. \A i \in 1..Len(items) :
        /\ Voices(items)[i] = Said(items[i])
        /\ Yeses(items)[i] = IF items[i].negated THEN <<>> ELSE Said(items[i])
  BY DEF Voices, Yeses
<1> QED
  BY <1>5, <1>6 DEF SS

\* Items before items.
Chain(a, b) ==
  /\ a \o b \in Seq(LexItem)
  /\ Heard(a \o b) = Heard(a) \o Heard(b)
  /\ Affirmed(a \o b) = Affirmed(a) \o Affirmed(b)
  /\ AllLone(a) /\ AllLone(b) => AllLone(a \o b)

LEMMA ChainOfItems ==
  ASSUME NEW a \in Seq(LexItem), NEW b \in Seq(LexItem)
  PROVE  Chain(a, b)
<1> DEFINE o == a \o b
           SS == Seq(Char)
<1>1. /\ o \in Seq(LexItem) /\ Len(o) = Len(a) + Len(b) /\ Len(a) \in Nat /\ Len(b) \in Nat
      /\ \A i \in 1..Len(a) : o[i] = a[i]
      /\ \A i \in 1..Len(b) : o[Len(a) + i] = b[i]
  BY ConcatParts
<1> HIDE DEF o
<1>2. \A i \in 1..Len(o) : i \in 1..Len(a) \/ \E j \in 1..Len(b) : i = Len(a) + j
  <2> TAKE i \in 1..Len(o)
  <2>1. CASE i <= Len(a)
    BY <1>1, <2>1
  <2>2. CASE ~(i <= Len(a))
    <3>1. i - Len(a) \in 1..Len(b) /\ i = Len(a) + (i - Len(a))
      BY <1>1, <2>2
    <3> QED
      BY <3>1
  <2> QED
    BY <2>1, <2>2
<1>3. ASSUME NEW u \in Seq(SS), NEW v \in Seq(SS), NEW w \in Seq(SS),
             Len(u) = Len(a), Len(v) = Len(b), Len(w) = Len(o),
             \A i \in 1..Len(a) : w[i] = u[i],
             \A i \in 1..Len(b) : w[Len(a) + i] = v[i]
      PROVE  FlattenSeq(w) = FlattenSeq(u) \o FlattenSeq(v)
  <2> DEFINE z == u \o v
  <2> HIDE DEF SS
  <2>1. /\ z \in Seq(SS) /\ Len(z) = Len(u) + Len(v)
        /\ \A i \in 1..Len(u) : z[i] = u[i]
        /\ \A i \in 1..Len(v) : z[Len(u) + i] = v[i]
    BY ConcatParts
  <2> HIDE DEF z
  <2>2. \A i \in 1..Len(o) : w[i] = z[i]
    <3> TAKE i \in 1..Len(o)
    <3>1. CASE i \in 1..Len(a)
      BY <1>3, <2>1, <3>1
    <3>2. CASE \E j \in 1..Len(b) : i = Len(a) + j
      BY <1>3, <2>1, <3>2
    <3> QED
      BY <1>2, <3>1, <3>2
  <2>3. Len(z) = Len(w)
    BY <1>1, <1>3, <2>1
  <2>4. w = z
    BY <1>3, <2>1, <2>2, <2>3, SeqEqual
  <2>5. u \in Seq(Seq(Char)) /\ v \in Seq(Seq(Char))
    BY DEF SS
  <2>6. FlattenSeq(u \o v) = FlattenSeq(u) \o FlattenSeq(v)
    BY <2>5, FlatConcat
  <2> QED
    BY <2>4, <2>6 DEF z
<1>4. Heard(o) = Heard(a) \o Heard(b)
  <2> DEFINE u == Voices(a)
             v == Voices(b)
             w == Voices(o)
  <2>1. /\ u \in Seq(SS) /\ Len(u) = Len(a) /\ \A i \in 1..Len(a) : u[i] = Said(a[i])
        /\ v \in Seq(SS) /\ Len(v) = Len(b) /\ \A i \in 1..Len(b) : v[i] = Said(b[i])
        /\ w \in Seq(SS) /\ Len(w) = Len(o) /\ \A i \in 1..Len(o) : w[i] = Said(o[i])
    BY <1>1, VoicesType
  <2> HIDE DEF u, v, w, SS
  <2>2. /\ \A i \in 1..Len(a) : w[i] = u[i]
        /\ \A i \in 1..Len(b) : w[Len(a) + i] = v[i]
    <3>1. \A i \in 1..Len(a) : i \in 1..Len(o)
      BY <1>1
    <3>2. \A i \in 1..Len(b) : Len(a) + i \in 1..Len(o)
      BY <1>1
    <3> QED
      BY <1>1, <2>1, <3>1, <3>2
  <2>3. FlattenSeq(w) = FlattenSeq(u) \o FlattenSeq(v)
    BY <1>3, <2>1, <2>2
  <2> QED
    BY <2>3 DEF Heard, u, v, w
<1>5. Affirmed(o) = Affirmed(a) \o Affirmed(b)
  <2> DEFINE u == Yeses(a)
             v == Yeses(b)
             w == Yeses(o)
  <2>1. /\ u \in Seq(SS) /\ Len(u) = Len(a)
        /\ \A i \in 1..Len(a) : u[i] = IF a[i].negated THEN <<>> ELSE Said(a[i])
        /\ v \in Seq(SS) /\ Len(v) = Len(b)
        /\ \A i \in 1..Len(b) : v[i] = IF b[i].negated THEN <<>> ELSE Said(b[i])
        /\ w \in Seq(SS) /\ Len(w) = Len(o)
        /\ \A i \in 1..Len(o) : w[i] = IF o[i].negated THEN <<>> ELSE Said(o[i])
    BY <1>1, VoicesType
  <2> HIDE DEF u, v, w, SS
  <2>2. /\ \A i \in 1..Len(a) : w[i] = u[i]
        /\ \A i \in 1..Len(b) : w[Len(a) + i] = v[i]
    <3>1. \A i \in 1..Len(a) : i \in 1..Len(o)
      BY <1>1
    <3>2. \A i \in 1..Len(b) : Len(a) + i \in 1..Len(o)
      BY <1>1
    <3> QED
      BY <1>1, <2>1, <3>1, <3>2
  <2>3. FlattenSeq(w) = FlattenSeq(u) \o FlattenSeq(v)
    BY <1>3, <2>1, <2>2
  <2> QED
    BY <2>3 DEF Affirmed, u, v, w
<1>6. ASSUME AllLone(a), AllLone(b)
      PROVE  AllLone(o)
  <2> SUFFICES ASSUME NEW i \in 1..Len(o)
               PROVE  \A w \in ToSet(o[i].words) : Lone(w)
    BY DEF AllLone
  <2>1. CASE i \in 1..Len(a)
    BY <1>1, <1>6, <2>1 DEF AllLone
  <2>2. CASE \E j \in 1..Len(b) : i = Len(a) + j
    BY <1>1, <1>6, <2>2 DEF AllLone
  <2> QED
    BY <1>2, <2>1, <2>2
<1> QED
  BY <1>1, <1>4, <1>5, <1>6 DEF Chain, o

\* An item of a text: nothing if it has no letters.
AddsUp(items, t, negated) ==
  /\ items \in Seq(LexItem) /\ Heard(items) = Kept(t, Letter)
  /\ Affirmed(items) = IF negated THEN <<>> ELSE Kept(t, Letter)

LEMMA NothingAddsUp ==
  ASSUME NEW t, Kept(t, Letter) = <<>>, NEW negated
  PROVE  AddsUp(<<>>, t, negated) /\ AllLone(<<>>)
<1>1. Voices(<<>>) = <<>> /\ Yeses(<<>>) = <<>> /\ <<>> \in Seq(LexItem)
  BY DEF Voices, Yeses
<1>2. AllLone(<<>>)
  BY DEF AllLone
<1> QED
  BY <1>1, <1>2, FlatEmpty DEF AddsUp, Heard, Affirmed

Speaks(r, t) == r.prefix \in BOOLEAN /\ AreWords(r.words, t)
IsItem(items, r, t, negated) ==
  AddsUp(items, t, negated) /\ ((\A w \in ToSet(r.words) : Lone(w)) => AllLone(items))

LEMMA ItemFacts ==
  ASSUME NEW t, NEW negated \in BOOLEAN, NEW r, Speaks(r, t)
  PROVE  IsItem(Item(negated, r), r, t, negated)
<1>0. r.prefix \in BOOLEAN /\ AreWords(r.words, t)
  BY DEF Speaks
<1>1. CASE r.words = <<>>
  <2>1. Item(negated, r) = <<>>
    BY <1>1 DEF Item
  <2>2. Kept(t, Letter) = <<>>
    BY <1>0, <1>1, FlatEmpty, KeptEmpty DEF AreWords
  <2> QED
    BY <2>1, <2>2, NothingAddsUp DEF IsItem
<1>2. CASE r.words # <<>>
  <2> DEFINE x == [negated |-> negated, prefix |-> r.prefix, words |-> r.words]
             items == <<x>>
  <2>1. Item(negated, r) = items
    BY <1>2 DEF Item
  <2>2. /\ r.words \in Seq(Seq(Char)) /\ Kept(FlattenSeq(r.words), Letter) = Kept(t, Letter)
    BY <1>0 DEF AreWords
  <2>3. x \in LexItem /\ x.negated = negated /\ x.words = r.words
    BY <1>0, <2>2 DEF LexItem
  <2> HIDE DEF x
  <2>4. items \in Seq(LexItem) /\ Len(items) = 1 /\ items[1] = x
    BY <2>3
  <2> HIDE DEF items
  <2>5. Said(x) = Kept(t, Letter) /\ Said(x) \in Seq(Char)
    BY <2>2, <2>3, SaidType
  <2>6. /\ Voices(items) \in Seq(Seq(Char)) /\ Len(Voices(items)) = 1
        /\ Yeses(items) \in Seq(Seq(Char)) /\ Len(Yeses(items)) = 1
        /\ Voices(items)[1] = Said(x)
        /\ Yeses(items)[1] = IF negated THEN <<>> ELSE Said(x)
    BY <2>3, <2>4, VoicesType
  <2> DEFINE v == Voices(items)
             y == Yeses(items)
             a == Said(x)
             b == IF negated THEN <<>> ELSE Said(x)
  <2>7. v = <<a>> /\ y = <<b>>
    BY <2>6
  <2>8. a \in Seq(Char) /\ b \in Seq(Char)
    BY <2>5
  <2> HIDE DEF a, b, v, y
  <2>9. FlattenSeq(<<a>>) = a /\ FlattenSeq(<<b>>) = b
    BY <2>8, FlatOne
  <2>10. Heard(items) = Said(x) /\ Affirmed(items) = IF negated THEN <<>> ELSE Said(x)
    BY <2>7, <2>9 DEF Heard, Affirmed, a, b, v, y
  <2>11. AddsUp(items, t, negated)
    BY <2>4, <2>5, <2>10 DEF AddsUp
  <2>12. ASSUME \A w \in ToSet(r.words) : Lone(w)
         PROVE  AllLone(items)
    BY <2>3, <2>4, <2>12 DEF AllLone
  <2> QED
    BY <2>1, <2>11, <2>12 DEF IsItem
<1> QED
  BY <1>1, <1>2

\* Where the first of some places is.
LEMMA FirstOfPlaces ==
  ASSUME NEW from \in Nat, NEW to \in Nat, from <= to + 1, NEW P, P \subseteq from..to
  PROVE  /\ FirstOf(P, to + 1) \in from..to + 1
         /\ FirstOf(P, to + 1) \in P \/ FirstOf(P, to + 1) = to + 1
         /\ \A k \in from..to : k < FirstOf(P, to + 1) => k \notin P
<1>1. CASE P = {}
  BY <1>1 DEF FirstOf
<1>2. CASE P # {}
  <2>1. P \in SUBSET Nat
    OBVIOUS
  <2>2. Min(P) \in P /\ \A k \in P : Min(P) <= k
    BY <1>2, <2>1, LeastOf
  <2>3. FirstOf(P, to + 1) = Min(P)
    BY <1>2 DEF FirstOf
  <2> DEFINE m == Min(P)
  <2> HIDE DEF m
  <2>4. m \in P /\ (\A k \in P : m <= k) /\ FirstOf(P, to + 1) = m
    BY <2>2, <2>3 DEF m
  <2> QED
    BY <2>4
<1> QED
  BY <1>1, <1>2

\* A sign at i, or none, what it negates at j, and the token's end.
Sign(s, i, j) == j = IF s[i] = Hyphen THEN i + 1 ELSE i
IsPhrase(s, i, j, end) ==
  /\ s[i] # Blank /\ Sign(s, i, j)
  /\ j \in i..Len(s) /\ s[j] = Quote
  /\ end \in j + 1..Len(s) + 1 /\ (end <= Len(s) => s[end] = Quote)
  /\ \A k \in j + 1..Len(s) : k < end => s[k] # Quote
  /\ Token(s, i) = [items |-> Item(s[i] = Hyphen, [prefix |-> FALSE,
                                                   words |-> SpacedWords(SubSeq(s, j + 1, end - 1))]),
                    next |-> end + 1]
IsPlain(s, i, j, end) ==
  /\ s[i] \notin {Blank, Quote} /\ Sign(s, i, j) /\ j \in i..Len(s) + 1
  /\ end \in j..Len(s) + 1 /\ i < end /\ (end <= Len(s) => s[end] \in {Blank, Quote})
  /\ \A k \in j..Len(s) : k < end => s[k] \notin {Blank, Quote}
  /\ j <= Len(s) => s[j] # Quote
  /\ Token(s, i) = [items |-> Item(s[i] = Hyphen, Term(SubSeq(s, j, end - 1))), next |-> end]

LEMMA Marks ==
  /\ Blank # Quote /\ Blank # Hyphen /\ Quote # Hyphen
BY DEF Blank, Quote, Hyphen

LEMMA TokenKinds ==
  ASSUME NEW s \in Seq(Char), NEW i \in 1..Len(s), s[i] # Blank
  PROVE  \E j \in i..i + 1, end \in 1..Len(s) + 1 : IsPhrase(s, i, j, end) \/ IsPlain(s, i, j, end)
<1> DEFINE n == Len(s)
           j == IF s[i] = Hyphen THEN i + 1 ELSE i
           quotes == {k \in j + 1..n : s[k] = Quote}
           stops == {k \in j..n : s[k] \in {Blank, Quote}}
           phrase == j <= n /\ s[j] = Quote
           p == FirstOf(quotes, n + 1)
           q == FirstOf(stops, n + 1)
<1>1. n \in Nat /\ j \in i..i + 1 /\ j \in 1..n + 1 /\ Sign(s, i, j)
  BY DEF Sign
<1>2. Token(s, i) =
        IF phrase
        THEN [items |-> Item(s[i] = Hyphen, [prefix |-> FALSE,
                                             words |-> SpacedWords(SubSeq(s, j + 1, p - 1))]),
              next |-> p + 1]
        ELSE [items |-> Item(s[i] = Hyphen, Term(SubSeq(s, j, q - 1))), next |-> q]
  BY DEF Token
<1>3. CASE phrase
  <2>1. j + 1 \in Nat /\ j + 1 <= n + 1 /\ quotes \subseteq j + 1..n
    BY <1>1, <1>3
  <2> DEFINE f == j + 1
  <2>2. f \in Nat /\ f <= n + 1 /\ quotes \subseteq f..n
    BY <2>1
  <2> HIDE DEF f, quotes, n, j
  <2>3. /\ p \in f..n + 1 /\ (p \in quotes \/ p = n + 1)
        /\ \A k \in f..n : k < p => k \notin quotes
    BY <1>1, <2>2, FirstOfPlaces
  <2> HIDE DEF p
  <2>4. p <= n => s[p] = Quote
    BY <1>1, <2>3 DEF quotes
  <2>5. \A k \in f..n : k < p => s[k] # Quote
    BY <2>3 DEF quotes, f
  <2>6. IsPhrase(s, i, j, p)
    BY <1>1, <1>2, <1>3, <2>3, <2>4, <2>5 DEF IsPhrase, f, n
  <2>7. p \in 1..n + 1
    BY <1>1, <2>3 DEF f
  <2> QED
    BY <1>1, <2>6, <2>7 DEF n
<1>4. CASE ~phrase
  <2>1. j \in Nat /\ j <= n + 1 /\ stops \subseteq j..n
    BY <1>1
  <2>0. i \in 1..n /\ s[i] # Blank
    OBVIOUS
  <2>2. s[i] # Quote
    <3>1. s[i] = Quote => j = i
      BY Marks
    <3> QED
      BY <1>4, <3>1
  <2>3. j = i \/ j = i + 1
    OBVIOUS
  <2> HIDE DEF stops, n, j
  <2>4. /\ q \in j..n + 1 /\ (q \in stops \/ q = n + 1)
        /\ \A k \in j..n : k < q => k \notin stops
    BY <1>1, <2>1, FirstOfPlaces
  <2> HIDE DEF q
  <2>5. q <= n => s[q] \in {Blank, Quote}
    BY <1>1, <2>4 DEF stops
  <2>6. \A k \in j..n : k < q => s[k] \notin {Blank, Quote}
    BY <2>4 DEF stops
  <2>7. i < q
    <3>1. j = i => q # i
      BY <2>0, <2>2, <2>5
    <3> QED
      BY <1>1, <2>0, <2>3, <2>4, <3>1
  <2>8. q \in 1..n + 1
    BY <1>1, <2>4
  <2>9. j \in i..n + 1
    BY <1>1
  <2>10. IsPlain(s, i, j, q)
    BY <1>1, <1>2, <1>4, <2>0, <2>2, <2>4, <2>5, <2>6, <2>7, <2>9 DEF IsPlain, n
  <2> QED
    BY <1>1, <2>8, <2>10 DEF n
<1> QED
  BY <1>3, <1>4

\* A part of a text, in two.
LEMMA PartInTwo ==
  ASSUME NEW s \in Seq(Char), NEW h \in Nat, NEW a \in Nat, NEW e \in Nat,
         h <= a, a <= e, e <= Len(s)
  PROVE  /\ SubSeq(s, h + 1, a) \in Seq(Char) /\ SubSeq(s, a + 1, e) \in Seq(Char)
         /\ SubSeq(s, h + 1, e) = SubSeq(s, h + 1, a) \o SubSeq(s, a + 1, e)
<1> DEFINE u == SubSeq(s, h + 1, a)
           v == SubSeq(s, a + 1, e)
           t == SubSeq(s, h + 1, e)
           o == u \o v
<1>1. /\ u \in Seq(Char) /\ Len(u) = a - h /\ \A k \in 1..a - h : u[k] = s[h + k]
      /\ v \in Seq(Char) /\ Len(v) = e - a /\ \A k \in 1..e - a : v[k] = s[a + k]
  BY PartOf
<1>2. t \in Seq(Char) /\ Len(t) = e - h /\ \A k \in 1..e - h : t[k] = s[h + k]
  BY PartOf
<1> HIDE DEF u, v, t
<1>3. /\ o \in Seq(Char) /\ Len(o) = Len(u) + Len(v)
      /\ \A k \in 1..Len(u) : o[k] = u[k]
      /\ \A k \in 1..Len(v) : o[Len(u) + k] = v[k]
  <2>1. u \in Seq(Char) /\ v \in Seq(Char)
    BY <1>1
  <2> QED
    BY <2>1, ConcatParts
<1> HIDE DEF o
<1>4. \A k \in 1..e - h : t[k] = o[k]
  <2> TAKE k \in 1..e - h
  <2>1. CASE k <= a - h
    <3>1. k \in 1..a - h /\ k \in 1..Len(u)
      BY <1>1, <2>1
    <3> QED
      BY <1>1, <1>2, <1>3, <3>1
  <2>2. CASE ~(k <= a - h)
    <3>1. PICK m \in 1..e - a : k = (a - h) + m
      <4>1. k - (a - h) \in 1..e - a /\ k = (a - h) + (k - (a - h))
        BY <2>2
      <4> QED
        BY <4>1
    <3>2. o[(a - h) + m] = v[m] /\ v[m] = s[a + m]
      BY <1>1, <1>3
    <3>3. h + k = a + m /\ t[k] = s[h + k]
      BY <1>2, <3>1
    <3> QED
      BY <3>1, <3>2, <3>3
  <2> QED
    BY <2>1, <2>2
<1>5. Len(t) = Len(o)
  BY <1>1, <1>2, <1>3
<1>6. t = o
  BY <1>2, <1>3, <1>4, <1>5, SeqEqual
<1> QED
  BY <1>1, <1>6 DEF u, v, t, o

Divided(s, h, a, e, K) ==
  /\ Kept(SubSeq(s, h + 1, e), K) = Kept(SubSeq(s, h + 1, a), K) \o Kept(SubSeq(s, a + 1, e), K)
  /\ Kept(SubSeq(s, h + 1, a), K) \in Seq(Char) /\ Kept(SubSeq(s, a + 1, e), K) \in Seq(Char)

LEMMA KeptInTwo ==
  ASSUME NEW s \in Seq(Char), NEW h \in Nat, NEW a \in Nat, NEW e \in Nat,
         h <= a, a <= e, e <= Len(s), NEW K
  PROVE  Divided(s, h, a, e, K)
<1> DEFINE u == SubSeq(s, h + 1, a)
           v == SubSeq(s, a + 1, e)
           t == SubSeq(s, h + 1, e)
<1>1. u \in Seq(Char) /\ v \in Seq(Char) /\ t = u \o v
  BY PartInTwo
<1> HIDE DEF u, v, t
<1>2. Kept(u \o v, K) = Kept(u, K) \o Kept(v, K)
  BY <1>1, KeptConcat
<1>3. Kept(u, K) \in Seq(Char) /\ Kept(v, K) \in Seq(Char)
  BY <1>1, KeptFromParts
<1> QED
  BY <1>1, <1>2, <1>3 DEF Divided, u, v, t

LEMMA KeptNowhere ==
  ASSUME NEW s \in Seq(Char), NEW h \in Nat, NEW e \in Nat, h <= e, e <= Len(s), NEW K,
         \A k \in 1..Len(s) : h < k /\ k <= e => s[k] \notin K
  PROVE  Kept(SubSeq(s, h + 1, e), K) = <<>>
<1> DEFINE t == SubSeq(s, h + 1, e)
<1>1. t \in Seq(Char) /\ Len(t) = e - h /\ \A k \in 1..e - h : t[k] = s[h + k]
  BY PartOf
<1> HIDE DEF t
<1>2. \A k \in 1..Len(t) : t[k] \notin K
  <2> TAKE k \in 1..Len(t)
  <2>1. h + k \in 1..Len(s) /\ h < h + k /\ h + k <= e /\ k \in 1..e - h
    BY <1>1
  <2>2. s[h + k] \notin K
    BY <2>1
  <2> QED
    BY <1>1, <2>1, <2>2
<1>3. Kept(t, K) = <<>>
  BY <1>1, <1>2, KeptNone
<1> QED
  BY <1>3 DEF t

\* A part has the letters of one inside of it that has them all.
IsInside(s, h, a, b, e, K) ==
  \A k \in 1..Len(s) : h < k /\ k <= e /\ s[k] \in K => a < k /\ k <= b

LEMMA KeptInside ==
  ASSUME NEW s \in Seq(Char), NEW h \in Nat, NEW a \in Nat, NEW b \in Nat, NEW e \in Nat,
         h <= a, a <= b, b <= e, e <= Len(s), NEW K, IsInside(s, h, a, b, e, K)
  PROVE  Kept(SubSeq(s, h + 1, e), K) = Kept(SubSeq(s, a + 1, b), K)
<1> DEFINE x == Kept(SubSeq(s, h + 1, e), K)
           u == Kept(SubSeq(s, h + 1, a), K)
           v == Kept(SubSeq(s, a + 1, e), K)
           y == Kept(SubSeq(s, a + 1, b), K)
           z == Kept(SubSeq(s, b + 1, e), K)
<1>0. \A k \in 1..Len(s) : h < k /\ k <= e /\ s[k] \in K => a < k /\ k <= b
  BY DEF IsInside
<1>1. x = u \o v /\ v \in Seq(Char)
  <2>1. a <= e
    OBVIOUS
  <2>2. Divided(s, h, a, e, K)
    BY <2>1, KeptInTwo
  <2> QED
    BY <2>2 DEF Divided
<1>2. v = y \o z /\ y \in Seq(Char)
  <2>1. Divided(s, a, b, e, K)
    BY KeptInTwo
  <2> QED
    BY <2>1 DEF Divided
<1>3. u = <<>>
  <2>1. a <= Len(s) /\ \A k \in 1..Len(s) : h < k /\ k <= a => s[k] \notin K
    BY <1>0
  <2> QED
    BY <2>1, KeptNowhere
<1>4. z = <<>>
  <2>1. \A k \in 1..Len(s) : b < k /\ k <= e => s[k] \notin K
    BY <1>0
  <2> QED
    BY <2>1, KeptNowhere
<1> HIDE DEF x, u, v, y, z
<1>5. <<>> \o v = v /\ y \o <<>> = y
  BY <1>1, <1>2, ConcatEmptySeq
<1>6. x = y
  BY <1>1, <1>2, <1>3, <1>4, <1>5
<1> QED
  BY <1>6 DEF x, y

\* A text without what is denied.
Masked(s) == [k \in 1..Len(s) |-> IF Denied(s, k) THEN Blank ELSE s[k]]

LEMMA MaskedFacts ==
  ASSUME NEW s \in Seq(Char)
  PROVE  /\ Masked(s) \in Seq(Char) /\ Len(Masked(s)) = Len(s)
         /\ \A k \in 1..Len(s) : Masked(s)[k] = IF Denied(s, k) THEN Blank ELSE s[k]
<1>1. Len(s) \in Nat /\ \A k \in 1..Len(s) : s[k] \in Char
  OBVIOUS
<1>2. Masked(s) \in [1..Len(s) -> Char]
  BY <1>1, Characters DEF Masked
<1>3. Masked(s) \in Seq(Char) /\ Len(Masked(s)) = Len(s)
  BY <1>1, <1>2, FunctionSeq
<1>4. \A k \in 1..Len(s) : Masked(s)[k] = IF Denied(s, k) THEN Blank ELSE s[k]
  BY DEF Masked
<1> QED
  BY <1>3, <1>4

\* A part whose letters are all denied, or none is.
IsDenied(s, h, e, negated) ==
  \A k \in 1..Len(s) : h < k /\ k <= e /\ s[k] \in Letter => (Denied(s, k) <=> negated)

LEMMA KeptOfMasked ==
  ASSUME NEW s \in Seq(Char), NEW h \in Nat, NEW e \in Nat, h <= e, e <= Len(s),
         NEW negated \in BOOLEAN, IsDenied(s, h, e, negated)
  PROVE  Kept(SubSeq(Masked(s), h + 1, e), Letter)
           = IF negated THEN <<>> ELSE Kept(SubSeq(s, h + 1, e), Letter)
<1> DEFINE m == Masked(s)
<1>1. /\ m \in Seq(Char) /\ Len(m) = Len(s)
      /\ \A k \in 1..Len(s) : m[k] = IF Denied(s, k) THEN Blank ELSE s[k]
  BY MaskedFacts
<1> HIDE DEF m
<1>2. CASE negated
  <2>1. \A k \in 1..Len(m) : h < k /\ k <= e => m[k] \notin Letter
    BY <1>1, <1>2, NoLetters DEF IsDenied
  <2>2. e <= Len(m)
    BY <1>1
  <2>3. Kept(SubSeq(m, h + 1, e), Letter) = <<>>
    BY <1>1, <2>1, <2>2, KeptNowhere
  <2> QED
    BY <1>2, <2>3 DEF m
<1>3. CASE ~negated
  <2> DEFINE u == SubSeq(m, h + 1, e)
             v == SubSeq(s, h + 1, e)
  <2>1. u \in Seq(Char) /\ Len(u) = e - h /\ \A k \in 1..e - h : u[k] = m[h + k]
    <3>1. e <= Len(m) /\ m \in Seq(Char)
      BY <1>1
    <3> QED
      BY <3>1, PartOf
  <2>2. v \in Seq(Char) /\ Len(v) = e - h /\ \A k \in 1..e - h : v[k] = s[h + k]
    BY PartOf
  <2> HIDE DEF u, v
  <2>3. \A k \in 1..Len(u) : u[k] \in Letter \/ v[k] \in Letter => u[k] = v[k]
    <3> TAKE k \in 1..Len(u)
    <3>1. k \in 1..e - h /\ h + k \in 1..Len(s) /\ h < h + k /\ h + k <= e
      BY <2>1
    <3>2. u[k] = m[h + k] /\ v[k] = s[h + k]
      BY <2>1, <2>2, <3>1
    <3>3. m[h + k] = IF Denied(s, h + k) THEN Blank ELSE s[h + k]
      BY <1>1, <3>1
    <3>4. s[h + k] \in Letter => ~Denied(s, h + k)
      BY <1>3, <3>1 DEF IsDenied
    <3> QED
      BY <3>2, <3>3, <3>4, NoLetters
  <2>4. Kept(u, Letter) = Kept(v, Letter)
    BY <2>1, <2>2, <2>3, KeptAlike
  <2> QED
    BY <1>3, <2>4 DEF u, v, m
<1> QED
  BY <1>2, <1>3
-----------------------------------------------------------------------------
(* What a hyphen denies.                                                   *)

LEMMA GreatestIs ==
  ASSUME NEW P, P \subseteq Nat, NEW x \in P, \A y \in P : y <= x
  PROVE  Max(P) = x
<1>1. x \in P /\ \A y \in P : x >= y
  OBVIOUS
<1>2. \A z \in P : (\A y \in P : z >= y) => z = x
  <2> TAKE z \in P
  <2>1. HAVE \A y \in P : z >= y
  <2>2. z >= x /\ x >= z /\ x \in Nat /\ z \in Nat
    BY <1>1, <2>1
  <2> QED
    BY <2>2
<1> QED
  BY <1>1, <1>2 DEF Max

LEMMA UpToSame ==
  ASSUME NEW s \in Seq(Char), NEW c, NEW h \in Nat, NEW e \in Nat, h <= e,
         \A k \in 1..e : h < k => s[k] # c
  PROVE  UpTo(s, c, e) = UpTo(s, c, h)
<1>1. {j \in 1..e : s[j] = c} = {j \in 1..h : s[j] = c}
  OBVIOUS
<1> QED
  BY <1>1 DEF UpTo

\* Outside of quotes, in sight of the end of what came before.
Even(s, h) == UpTo(s, Quote, h) % 2 = 0
Ready(s, i) ==
  i <= Len(s) =>
    /\ Even(s, i - 1)
    /\ \/ i = 1 \/ s[i - 1] \in {Blank, Quote} \/ s[i] = Blank
       \/ s[i] = Quote /\ (s[i - 1] = Hyphen => i > 2 /\ s[i - 2] \notin {Blank, Quote})

LEMMA ReadyAtFirst == \A s \in Seq(Char) : Ready(s, 1)
<1> TAKE s \in Seq(Char)
<1>1. UpTo(s, Quote, 0) = 0 /\ 1 - 1 = 0 /\ 0 % 2 = 0
  BY UpToNone
<1> QED
  BY <1>1 DEF Ready, Even

\* Where what a character belongs to begins, and whether that denies it.
Begin(s, k) ==
  IF Even(s, k) THEN 1 + Max({0} \cup {m \in 1..k : s[m] \in {Blank, Quote}})
  ELSE Max({m \in 1..k : s[m] = Quote}) - 1
Denies(s, b) ==
  /\ s[b] = Hyphen
  /\ b = 1 \/ s[b - 1] = Blank \/ (s[b - 1] = Quote /\ Even(s, b - 1))

LEMMA DeniedIs ==
  ASSUME NEW s \in Seq(Char), NEW k \in 1..Len(s)
  PROVE  Denied(s, k) <=> Begin(s, k) \in 1..k /\ Denies(s, Begin(s, k))
<1> DEFINE quotes == Count(SubSeq(s, 1, k), Quote)
           begins == IF quotes % 2 = 1 THEN Max({m \in 1..k : s[m] = Quote}) - 1
                     ELSE 1 + Max({0} \cup {m \in 1..k : s[m] \in {Blank, Quote}})
           ends == Count(SubSeq(s, 1, begins - 1), Quote)
<1>1. Denied(s, k) <=>
        /\ begins \in 1..k /\ s[begins] = Hyphen
        /\ begins = 1 \/ s[begins - 1] = Blank \/ (s[begins - 1] = Quote /\ ends % 2 = 0)
  BY DEF Denied
<1>2. quotes = UpTo(s, Quote, k) /\ UpTo(s, Quote, k) \in Nat
  <2>1. k \in 0..Len(s) /\ k \in Nat
    OBVIOUS
  <2> QED
    BY <2>1, CountIsUpTo, UpToNat
<1> DEFINE u == UpTo(s, Quote, k)
<1>3. u \in Nat /\ (u % 2 = 1 <=> ~(u % 2 = 0))
  <2>1. u \in Nat
    BY <1>2
  <2> HIDE DEF u
  <2> QED
    BY <2>1
<1>4. begins = Begin(s, k)
  <2> DEFINE x == Max({m \in 1..k : s[m] = Quote}) - 1
             y == 1 + Max({0} \cup {m \in 1..k : s[m] \in {Blank, Quote}})
  <2>1. begins = (IF quotes % 2 = 1 THEN x ELSE y) /\ Begin(s, k) = IF u % 2 = 0 THEN y ELSE x
    BY DEF Begin, Even
  <2>2. quotes = u
    BY <1>2
  <2> HIDE DEF x, y, quotes, u, begins
  <2> QED
    BY <1>3, <2>1, <2>2
<1> DEFINE b == Begin(s, k)
<1>5. ASSUME b \in 1..k
      PROVE  ends = UpTo(s, Quote, b - 1)
  <2>1. ends = Count(SubSeq(s, 1, b - 1), Quote)
    BY <1>4
  <2> HIDE DEF b, ends, quotes, begins
  <2>2. b - 1 \in 0..Len(s)
    BY <1>5
  <2> QED
    BY <2>1, <2>2, CountIsUpTo
<1> HIDE DEF quotes, begins, ends, u
<1>6. Denied(s, k) <=>
        /\ b \in 1..k /\ s[b] = Hyphen
        /\ b = 1 \/ s[b - 1] = Blank \/ (s[b - 1] = Quote /\ ends % 2 = 0)
  BY <1>1, <1>4
<1> HIDE DEF b
<1>7. Denied(s, k) <=> b \in 1..k /\ Denies(s, b)
  BY <1>5, <1>6 DEF Denies, Even
<1> QED
  BY <1>7 DEF b

\* Quotes up to the places of a phrase and of a term.
LEMMA QuotesOfPhrase ==
  ASSUME NEW s \in Seq(Char), NEW i \in 1..Len(s), NEW j, NEW end,
         IsPhrase(s, i, j, end), Ready(s, i)
  PROVE  /\ \A k \in 1..Len(s) : j <= k /\ k < end => ~Even(s, k)
         /\ end <= Len(s) => Even(s, end)
<1> DEFINE n == Len(s)
<1>1. /\ n \in Nat /\ j \in i..n /\ s[j] = Quote /\ end \in j + 1..n + 1 /\ (end <= n => s[end] = Quote)
      /\ (\A k \in j + 1..n : k < end => s[k] # Quote) /\ j = IF s[i] = Hyphen THEN i + 1 ELSE i
  BY DEF IsPhrase, Sign
<1> HIDE DEF n
<1>2. i \in 1..n
  BY DEF n
<1>3. PICK h \in Nat : j = h + 1
  <2>1. j - 1 \in Nat /\ j = (j - 1) + 1
    BY <1>1, <1>2
  <2> QED
    BY <2>1
<1>4. Even(s, i - 1)
  BY <1>2 DEF Ready, n
<1>5. UpTo(s, Quote, h) = UpTo(s, Quote, i - 1)
  <2>1. CASE j = i
    <3>1. h = i - 1
      BY <1>2, <1>3, <2>1
    <3> QED
      BY <3>1
  <2>2. CASE j # i
    <3>1. s[i] = Hyphen /\ h = i /\ i - 1 \in Nat /\ i - 1 <= h
      BY <1>1, <1>2, <1>3, <2>2
    <3> DEFINE g == i - 1
    <3>2. g \in Nat /\ g <= h /\ \A k \in 1..h : g < k => s[k] # Quote
      BY <1>2, <3>1, Marks
    <3> HIDE DEF g
    <3>3. UpTo(s, Quote, h) = UpTo(s, Quote, g)
      BY <1>3, <3>2, UpToSame
    <3> QED
      BY <3>3 DEF g
  <2> QED
    BY <2>1, <2>2
<1>6. /\ UpTo(s, Quote, h) \in Nat /\ UpTo(s, Quote, j) = UpTo(s, Quote, h) + 1
      /\ UpTo(s, Quote, h) % 2 = 0
  <2>1. UpTo(s, Quote, h + 1) = UpTo(s, Quote, h) + (IF s[h + 1] = Quote THEN 1 ELSE 0)
    BY <1>3, UpToOneMore
  <2>2. UpTo(s, Quote, h) \in Nat
    BY <1>3, UpToNat
  <2> QED
    BY <1>1, <1>3, <1>4, <1>5, <2>1, <2>2 DEF Even
<1> DEFINE u == UpTo(s, Quote, h)
<1>7. u \in Nat /\ u % 2 = 0 /\ UpTo(s, Quote, j) = u + 1
  BY <1>6
<1> HIDE DEF u
<1>8. ~((u + 1) % 2 = 0) /\ ((u + 1) + 1) % 2 = 0
  BY <1>7
<1>9. \A k \in 1..n : j <= k /\ k < end => UpTo(s, Quote, k) = u + 1
  <2> TAKE k \in 1..n
  <2>1. HAVE j <= k /\ k < end
  <2>2. j \in Nat /\ k \in Nat /\ \A m \in 1..k : j < m => s[m] # Quote
    BY <1>1, <1>2, <2>1
  <2>3. UpTo(s, Quote, k) = UpTo(s, Quote, j)
    BY <2>1, <2>2, UpToSame
  <2> QED
    BY <1>7, <2>3
<1>10. ASSUME end <= n
       PROVE  UpTo(s, Quote, end) = (u + 1) + 1
  <2>1. PICK g \in 1..n : end = g + 1 /\ j <= g
    <3>1. end - 1 \in 1..n /\ end = (end - 1) + 1 /\ j <= end - 1
      BY <1>1, <1>2, <1>10
    <3> QED
      BY <3>1
  <2>2. UpTo(s, Quote, g) = u + 1
    BY <1>1, <1>2, <1>9, <2>1
  <2>3. UpTo(s, Quote, g + 1) = UpTo(s, Quote, g) + (IF s[g + 1] = Quote THEN 1 ELSE 0)
    BY <1>1, <2>1, UpToOneMore
  <2>4. s[g + 1] = Quote
    BY <1>1, <1>10, <2>1
  <2> QED
    BY <1>7, <2>1, <2>2, <2>3, <2>4
<1> QED
  BY <1>8, <1>9, <1>10 DEF Even, n

LEMMA QuotesOfPlain ==
  ASSUME NEW s \in Seq(Char), NEW i \in 1..Len(s), NEW j, NEW end,
         IsPlain(s, i, j, end), Ready(s, i)
  PROVE  /\ \A k \in 1..Len(s) : i <= k /\ k < end => s[k] \notin {Blank, Quote} /\ Even(s, k)
         /\ Even(s, end - 1)
<1> DEFINE n == Len(s)
<1>1. /\ n \in Nat /\ s[i] \notin {Blank, Quote} /\ j \in i..n + 1 /\ end \in j..n + 1 /\ i < end
      /\ (\A k \in j..n : k < end => s[k] \notin {Blank, Quote})
      /\ j = IF s[i] = Hyphen THEN i + 1 ELSE i
  BY DEF IsPlain, Sign
<1> HIDE DEF n
<1>2. i \in 1..n
  BY DEF n
<1>3. \A k \in 1..n : i <= k /\ k < end => s[k] \notin {Blank, Quote}
  BY <1>1, <1>2
<1>4. Even(s, i - 1)
  BY <1>2 DEF Ready, n
<1>5. \A k \in 1..n : i <= k /\ k < end => Even(s, k)
  <2> TAKE k \in 1..n
  <2>1. HAVE i <= k /\ k < end
  <2> DEFINE g == i - 1
  <2>2. g \in Nat /\ k \in Nat /\ g <= k /\ \A m \in 1..k : g < m => s[m] # Quote
    <3>1. \A m \in 1..k : i <= m => s[m] # Quote
      BY <1>1, <1>3, <2>1
    <3> QED
      BY <1>2, <2>1, <3>1
  <2>3. Even(s, g)
    BY <1>4
  <2> HIDE DEF g
  <2>4. UpTo(s, Quote, k) = UpTo(s, Quote, g)
    BY <2>2, UpToSame
  <2> QED
    BY <2>3, <2>4 DEF Even
<1>6. end - 1 \in 1..n /\ i <= end - 1 /\ end - 1 < end
  BY <1>1, <1>2
<1> QED
  BY <1>3, <1>5, <1>6 DEF n

\* The letters of a token are denied if it has a hyphen in front.
LEMMA DeniedInPhrase ==
  ASSUME NEW s \in Seq(Char), NEW i \in 1..Len(s), NEW j, NEW end,
         IsPhrase(s, i, j, end), Ready(s, i),
         NEW k \in 1..Len(s), j < k, k < end
  PROVE  Denied(s, k) <=> s[i] = Hyphen
<1> DEFINE n == Len(s)
           P == {m \in 1..k : s[m] = Quote}
<1>1. /\ n \in Nat /\ j \in i..n /\ s[j] = Quote /\ end \in j + 1..n + 1
      /\ (\A m \in j + 1..n : m < end => s[m] # Quote) /\ j = IF s[i] = Hyphen THEN i + 1 ELSE i
      /\ s[i] # Blank /\ i \in 1..n /\ k \in 1..n
  BY DEF IsPhrase, Sign
<1>2. ~Even(s, k)
  <2>1. j <= k
    BY <1>1
  <2> QED
    BY <2>1, QuotesOfPhrase
<1> HIDE DEF n
<1>3. P \subseteq Nat /\ j \in P /\ \A m \in P : m <= j
  BY <1>1
<1> HIDE DEF P
<1>4. Max(P) = j
  BY <1>3, GreatestIs
<1>5. Begin(s, k) = j - 1
  BY <1>2, <1>4 DEF Begin, P
<1>6. Denied(s, k) <=> j - 1 \in 1..k /\ Denies(s, j - 1)
  BY <1>5, DeniedIs
<1>7. /\ Even(s, i - 1)
      /\ \/ i = 1 \/ s[i - 1] \in {Blank, Quote} \/ s[i] = Blank
         \/ s[i] = Quote /\ (s[i - 1] = Hyphen => i > 2 /\ s[i - 2] \notin {Blank, Quote})
  BY <1>1 DEF Ready, n
<1>8. CASE s[i] = Hyphen
  <2>1. j - 1 = i /\ i \in 1..k
    BY <1>1, <1>8
  <2>2. i = 1 \/ s[i - 1] \in {Blank, Quote}
    BY <1>1, <1>7, <1>8, Marks
  <2>3. Denies(s, i)
    BY <1>7, <1>8, <2>2 DEF Denies
  <2> QED
    BY <1>6, <1>8, <2>1, <2>3
<1>9. CASE s[i] # Hyphen
  <2>1. j = i /\ s[i] = Quote
    BY <1>1, <1>9
  <2>2. SUFFICES ASSUME i - 1 \in 1..k, Denies(s, i - 1)
                 PROVE  FALSE
    BY <1>6, <1>9, <2>1
  <2>3. s[i - 1] = Hyphen /\ i # 1
    BY <2>2, <1>1 DEF Denies
  <2>4. i > 2 /\ s[i - 2] \notin {Blank, Quote}
    BY <1>1, <1>7, <2>3, Marks
  <2>5. (i - 1) - 1 = i - 2 /\ i - 1 # 1
    BY <1>1, <2>4
  <2> QED
    BY <2>2, <2>4, <2>5 DEF Denies
<1> QED
  BY <1>8, <1>9

LEMMA DeniedInPlain ==
  ASSUME NEW s \in Seq(Char), NEW i \in 1..Len(s), NEW j, NEW end,
         IsPlain(s, i, j, end), Ready(s, i),
         NEW k \in 1..Len(s), i <= k, k < end
  PROVE  Denied(s, k) <=> s[i] = Hyphen
<1> DEFINE n == Len(s)
           P == {0} \cup {m \in 1..k : s[m] \in {Blank, Quote}}
<1>1. n \in Nat /\ s[i] \notin {Blank, Quote} /\ i \in 1..n /\ k \in 1..n
  BY DEF IsPlain
<1>2. Even(s, k) /\ \A m \in 1..n : i <= m /\ m < end => s[m] \notin {Blank, Quote}
  BY QuotesOfPlain
<1>0. end \in Nat
  BY <1>1 DEF IsPlain, Sign
<1> HIDE DEF n
<1>3. /\ Even(s, i - 1)
      /\ i = 1 \/ s[i - 1] \in {Blank, Quote}
  BY <1>1 DEF Ready, n
<1>4. P \subseteq Nat /\ i - 1 \in P /\ \A m \in P : m <= i - 1
  <2>1. i - 1 \in P
    BY <1>1, <1>3
  <2>2. ASSUME NEW m \in P
        PROVE  m <= i - 1
    <3>1. CASE m = 0
      BY <1>1, <3>1
    <3>2. CASE m \in 1..k /\ s[m] \in {Blank, Quote}
      <4>1. m \in 1..n /\ m < end
        BY <1>0, <1>1, <3>2
      <4>2. ~(i <= m)
        BY <1>2, <3>2, <4>1
      <4> QED
        BY <1>1, <4>1, <4>2
    <3> QED
      BY <3>1, <3>2
  <2>3. P \subseteq Nat
    BY <1>1
  <2> QED
    BY <2>1, <2>2, <2>3
<1> HIDE DEF P
<1>5. Max(P) = i - 1
  <2> DEFINE h == i - 1
  <2>1. P \subseteq Nat /\ h \in P /\ \A m \in P : m <= h
    BY <1>4
  <2> HIDE DEF h
  <2>2. Max(P) = h
    BY <2>1, GreatestIs
  <2> QED
    BY <2>2 DEF h
<1>6. Begin(s, k) = i
  <2>1. Begin(s, k) = 1 + Max(P)
    BY <1>2 DEF Begin, P
  <2>2. 1 + (i - 1) = i
    BY <1>1
  <2> QED
    BY <1>5, <2>1, <2>2
<1>7. Denied(s, k) <=> i \in 1..k /\ Denies(s, i)
  BY <1>6, DeniedIs
<1>8. i \in 1..k
  BY <1>1
<1>9. Denies(s, i) <=> s[i] = Hyphen
  BY <1>3 DEF Denies
<1> QED
  BY <1>7, <1>8, <1>9

\* After a token one is ready for the next.
LEMMA ReadyAfterBlank ==
  ASSUME NEW s \in Seq(Char), NEW i \in 1..Len(s), s[i] = Blank, Ready(s, i)
  PROVE  Ready(s, i + 1)
<1> DEFINE h == i - 1
<1>1. h \in Nat /\ i = h + 1 /\ Even(s, h) /\ (i + 1) - 1 = h + 1
  BY DEF Ready
<1> HIDE DEF h
<1>2. UpTo(s, Quote, h + 1) = UpTo(s, Quote, h) + (IF s[h + 1] = Quote THEN 1 ELSE 0)
  BY <1>1, UpToOneMore
<1>3. UpTo(s, Quote, h) \in Nat
  BY <1>1, UpToNat
<1>4. UpTo(s, Quote, h + 1) = UpTo(s, Quote, h)
  BY <1>1, <1>2, <1>3, Marks
<1>5. Even(s, (i + 1) - 1) /\ s[(i + 1) - 1] = Blank
  BY <1>1, <1>4 DEF Even
<1> QED
  BY <1>5 DEF Ready

LEMMA ReadyAfterPhrase ==
  ASSUME NEW s \in Seq(Char), NEW i \in 1..Len(s), NEW j, NEW end,
         IsPhrase(s, i, j, end), Ready(s, i)
  PROVE  Ready(s, end + 1)
<1>0. end \in Nat /\ (end <= Len(s) => s[end] = Quote)
  BY DEF IsPhrase, Sign
<1>1. end <= Len(s) => Even(s, end)
  BY QuotesOfPhrase
<1>2. (end + 1) - 1 = end /\ (end + 1 <= Len(s) => end <= Len(s))
  BY <1>0
<1> QED
  BY <1>0, <1>1, <1>2 DEF Ready

LEMMA ReadyAfterPlain ==
  ASSUME NEW s \in Seq(Char), NEW i \in 1..Len(s), NEW j, NEW end,
         IsPlain(s, i, j, end), Ready(s, i)
  PROVE  Ready(s, end)
<1> DEFINE n == Len(s)
<1>1. /\ n \in Nat /\ j = (IF s[i] = Hyphen THEN i + 1 ELSE i)
      /\ end \in j..n + 1 /\ i < end /\ (end <= n => s[end] \in {Blank, Quote})
      /\ (j <= n => s[j] # Quote) /\ i \in 1..n
  BY DEF IsPlain, Sign
<1>2. /\ \A k \in 1..n : i <= k /\ k < end => s[k] \notin {Blank, Quote}
      /\ Even(s, end - 1)
  BY QuotesOfPlain
<1> HIDE DEF n
<1>3. ASSUME end <= n, s[end] = Quote, s[end - 1] = Hyphen
      PROVE  end > 2 /\ s[end - 2] \notin {Blank, Quote}
  <2>1. end - 1 # i
    <3>1. SUFFICES ASSUME end - 1 = i
                   PROVE  FALSE
      OBVIOUS
    <3>2. j = i + 1 /\ end = i + 1
      BY <1>1, <1>3, <3>1
    <3> QED
      BY <1>1, <1>3, <3>2
  <2>2. end - 2 \in 1..n /\ i <= end - 2 /\ end - 2 < end /\ end > 2
    BY <1>1, <1>3, <2>1
  <2> QED
    BY <1>2, <2>2
<1>4. end <= n => s[end] = Blank \/ s[end] = Quote
  BY <1>1
<1> QED
  BY <1>2, <1>3, <1>4 DEF Ready, n

\* A token: its items say what it has of the text.
Reach(s, next) == IF next - 1 <= Len(s) THEN next - 1 ELSE Len(s)
IsToken(s, h, token) ==
  LET e == Reach(s, token.next) IN
  /\ token.next \in h + 2..Len(s) + 2 /\ token.items \in Seq(LexItem)
  /\ Heard(token.items) = Kept(SubSeq(s, h + 1, e), Letter)
  /\ ~Among(s, Hyphen) /\ ~Among(s, Dot) => AllLone(token.items)
  /\ Ready(s, h + 1) =>
       /\ Affirmed(token.items) = Kept(SubSeq(Masked(s), h + 1, e), Letter)
       /\ Ready(s, token.next)

\* What a part is not among, the text may still have.
LEMMA AmongPart ==
  ASSUME NEW s \in Seq(Char), NEW a \in Nat, NEW b \in Nat, a <= b, b <= Len(s), NEW c
  PROVE  Among(SubSeq(s, a + 1, b), c) => Among(s, c)
<1> DEFINE t == SubSeq(s, a + 1, b)
<1>1. t \in Seq(Char) /\ Len(t) = b - a /\ \A k \in 1..b - a : t[k] = s[a + k]
  BY PartOf
<1> HIDE DEF t
<1>2. ASSUME NEW k \in 1..Len(t), t[k] = c
      PROVE  Among(s, c)
  <2>1. a + k \in 1..Len(s) /\ s[a + k] = c
    BY <1>1, <1>2
  <2> QED
    BY <2>1 DEF Among
<1>3. Among(t, c) => Among(s, c)
  BY <1>2 DEF Among
<1> QED
  BY <1>3 DEF t

\* Items of a part a..b of the token h..e, which has the token's letters.
Tells(s, h, a, b, e, negated, items) ==
  /\ items \in Seq(LexItem) /\ Heard(items) = Kept(SubSeq(s, h + 1, e), Letter)
  /\ IsDenied(s, a, b, negated) => Affirmed(items) = Kept(SubSeq(Masked(s), h + 1, e), Letter)

LEMMA TokenFromPart ==
  ASSUME NEW s \in Seq(Char), NEW h \in Nat, NEW a \in Nat, NEW b \in Nat, NEW e \in Nat,
         h <= a, a <= b, b <= e, e <= Len(s), NEW negated \in BOOLEAN, NEW items,
         AddsUp(items, SubSeq(s, a + 1, b), negated), IsInside(s, h, a, b, e, Letter)
  PROVE  Tells(s, h, a, b, e, negated, items)
<1>0. \A k \in 1..Len(s) : h < k /\ k <= e /\ s[k] \in Letter => a < k /\ k <= b
  BY DEF IsInside
<1>1. Kept(SubSeq(s, h + 1, e), Letter) = Kept(SubSeq(s, a + 1, b), Letter)
  BY KeptInside
<1>2. ASSUME IsDenied(s, a, b, negated)
      PROVE  Affirmed(items) = Kept(SubSeq(Masked(s), h + 1, e), Letter)
  <2>1. IsDenied(s, h, e, negated)
    BY <1>0, <1>2 DEF IsDenied
  <2>2. h <= e
    OBVIOUS
  <2>3. Kept(SubSeq(Masked(s), h + 1, e), Letter)
          = IF negated THEN <<>> ELSE Kept(SubSeq(s, h + 1, e), Letter)
    BY <2>1, <2>2, KeptOfMasked
  <2> QED
    BY <1>1, <2>3 DEF AddsUp
<1> QED
  BY <1>1, <1>2 DEF AddsUp, Tells

\* A token is a blank, a phrase or a term.
LEMMA TokenOfBlank ==
  ASSUME NEW s \in Seq(Char), NEW h \in Nat, h < Len(s), s[h + 1] = Blank
  PROVE  IsToken(s, h, Token(s, h + 1))
<1> DEFINE n == Len(s)
           i == h + 1
           token == Token(s, i)
           none == <<>>
<1>1. n \in Nat /\ i \in 1..n /\ h < n /\ s[i] = Blank
  OBVIOUS
<1>2. token = [items |-> none, next |-> i + 1]
  BY <1>1 DEF Token
<1>3. token.items = none /\ token.next = h + 2 /\ token.next - 1 = h + 1
  BY <1>2
<1>4. Reach(s, token.next) = h + 1
  BY <1>1, <1>3 DEF Reach
<1>5. Kept(SubSeq(s, h + 1, h), Letter) = <<>>
  BY <1>1, KeptNowhere
<1>6. AddsUp(none, SubSeq(s, h + 1, h), FALSE) /\ AllLone(none)
  BY <1>5, NothingAddsUp
<1>7. IsDenied(s, h, h, FALSE)
  BY <1>1 DEF IsDenied
<1>8. ASSUME NEW k \in 1..n, h < k, k <= h + 1, s[k] \in Letter
      PROVE  h < k /\ k <= h
  <2>1. k = i
    BY <1>1, <1>8
  <2> QED
    BY <1>1, <1>8, <2>1, NoLetters
<1> HIDE DEF token, none
<1>9. /\ none \in Seq(LexItem) /\ Heard(none) = Kept(SubSeq(s, h + 1, h + 1), Letter)
      /\ Affirmed(none) = Kept(SubSeq(Masked(s), h + 1, h + 1), Letter)
  <2> DEFINE e == h + 1
  <2>1. e \in Nat /\ h <= h /\ h <= e /\ e <= Len(s)
    BY <1>1
  <2>2. IsInside(s, h, h, h, e, Letter) /\ FALSE \in BOOLEAN
    BY <1>8 DEF IsInside
  <2> HIDE DEF e
  <2>3. Tells(s, h, h, h, e, FALSE, none)
    BY <1>6, <2>1, <2>2, TokenFromPart
  <2> QED
    BY <1>7, <2>3 DEF e, Tells
<1>10. Ready(s, h + 1) => Ready(s, token.next)
  <2>1. SUFFICES ASSUME Ready(s, i)
                 PROVE  Ready(s, i + 1)
    BY <1>3
  <2> QED
    BY <1>1, <2>1, ReadyAfterBlank
<1>11. token.next \in h + 2..Len(s) + 2
  BY <1>1, <1>3
<1> QED
  BY <1>3, <1>4, <1>6, <1>9, <1>10, <1>11 DEF IsToken, token

LEMMA TokenOfPhrase ==
  ASSUME NEW s \in Seq(Char), NEW h \in Nat, h < Len(s), NEW j, NEW end,
         IsPhrase(s, h + 1, j, end)
  PROVE  IsToken(s, h, Token(s, h + 1))
<1> DEFINE n == Len(s)
           i == h + 1
           token == Token(s, i)
           b == end - 1
           t == SubSeq(s, j + 1, b)
           negated == s[i] = Hyphen
           r == [prefix |-> FALSE, words |-> SpacedWords(t)]
           items == Item(negated, r)
           e == Reach(s, token.next)
<1>1. n \in Nat /\ i \in 1..n /\ h < n /\ h = i - 1
  OBVIOUS
<1>2. /\ j \in i..n /\ s[j] = Quote /\ j = (IF s[i] = Hyphen THEN i + 1 ELSE i)
      /\ end \in j + 1..n + 1 /\ (end <= n => s[end] = Quote)
      /\ token = [items |-> items, next |-> end + 1]
  BY DEF IsPhrase, Sign
<1>3. token.items = items /\ token.next = end + 1 /\ token.next - 1 = end
  BY <1>1, <1>2
<1>4. e = IF end <= n THEN end ELSE n
  BY <1>3 DEF Reach
<1>5. j \in Nat /\ b \in Nat /\ h <= j /\ j <= b /\ b <= n /\ b <= e /\ e \in Nat /\ e <= n
  BY <1>1, <1>2, <1>4
<1> HIDE DEF e, items, token
<1>6. t \in Seq(Char)
  BY <1>5, PartOf
<1>7. AreWords(SpacedWords(t), t) /\ \A w \in ToSet(SpacedWords(t)) : Lone(w)
  BY <1>6, SpacedFacts
<1>8. r.prefix \in BOOLEAN /\ AreWords(r.words, t) /\ \A w \in ToSet(r.words) : Lone(w)
  BY <1>7
<1>9. negated \in BOOLEAN
  OBVIOUS
<1> HIDE DEF r, t, negated
<1>10. AddsUp(items, t, negated) /\ AllLone(items)
  <2>1. Speaks(r, t)
    BY <1>8 DEF Speaks
  <2>2. IsItem(Item(negated, r), r, t, negated)
    BY <1>9, <2>1, ItemFacts
  <2> QED
    BY <1>8, <2>2 DEF items, IsItem
<1>11. \A k \in 1..Len(s) : h < k /\ k <= e /\ s[k] \in Letter => j < k /\ k <= b
  <2> SUFFICES ASSUME NEW k \in 1..Len(s), h < k, k <= e, s[k] \in Letter
               PROVE  j < k /\ k <= b
    OBVIOUS
  <2>1. k # j /\ s[k] # Hyphen /\ (end <= n => k # end)
    BY <1>2, NoLetters
  <2>2. k # i \/ j = i
    BY <1>2, <2>1
  <2>3. j < k
    BY <1>1, <1>2, <2>1, <2>2
  <2>4. k <= b
    BY <1>1, <1>2, <1>4, <2>1
  <2> QED
    BY <2>3, <2>4
<1> HIDE DEF b
<1>12. /\ items \in Seq(LexItem) /\ Heard(items) = Kept(SubSeq(s, h + 1, e), Letter)
       /\ IsDenied(s, j, b, negated) => Affirmed(items) = Kept(SubSeq(Masked(s), h + 1, e), Letter)
  <2>1. AddsUp(items, SubSeq(s, j + 1, b), negated)
    BY <1>10 DEF t
  <2>2. IsInside(s, h, j, b, e, Letter)
    BY <1>11 DEF IsInside
  <2>3. Tells(s, h, j, b, e, negated, items)
    BY <1>1, <1>5, <1>9, <2>1, <2>2, TokenFromPart
  <2> QED
    BY <2>3 DEF Tells
<1>13. ASSUME Ready(s, i)
       PROVE  IsDenied(s, j, b, negated) /\ Ready(s, end + 1)
  <2>1. IsPhrase(s, i, j, end) /\ end \in Nat
    BY <1>1, <1>2
  <2>2. Ready(s, end + 1)
    BY <1>1, <1>13, <2>1, ReadyAfterPhrase
  <2>3. ASSUME NEW k \in 1..Len(s), j < k, k <= b
        PROVE  Denied(s, k) <=> negated
    <3>1. k < end
      BY <2>1, <2>3 DEF b
    <3> HIDE DEF i
    <3> QED
      BY <1>1, <1>13, <2>1, <2>3, <3>1, DeniedInPhrase DEF negated
  <2> QED
    BY <2>2, <2>3 DEF IsDenied
<1>14. token.next \in h + 2..n + 2
  BY <1>1, <1>2, <1>3
<1> QED
  BY <1>3, <1>10, <1>12, <1>13, <1>14 DEF IsToken, token, e

LEMMA TokenOfPlain ==
  ASSUME NEW s \in Seq(Char), NEW h \in Nat, h < Len(s), NEW j, NEW end,
         IsPlain(s, h + 1, j, end)
  PROVE  IsToken(s, h, Token(s, h + 1))
<1> DEFINE n == Len(s)
           i == h + 1
           token == Token(s, i)
           a == j - 1
           b == end - 1
           t == SubSeq(s, j, b)
           negated == s[i] = Hyphen
           r == Term(t)
           items == Item(negated, r)
           e == Reach(s, token.next)
<1>1. n \in Nat /\ i \in 1..n /\ h < n /\ h = i - 1
  OBVIOUS
<1>2. /\ j \in i..n + 1 /\ j = (IF s[i] = Hyphen THEN i + 1 ELSE i)
      /\ end \in j..n + 1 /\ i < end
      /\ token = [items |-> items, next |-> end]
  BY DEF IsPlain, Sign
<1>3. token.items = items /\ token.next = end /\ token.next - 1 = b
  BY <1>1, <1>2
<1>5. /\ a \in Nat /\ b \in Nat /\ h <= a /\ a <= b /\ b <= n /\ a + 1 = j
  BY <1>1, <1>2
<1>4. e = b
  BY <1>3, <1>5 DEF Reach
<1> HIDE DEF e, items, token, r
<1>6. t = SubSeq(s, a + 1, b)
  BY <1>5
<1>15. t \in Seq(Char)
  <2> HIDE DEF a, b, t
  <2> QED
    BY <1>5, <1>6, PartOf
<1>7. IsTerm(r, t)
  <2> HIDE DEF t
  <2> QED
    BY <1>15, TermFacts DEF r
<1>9. negated \in BOOLEAN
  OBVIOUS
<1> HIDE DEF t, negated
<1>10. AddsUp(items, t, negated) /\ ((\A w \in ToSet(r.words) : Lone(w)) => AllLone(items))
  <2>1. Speaks(r, t)
    BY <1>7 DEF IsTerm, Speaks
  <2>2. IsItem(Item(negated, r), r, t, negated)
    BY <1>9, <2>1, ItemFacts
  <2> QED
    BY <2>2 DEF items, IsItem
<1>11. \A k \in 1..Len(s) : h < k /\ k <= b /\ s[k] \in Letter => a < k /\ k <= b
  <2> SUFFICES ASSUME NEW k \in 1..Len(s), h < k, k <= b, s[k] \in Letter
               PROVE  a < k
    OBVIOUS
  <2>1. s[k] # Hyphen
    BY NoLetters
  <2>2. k # i \/ j = i
    BY <1>2, <2>1
  <2> QED
    BY <1>1, <1>2, <2>2
<1> HIDE DEF a, b
<1>16. ~Among(s, Hyphen) /\ ~Among(s, Dot) => AllLone(items)
  <2>1. (Among(t, Hyphen) => Among(s, Hyphen)) /\ (Among(t, Dot) => Among(s, Dot))
    BY <1>5, <1>6, AmongPart
  <2> QED
    BY <1>7, <1>10, <2>1 DEF IsTerm
<1>12. /\ items \in Seq(LexItem) /\ Heard(items) = Kept(SubSeq(s, h + 1, b), Letter)
       /\ IsDenied(s, a, b, negated) => Affirmed(items) = Kept(SubSeq(Masked(s), h + 1, b), Letter)
  <2>1. b <= b /\ b <= Len(s)
    BY <1>5
  <2>2. AddsUp(items, SubSeq(s, a + 1, b), negated)
    BY <1>6, <1>10
  <2>3. IsInside(s, h, a, b, b, Letter)
    BY <1>11 DEF IsInside
  <2>4. Tells(s, h, a, b, b, negated, items)
    BY <1>1, <1>5, <1>9, <2>1, <2>2, <2>3, TokenFromPart
  <2> QED
    BY <2>4 DEF Tells
<1>13. ASSUME Ready(s, i)
       PROVE  IsDenied(s, a, b, negated) /\ Ready(s, end)
  <2>1. IsPlain(s, i, j, end) /\ end \in Nat
    BY <1>1, <1>2
  <2>2. Ready(s, end)
    BY <1>1, <1>13, <2>1, ReadyAfterPlain
  <2>3. ASSUME NEW k \in 1..Len(s), a < k, k <= b
        PROVE  Denied(s, k) <=> negated
    <3>1. k < end /\ i <= k
      BY <1>1, <1>2, <2>1, <2>3 DEF b, a
    <3> HIDE DEF i
    <3> QED
      BY <1>1, <1>13, <2>1, <2>3, <3>1, DeniedInPlain DEF negated
  <2> QED
    BY <2>2, <2>3 DEF IsDenied
<1>14. token.next \in h + 2..n + 2
  BY <1>1, <1>2, <1>3
<1> QED
  BY <1>3, <1>4, <1>12, <1>13, <1>14, <1>16 DEF IsToken, token, e

LEMMA TokenFacts ==
  ASSUME NEW s \in Seq(Char), NEW h \in Nat, h < Len(s)
  PROVE  IsToken(s, h, Token(s, h + 1))
<1> DEFINE i == h + 1
<1>1. i \in 1..Len(s)
  OBVIOUS
<1>2. CASE s[i] = Blank
  BY <1>2, TokenOfBlank
<1>3. CASE s[i] # Blank
  <2> HIDE DEF i
  <2>1. PICK j \in i..i + 1, end \in 1..Len(s) + 1 : IsPhrase(s, i, j, end) \/ IsPlain(s, i, j, end)
    BY <1>1, <1>3, TokenKinds
  <2> USE DEF i
  <2>2. CASE IsPhrase(s, i, j, end)
    BY <2>2, TokenOfPhrase
  <2>3. CASE IsPlain(s, i, j, end)
    BY <2>3, TokenOfPlain
  <2> QED
    BY <2>1, <2>2, <2>3
<1> QED
  BY <1>2, <1>3

\* The items from a position on: those of the token, then the rest.
TokenBody(s, i, f) == IF i > Len(s) THEN <<>> ELSE Token(s, i).items \o f[Token(s, i).next]
IsFrom(s, f) == f = [i \in 1..Len(s) + 2 |-> TokenBody(s, i, f)]

LEMMA TokenEnds ==
  ASSUME NEW s \in Seq(Char), NEW i \in 1..Len(s) + 2, ~(i > Len(s))
  PROVE  Token(s, i).items \in Seq(LexItem) /\ Token(s, i).next \in i + 1..Len(s) + 2
<1> DEFINE h == i - 1
<1>1. h \in Nat /\ h < Len(s) /\ i = h + 1 /\ i + 1 = h + 2
  OBVIOUS
<1> HIDE DEF h
<1>2. IsToken(s, h, Token(s, i))
  BY <1>1, TokenFacts
<1> QED
  BY <1>1, <1>2 DEF IsToken

LEMMA FromExists ==
  ASSUME NEW s \in Seq(Char)
  PROVE  \E f : IsFrom(s, f)
<1> DEFINE n == Len(s)
           D == 1..n + 2
           V == Seq(LexItem)
           rank == [i \in D |-> n + 2 - i]
           B == [p \in D \X [D -> V] |-> TokenBody(s, p[1], p[2])]
<1>1. n \in Nat /\ \A i \in D : rank[i] \in Nat /\ rank[i] = n + 2 - i
  OBVIOUS
<1>2. rank \in [D -> Nat]
  BY <1>1
<1>3. ASSUME NEW i \in D, ~(i > n)
      PROVE  Token(s, i).items \in V /\ Token(s, i).next \in D /\ rank[Token(s, i).next] < rank[i]
  <2>1. Token(s, i).items \in V /\ Token(s, i).next \in i + 1..n + 2
    BY <1>3, TokenEnds
  <2> QED
    BY <1>1, <2>1
<1> HIDE DEF D, n, rank
<1>4. ASSUME NEW i \in D, NEW f \in [D -> V]
      PROVE  TokenBody(s, i, f) \in V
  <2>1. CASE i > n
    BY <2>1 DEF TokenBody, n
  <2>2. CASE ~(i > n)
    <3> DEFINE x == Token(s, i).items
               y == f[Token(s, i).next]
    <3>1. x \in Seq(LexItem) /\ y \in Seq(LexItem)
      BY <1>3, <2>2
    <3>2. TokenBody(s, i, f) = x \o y
      BY <2>2 DEF TokenBody, n
    <3> HIDE DEF x, y
    <3> QED
      BY <3>1, <3>2, ConcatParts
  <2> QED
    BY <2>1, <2>2
<1> HIDE DEF V
<1>5. B \in [D \X [D -> V] -> V]
  BY <1>4
<1>6. \A i \in D : \A f \in [D -> V] : B[<<i, f>>] = TokenBody(s, i, f)
  OBVIOUS
<1> HIDE DEF B
<1>7. FromLower(D, V, rank, B)
  <2> SUFFICES ASSUME NEW i \in D, NEW f \in [D -> V], NEW g \in [D -> V],
                      Alike(f, g, D, rank, rank[i])
               PROVE  B[<<i, f>>] = B[<<i, g>>]
    BY DEF FromLower
  <2>1. ~(i > n) => f[Token(s, i).next] = g[Token(s, i).next]
    BY <1>3 DEF Alike
  <2>2. TokenBody(s, i, f) = TokenBody(s, i, g)
    BY <2>1 DEF TokenBody, n
  <2> QED
    BY <1>6, <2>2
<1>8. PICK f \in [D -> V] : \A i \in D : f[i] = B[<<i, f>>]
  <2>1. V # {}
    <3>1. <<>> \in V
      BY DEF V
    <3> QED
      BY <3>1
  <2>2. IsBody(D, V, rank, B)
    BY <1>2, <1>5, <1>7, <2>1 DEF IsBody
  <2>3. HasFix(D, V, B)
    BY <2>2, ByRank
  <2> QED
    BY <2>3 DEF HasFix
<1>9. \A i \in D : f[i] = TokenBody(s, i, f)
  BY <1>6, <1>8
<1>10. IsFrom(s, f)
  BY <1>8, <1>9 DEF IsFrom, D, n
<1> QED
  BY <1>10

LEMMA ItemsFrom ==
  ASSUME NEW s \in Seq(Char)
  PROVE  \E f : IsFrom(s, f) /\ Items(s) = f[1]
<1> DEFINE F == CHOOSE f : IsFrom(s, f)
<1>1. IsFrom(s, F)
  BY FromExists
<1>2. Items(s) = F[1]
  BY DEF Items, IsFrom, TokenBody
<1> HIDE DEF F
<1> QED
  BY <1>1, <1>2

\* What the items from a place on say is what the text says from there.
SaysRest(s, h, items) ==
  /\ items \in Seq(LexItem)
  /\ Heard(items) = Kept(SubSeq(s, h + 1, Len(s)), Letter)
  /\ ~Among(s, Hyphen) /\ ~Among(s, Dot) => AllLone(items)
  /\ Ready(s, h + 1) => Affirmed(items) = Kept(SubSeq(Masked(s), h + 1, Len(s)), Letter)

LEMMA NothingBeyond ==
  ASSUME NEW s \in Seq(Char), NEW n \in Nat, NEW h \in Nat, n <= h
  PROVE  SubSeq(s, h + 1, n) = <<>>
OBVIOUS

LEMMA RestIsEmpty ==
  ASSUME NEW s \in Seq(Char), NEW h \in Nat, Len(s) <= h
  PROVE  SaysRest(s, h, <<>>)
<1> DEFINE n == Len(s)
           m == Masked(s)
<1>1. m \in Seq(Char) /\ n \in Nat
  BY MaskedFacts
<1> HIDE DEF m
<1>2. SubSeq(s, h + 1, n) = <<>> /\ SubSeq(m, h + 1, n) = <<>>
  BY <1>1
<1>3. Kept(<<>>, Letter) = <<>>
  BY KeptEmpty
<1>4. AddsUp(<<>>, <<>>, FALSE) /\ AllLone(<<>>)
  BY <1>3, NothingAddsUp
<1> QED
  BY <1>2, <1>3, <1>4 DEF SaysRest, AddsUp, m

LEMMA RestOfToken ==
  ASSUME NEW s \in Seq(Char), NEW h \in Nat, h < Len(s), NEW token, IsToken(s, h, token),
         NEW items, SaysRest(s, token.next - 1, items)
  PROVE  SaysRest(s, h, token.items \o items)
<1> DEFINE n == Len(s)
           g == token.next - 1
           e == Reach(s, token.next)
           m == Masked(s)
           a == token.items
<1>1. /\ n \in Nat /\ h < n /\ token.next \in h + 2..n + 2 /\ token.next = g + 1
      /\ g \in Nat /\ h < g /\ g <= n + 1 /\ e = IF g <= n THEN g ELSE n
  BY DEF IsToken, Reach
<1>2. e \in Nat /\ h <= e /\ e <= n /\ n <= n
  BY <1>1
<1>3. /\ a \in Seq(LexItem)
      /\ Heard(a) = Kept(SubSeq(s, h + 1, e), Letter)
      /\ ~Among(s, Hyphen) /\ ~Among(s, Dot) => AllLone(a)
      /\ Ready(s, h + 1) =>
           Affirmed(a) = Kept(SubSeq(m, h + 1, e), Letter) /\ Ready(s, token.next)
  BY DEF IsToken
<1>4. /\ items \in Seq(LexItem)
      /\ Heard(items) = Kept(SubSeq(s, g + 1, n), Letter)
      /\ ~Among(s, Hyphen) /\ ~Among(s, Dot) => AllLone(items)
      /\ Ready(s, g + 1) => Affirmed(items) = Kept(SubSeq(m, g + 1, n), Letter)
  BY DEF SaysRest
<1> HIDE DEF g, e, a
<1>5. m \in Seq(Char) /\ Len(m) = n
  BY MaskedFacts
<1> HIDE DEF m
<1>6. SubSeq(s, g + 1, n) = SubSeq(s, e + 1, n) /\ SubSeq(m, g + 1, n) = SubSeq(m, e + 1, n)
  <2>1. CASE g <= n
    BY <1>1, <2>1
  <2>2. CASE ~(g <= n)
    <3>1. n <= g /\ n <= e
      BY <1>1, <2>2
    <3>2. SubSeq(s, g + 1, n) = <<>> /\ SubSeq(s, e + 1, n) = <<>>
      BY <1>1, <1>2, <3>1, NothingBeyond
    <3>3. SubSeq(m, g + 1, n) = <<>> /\ SubSeq(m, e + 1, n) = <<>>
      BY <1>1, <1>2, <1>5, <3>1, NothingBeyond
    <3> QED
      BY <3>2, <3>3
  <2> QED
    BY <2>1, <2>2
<1>7. Divided(s, h, e, n, Letter)
  BY <1>1, <1>2, KeptInTwo
<1>8. Divided(m, h, e, n, Letter)
  BY <1>1, <1>2, <1>5, KeptInTwo
<1>9. Chain(a, items)
  BY <1>3, <1>4, ChainOfItems
<1>10. a \o items \in Seq(LexItem) /\ Heard(a \o items) = Heard(a) \o Heard(items)
       /\ Affirmed(a \o items) = Affirmed(a) \o Affirmed(items)
       /\ (AllLone(a) /\ AllLone(items) => AllLone(a \o items))
  BY <1>9 DEF Chain
<1>11. Heard(a \o items) = Kept(SubSeq(s, h + 1, n), Letter)
  BY <1>3, <1>4, <1>6, <1>7, <1>10 DEF Divided
<1>12. ASSUME Ready(s, h + 1)
       PROVE  Affirmed(a \o items) = Kept(SubSeq(m, h + 1, n), Letter)
  <2>1. Affirmed(a) = Kept(SubSeq(m, h + 1, e), Letter)
    BY <1>3, <1>12
  <2>2. Affirmed(items) = Kept(SubSeq(m, e + 1, n), Letter)
    BY <1>1, <1>3, <1>4, <1>6, <1>12
  <2> QED
    BY <1>8, <1>10, <2>1, <2>2 DEF Divided
<1> QED
  BY <1>3, <1>4, <1>10, <1>11, <1>12 DEF SaysRest, m, a

LEMMA RestIsSaid ==
  ASSUME NEW s \in Seq(Char), NEW f, IsFrom(s, f)
  PROVE  SaysRest(s, 0, f[1])
<1> DEFINE n == Len(s)
           T == {m \in Nat : \A h \in 0..n + 1 : h + m = n + 1 => SaysRest(s, h, f[h + 1])}
<1>1. n \in Nat /\ \A i \in 1..n + 2 : f[i] = TokenBody(s, i, f)
  <2>1. n \in Nat
    OBVIOUS
  <2>2. f = [i \in 1..n + 2 |-> TokenBody(s, i, f)]
    BY DEF IsFrom
  <2> DEFINE D == 1..n + 2
             G == [i \in D |-> TokenBody(s, i, f)]
  <2>3. \A i \in D : G[i] = TokenBody(s, i, f)
    OBVIOUS
  <2>4. f = G
    BY <2>2
  <2> HIDE DEF D, G
  <2>5. \A i \in D : f[i] = TokenBody(s, i, f)
    BY <2>3, <2>4
  <2> QED
    BY <2>1, <2>5 DEF D
<1> HIDE DEF n
<1>2. ASSUME NEW m \in Nat, \A k \in Nat : k < m => k \in T
      PROVE  m \in T
  <2> SUFFICES ASSUME NEW h \in 0..n + 1, h + m = n + 1
               PROVE  SaysRest(s, h, f[h + 1])
    OBVIOUS
  <2>1. h \in Nat /\ h + 1 \in 1..n + 2
    BY <1>1
  <2>2. f[h + 1] = TokenBody(s, h + 1, f)
    BY <1>1, <2>1
  <2>3. CASE n <= h
    <3>1. h + 1 > Len(s) /\ Len(s) <= h
      BY <1>1, <2>3 DEF n
    <3>2. f[h + 1] = <<>>
      BY <2>2, <3>1 DEF TokenBody
    <3> QED
      BY <2>1, <3>1, <3>2, RestIsEmpty
  <2>4. CASE ~(n <= h)
    <3> DEFINE token == Token(s, h + 1)
               g == token.next - 1
    <3>1. h < Len(s) /\ ~(h + 1 > Len(s))
      BY <1>1, <2>1, <2>4 DEF n
    <3>2. IsToken(s, h, token)
      BY <2>1, <3>1, TokenFacts
    <3>3. f[h + 1] = token.items \o f[token.next]
      BY <2>2, <3>1 DEF TokenBody
    <3> HIDE DEF token
    <3>4. /\ token.next \in h + 2..n + 2 /\ token.next = g + 1
          /\ g \in 0..n + 1 /\ h < g
      BY <1>1, <2>1, <3>2 DEF IsToken, n
    <3> HIDE DEF g
    <3>5. n + 1 - g \in Nat /\ n + 1 - g < m /\ g + (n + 1 - g) = n + 1
      BY <1>1, <3>4
    <3>6. n + 1 - g \in T
      BY <1>2, <3>5
    <3>7. SaysRest(s, g, f[g + 1])
      BY <3>4, <3>5, <3>6
    <3>8. SaysRest(s, token.next - 1, f[token.next])
      BY <3>4, <3>7 DEF g
    <3> QED
      BY <2>1, <3>1, <3>2, <3>3, <3>8, RestOfToken
  <2> QED
    BY <2>3, <2>4
<1> HIDE DEF T
<1>3. \A m \in Nat : m \in T
  BY <1>2, FromBelow
<1>4. n + 1 \in T /\ 0 \in 0..n + 1 /\ 0 + (n + 1) = n + 1 /\ 0 + 1 = 1
  BY <1>1, <1>3
<1>5. SaysRest(s, 0, f[0 + 1])
  BY <1>4 DEF T
<1> QED
  BY <1>4, <1>5

\* The words of a query are meant.
MeansWords(items, s) ==
  LET affirmed == Kept(Masked(s), Letter) IN
  IF items = None THEN affirmed = <<>>
  ELSE /\ Heard(items) = Kept(s, Letter) /\ Affirmed(items) = affirmed
       /\ ~Among(s, Hyphen) /\ ~Among(s, Dot) => AllLone(items)

LEMMA AllNegated ==
  ASSUME NEW items \in Seq(LexItem), \A i \in 1..Len(items) : items[i].negated
  PROVE  Affirmed(items) = <<>>
<1> DEFINE y == Yeses(items)
<1>1. /\ y \in Seq(Seq(Char)) /\ Len(y) = Len(items)
      /\ \A i \in 1..Len(y) : y[i] = <<>>
  BY VoicesType
<1> HIDE DEF y
<1>2. FlattenSeq(y) = <<>>
  <2> DEFINE SS == Seq(Char)
             U == {ss \in Seq(SS) : (\A i \in 1..Len(ss) : ss[i] = <<>>) => FlattenSeq(ss) = <<>>}
  <2>1. <<>> \in U
    BY FlatEmpty
  <2>2. ASSUME NEW ss \in Seq(SS), NEW t \in SS, ss \in U,
               \A i \in 1..Len(Append(ss, t)) : Append(ss, t)[i] = <<>>
        PROVE  FlattenSeq(Append(ss, t)) = <<>>
    <3> HIDE DEF SS
    <3>1. /\ Len(Append(ss, t)) = Len(ss) + 1 /\ Len(ss) \in Nat
          /\ Append(ss, t)[Len(ss) + 1] = t
          /\ \A i \in 1..Len(ss) : Append(ss, t)[i] = ss[i]
      OBVIOUS
    <3>2. t = <<>> /\ \A i \in 1..Len(ss) : ss[i] = <<>>
      BY <2>2, <3>1
    <3>3. FlattenSeq(ss) = <<>>
      BY <2>2, <3>2
    <3> USE DEF SS
    <3>4. FlattenSeq(Append(ss, t)) = FlattenSeq(ss) \o t
      BY FlatAppend
    <3> QED
      BY <3>2, <3>3, <3>4
  <2> HIDE DEF SS
  <2>3. \A ss \in Seq(SS) : \A t \in SS : ss \in U => Append(ss, t) \in U
    <3> SUFFICES ASSUME NEW ss \in Seq(SS), NEW t \in SS, ss \in U
                 PROVE  Append(ss, t) \in U
      OBVIOUS
    <3>1. Append(ss, t) \in Seq(SS)
      OBVIOUS
    <3> QED
      BY <2>2, <3>1
  <2> HIDE DEF U
  <2>4. \A ss \in Seq(SS) : ss \in U
    BY <2>1, <2>3, FromEmpty
  <2>5. y \in U
    BY <1>1, <2>4 DEF SS
  <2> QED
    BY <1>1, <2>5 DEF U
<1> QED
  BY <1>2 DEF Affirmed, y

LEMMA WordsOfAQuery ==
  ASSUME NEW s \in Seq(Char)
  PROVE  MeansWords(build_ts_query(s), s)
<1> DEFINE items == Items(s)
           m == Masked(s)
<1>1. PICK f : IsFrom(s, f) /\ items = f[1]
  BY ItemsFrom
<1>2. SaysRest(s, 0, items)
  BY <1>1, RestIsSaid
<1>3. m \in Seq(Char) /\ Len(m) = Len(s)
  BY MaskedFacts
<1>4. build_ts_query(s) = IF \A i \in 1..Len(items) : items[i].negated THEN None ELSE items
  BY DEF build_ts_query
<1> HIDE DEF items, m
<1>5. SubSeq(s, 0 + 1, Len(s)) = s /\ SubSeq(m, 0 + 1, Len(s)) = m
  <2>1. SubSeq(s, 1, Len(s)) = s /\ SubSeq(m, 1, Len(m)) = m /\ 0 + 1 = 1
    BY <1>3, Beginnings
  <2> QED
    BY <1>3, <2>1
<1>6. Ready(s, 0 + 1)
  BY ReadyAtFirst
<1>7. /\ items \in Seq(LexItem) /\ Heard(items) = Kept(s, Letter)
      /\ Affirmed(items) = Kept(m, Letter)
      /\ ~Among(s, Hyphen) /\ ~Among(s, Dot) => AllLone(items)
  BY <1>2, <1>5, <1>6 DEF SaysRest, m
<1>8. items # None
  BY <1>7, TextAssumption
<1>9. CASE \A i \in 1..Len(items) : items[i].negated
  <2>1. Affirmed(items) = <<>>
    BY <1>7, <1>9, AllNegated
  <2>2. build_ts_query(s) = None
    BY <1>4, <1>9
  <2> QED
    BY <1>7, <2>1, <2>2 DEF MeansWords, m
<1>10. CASE ~\A i \in 1..Len(items) : items[i].negated
  <2>1. build_ts_query(s) = items
    BY <1>4, <1>10
  <2> QED
    BY <1>7, <1>8, <2>1 DEF MeansWords, m
<1> QED
  BY <1>9, <1>10
-----------------------------------------------------------------------------
(* The functions return what they compute.                                 *)

TextInv ==
  /\ call \in Calls
  /\ Returned("chunk") => result.value = chunk_document(call.length)
  /\ Returned("snippet") => result.value = extract_snippet(call.body, call.chunk)
  /\ Returned("lex") => result.value = build_ts_query(call.query)
  /\ Returned("structured") => result.value = parse_structured_query(call.lines)
  /\ Returned("braces") => result.value = expand_braces(call.pattern)
  /\ Returned("distance") => result.value = levenshtein(call.from, call.to)
  /\ Returned("score") => result.value = score_results(call.results, call.expected, call.k)

\* A call of one function is no call of another.
LEMMA TextAlways == Spec => []TextInv
<1> DEFINE vars == <<call, result>>
<1>1. Init => TextInv
  BY DEF Init, TextInv, Returned
<1>2. TextInv /\ [Next]_vars => TextInv'
  <2> SUFFICES ASSUME TextInv, [Next]_vars
               PROVE  TextInv'
    OBVIOUS
  <2>1. CASE Chunk
    BY <2>1 DEF Chunk, Called, Return, TextInv, Returned
  <2>2. CASE Snippet
    BY <2>2 DEF Snippet, Called, Return, TextInv, Returned
  <2>3. CASE Lex
    BY <2>3 DEF Lex, Called, Return, TextInv, Returned
  <2>4. CASE Structured
    BY <2>4 DEF Structured, Called, Return, TextInv, Returned
  <2>5. CASE Braces
    BY <2>5 DEF Braces, Called, Return, TextInv, Returned
  <2>6. CASE Distance
    BY <2>6 DEF Distance, Called, Return, TextInv, Returned
  <2>7. CASE Score
    BY <2>7 DEF Score, Called, Return, TextInv, Returned
  <2>8. CASE UNCHANGED vars
    BY <2>8 DEF TextInv, Returned
  <2> QED
    BY <2>1, <2>2, <2>3, <2>4, <2>5, <2>6, <2>7, <2>8 DEF Next
<1> QED
  BY <1>1, <1>2, PTL DEF Spec

LEMMA TextInvChunks == TextInv => ChunksCover
<1> SUFFICES ASSUME TextInv, Returned("chunk")
             PROVE  Cover(result.value, call.length)
  BY DEF ChunksCover, Cover
<1>1. call.length \in Nat
  BY TextAssumption DEF TextInv, Returned
<1>2. result.value = chunk_document(call.length)
  BY DEF TextInv
<1> QED
  BY <1>1, <1>2, ChunksOfABody

LEMMA TextInvSnippets == TextInv => SnippetsAreTrue
<1> DEFINE s == result.value
           body == call.body
           chunk == call.chunk
           place == s.line - s.before
<1> SUFFICES ASSUME TextInv, Returned("snippet")
             PROVE  /\ TrueSnippet(s, body)
                    /\ Among(Window(body, chunk), "x") => Worded(s)
                    /\ chunk = 0 /\ Among(body, "x") => Worded(s)
                    /\ Printed(s.text, s.numbered, place)
  BY DEF SnippetsAreTrue, TrueSnippet, IsLeftOf, Worded, Printed
<1>1. body \in Seq(Char) /\ Position(body, chunk)
  BY TextAssumption DEF TextInv, Returned, Position
<1>2. s = extract_snippet(body, chunk)
  BY DEF TextInv
<1> HIDE DEF s, body, chunk
<1>3. TrueSnippet(s, body) /\ Legible(s) /\ (Sought(body, chunk) => Worded(s))
  BY <1>1, <1>2, ExtractedIsTrue
<1>4. /\ place \in 0..Len(s.numbered) /\ s.numbered \in Seq(Seq(Char))
      /\ s.text = Shortened(Joined(s.numbered))
  BY <1>3 DEF Legible
<1> HIDE DEF place
<1>5. Printed(s.text, s.numbered, place)
  BY <1>4, ShortenedLines
<1> QED
  BY <1>3, <1>5 DEF Sought

LEMMA TextInvWords == TextInv => WordsAreMeant
<1> DEFINE s == call.query
           items == result.value
           affirmed == sanitize_fts_term([i \in 1..Len(s) |-> IF Denied(s, i) THEN Blank ELSE s[i]])
<1> SUFFICES ASSUME TextInv, Returned("lex")
             PROVE  IF items = None THEN affirmed = <<>>
                    ELSE /\ FlattenSeq([i \in 1..Len(items) |-> Said(items[i])]) = sanitize_fts_term(s)
                         /\ FlattenSeq([i \in 1..Len(items) |->
                                        IF items[i].negated THEN <<>> ELSE Said(items[i])]) = affirmed
                         /\ \A i \in 1..Len(items) : \A w \in ToSet(items[i].words) :
                              Among(w, Han) => w = <<Han>> \/ Among(s, Hyphen) \/ Among(s, Dot)
  BY DEF WordsAreMeant
<1>1. s \in Seq(Char)
  BY TextAssumption DEF TextInv, Returned
<1>2. items = build_ts_query(s)
  BY DEF TextInv
<1> HIDE DEF s, items
<1>3. MeansWords(items, s)
  BY <1>1, <1>2, WordsOfAQuery
<1>4. affirmed = Kept(Masked(s), Letter) /\ sanitize_fts_term(s) = Kept(s, Letter)
  BY LettersOf DEF Masked
<1> HIDE DEF affirmed
<1>5. CASE items = None
  BY <1>3, <1>4, <1>5 DEF MeansWords
<1>6. CASE items # None
  <2>1. Heard(items) = Kept(s, Letter) /\ Affirmed(items) = affirmed
    BY <1>3, <1>4, <1>6 DEF MeansWords
  <2>2. ~Among(s, Hyphen) /\ ~Among(s, Dot) => AllLone(items)
    BY <1>3, <1>6 DEF MeansWords
  <2>3. \A i \in 1..Len(items) : \A w \in ToSet(items[i].words) :
          Among(w, Han) => w = <<Han>> \/ Among(s, Hyphen) \/ Among(s, Dot)
    BY <2>2 DEF AllLone, Lone
  <2> QED
    BY <1>4, <1>6, <2>1, <2>3 DEF Heard, Affirmed, Voices, Yeses
<1> QED
  BY <1>5, <1>6

LEMMA TextInvLines == TextInv => LinesAreMeant
<1> SUFFICES ASSUME TextInv, Returned("structured")
             PROVE  IF result.value = None THEN NoDocument(call.lines)
                    ELSE Used(result.value, call.lines)
  BY DEF LinesAreMeant, NoDocument, Used
<1>1. call.lines \in Seq(QueryLine)
  BY TextAssumption DEF TextInv, Returned
<1>2. result.value = parse_structured_query(call.lines)
  BY DEF TextInv
<1> QED
  BY <1>1, <1>2, LinesOfADocument

LEMMA TextInvBraces == TextInv => BracesAreMeant
<1> SUFFICES ASSUME TextInv, Returned("braces")
             PROVE  /\ ToSet(result.value) \subseteq Expansions(call.pattern)
                    /\ Len(result.value)
                         = Min({Cardinality(Expansions(call.pattern)), MaxBraceExpansions})
                    /\ Len(result.value) = Cardinality(ToSet(result.value))
  BY DEF BracesAreMeant
<1>1. call.pattern \in Seq(Char)
  BY TextAssumption DEF TextInv, Returned
<1>2. result.value = expand_braces(call.pattern)
  BY DEF TextInv
<1>3. Good(result.value, Expansions(call.pattern))
  BY <1>1, <1>2, BracesOfAPattern
<1> QED
  BY <1>3 DEF Good

LEMMA TextInvDistance == TextInv => DistanceIsMetric
<1> SUFFICES ASSUME TextInv, Returned("distance")
             PROVE  /\ (result.value = 0) = (call.from = call.to)
                    /\ result.value = levenshtein(call.to, call.from)
                    /\ result.value <= levenshtein(call.from, call.via)
                                         + levenshtein(call.via, call.to)
  BY DEF DistanceIsMetric
<1>1. call.from \in Seq(Char) /\ call.via \in Seq(Char) /\ call.to \in Seq(Char)
  BY TextAssumption DEF TextInv, Returned
<1>2. result.value = levenshtein(call.from, call.to)
  BY DEF TextInv
<1> QED
  BY <1>1, <1>2, DistanceLaws

LEMMA TextInvScores == TextInv => ScoresAreHonest
<1> SUFFICES ASSUME TextInv, Returned("score")
             PROVE  Honest(result.value, call.results, call.expected)
  BY DEF ScoresAreHonest, Honest
<1>1. call.results \in Seq(Seq(STRING)) /\ call.expected \in Seq(Seq(STRING)) /\ call.k \in Nat
  BY TextAssumption DEF TextInv, Returned
<1>2. result.value = score_results(call.results, call.expected, call.k)
  BY DEF TextInv
<1> QED
  BY <1>1, <1>2, ScoreIsHonest

\* The chunks of a body of any length cover it in order, whatever the length
\* of a chunk and the overlap: a passage one character longer than the overlap
\* is whole in one of them (search/vector.py: chunk_document).
THEOREM TextChunksCover == Spec => []ChunksCover
BY TextAlways, TextInvChunks, PTL

\* A snippet of any body, of the whole or around a chunk anywhere in it, is
\* where it says: the lines its header numbers are those of the body, or what
\* the window left of them, the counts around them add up, and the line that is
\* reported is one of them, with the query's word if the window has it.  The
\* text is no longer than it may be, for any length, and shows the reported
\* line where the lines up to it leave room for the ellipsis or need none; it
\* may be cut off before that line otherwise (cli/snippet.py: extract_snippet).
THEOREM TextSnippetsAreTrue == Spec => []SnippetsAreTrue
BY TextAlways, TextInvSnippets, PTL

\* Chunks and snippets of any body are where they say, and a snippet shows the
\* line it reports unless the cut to its length took it (search/vector.py,
\* cli/snippet.py).
THEOREM TextPlacesAreTrue == Spec => []PlacesAreTrue
<1>1. TextInv => PlacesAreTrue
  BY TextInvChunks, TextInvSnippets DEF PlacesAreTrue
<1> QED
  BY <1>1, TextAlways, PTL

\* What a lexical query of any length says is what its text says: no word is
\* lost or out of order, the words of the negative items are the ones behind a
\* hyphen, in a term and in a phrase alike, and nothing is left of a query
\* without positive ones; and a Chinese character is a word of its own where
\* the text has no hyphen and no dot (search/fts.py: build_ts_query).
THEOREM TextWordsAreMeant == Spec => []WordsAreMeant
BY TextAlways, TextInvWords, PTL

\* In a query document of any length no typed line is lost or out of order,
\* and no intent but one that another intent follows, which the code drops; and
\* several lines of known kinds, one of them typed, are always taken for a
\* document (search/hybrid.py: parse_structured_query).
THEOREM TextLinesAreMeant == Spec => []LinesAreMeant
BY TextAlways, TextInvLines, PTL

\* The braces of any pattern, in groups beside and inside one another, expand
\* from the first group on to what they would expand to in any other order,
\* each string once, and to as many of them as there are or may be
\* (store/indexing.py: _expand_braces).
THEOREM TextBracesAreMeant == Spec => []BracesAreMeant
BY TextAlways, TextInvBraces, PTL

\* What is written is what is meant, in every lexical query, pattern and query
\* document, of whose intents only the last one counts (search/fts.py, search/hybrid.py, store/indexing.py).
THEOREM TextWrittenIsMeant == Spec => []WrittenIsMeant
<1>1. TextInv => WrittenIsMeant
  BY TextInvWords, TextInvLines, TextInvBraces DEF WrittenIsMeant
<1> QED
  BY <1>1, TextAlways, PTL

\* The edit distance is a metric on texts of any length over any characters:
\* 0 just for equal texts, the same both ways, and no longer than a detour
\* (store/retrieval.py: _levenshtein).
THEOREM TextDistanceIsMetric == Spec => []DistanceIsMetric
BY TextAlways, TextInvDistance, PTL

\* The scores of any results against any fixture are honest, at any cut-off:
\* recall grows and stays below 1, the mean is between precision and recall,
\* and a precision above 1 comes from a result that matches two expected files
\* (bench.py: score_results).
THEOREM TextScoresAreHonest == Spec => []ScoresAreHonest
BY TextAlways, TextInvScores, PTL

\* Edit distances and scores mean what their names say, for every input
\* (store/retrieval.py, bench.py).
THEOREM TextMeasuresAreHonest == Spec => []MeasuresAreHonest
<1>1. TextInv => MeasuresAreHonest
  BY TextInvDistance, TextInvScores DEF MeasuresAreHonest
<1> QED
  BY <1>1, TextAlways, PTL
=============================================================================
