---------------------------- MODULE QueryProofs ----------------------------
(***************************************************************************)
(* Proofs about hybrid queries (Query.tla) and the arithmetic of their     *)
(* scores (Fusion.tla), for any collections, documents, requests, searches *)
(* and answers of the router, and any number of changes beside them.       *)
(***************************************************************************)
EXTENDS Query, FiniteSetTheorems, FunctionTheorems, SequenceTheorems, WellFoundedInduction,
        TLAPS

-----------------------------------------------------------------------------
(* Numbers, orders and sequences.                                          *)

LEMMA LeastOf ==
  ASSUME NEW T \in SUBSET Nat, T # {}
  PROVE  Min(T) \in T /\ \A m \in T : Min(T) <= m
<1> DEFINE R == OpToRel(<, Nat)
<1>1. IsWellFoundedOn(R, Nat)
  BY NatLessThanWellFounded
<1>2. \A m, n \in Nat : m < n => <<m, n>> \in R
  BY DEF OpToRel
<1> HIDE DEF R
<1>3. PICK n \in T : \A m \in T : ~(<<m, n>> \in R)
  BY <1>1, WFMin
<1>4. n \in Nat /\ \A m \in T : m \in Nat /\ ~(m < n)
  BY <1>2, <1>3
<1>5. n \in Nat /\ \A m \in T : m \in Nat /\ n <= m
  BY <1>4
<1>6. \A k \in T : (\A m \in T : k <= m) => k = n
  BY <1>3, <1>5
<1> QED
  BY <1>3, <1>5, <1>6 DEF Min

\* Everything in S comes before or after every other thing in it.
StrictOrder(S, B) ==
  /\ \A d, e \in S : d # e => <<d, e>> \in B \/ <<e, d>> \in B
  /\ \A d \in S : <<d, d>> \notin B
  /\ \A c, d, e \in S : <<c, d>> \in B /\ <<d, e>> \in B => <<c, e>> \in B

\* How many come before, in a strict order.
LEMMA PlaceFacts ==
  ASSUME NEW S, IsFiniteSet(S), NEW B, StrictOrder(S, B), NEW e \in S
  PROVE  /\ Cardinality({d \in S : <<d, e>> \in B}) \in 0..Cardinality(S) - 1
         /\ Cardinality(S) \in Nat
         /\ \A c \in S : <<c, e>> \in B =>
              Cardinality({d \in S : <<d, c>> \in B}) < Cardinality({d \in S : <<d, e>> \in B})
<1> DEFINE P(c) == {d \in S : <<d, c>> \in B}
<1>1. ASSUME NEW c \in S
      PROVE  IsFiniteSet(P(c)) /\ Cardinality(P(c)) \in Nat
  <2>1. P(c) \in SUBSET S
    OBVIOUS
  <2> HIDE DEF P
  <2> QED
    BY <2>1, FS_Subset, FS_CardinalityType
<1>2. Cardinality(P(e)) <= Cardinality(S) - 1 /\ Cardinality(S) \in Nat
  <2>1. e \notin P(e) /\ P(e) \in SUBSET S
    BY DEF StrictOrder
  <2> HIDE DEF P
  <2>2. Cardinality(S) \in Nat /\ Cardinality(P(e)) <= Cardinality(S)
    BY <2>1, FS_Subset, FS_CardinalityType
  <2>3. Cardinality(P(e)) # Cardinality(S)
    BY <2>1, FS_Subset
  <2> QED
    BY <1>1, <2>2, <2>3
<1>3. ASSUME NEW c \in S, <<c, e>> \in B
      PROVE  Cardinality(P(c)) < Cardinality(P(e))
  <2>1. P(c) \in SUBSET P(e) /\ c \in P(e) /\ c \notin P(c)
    BY <1>3 DEF StrictOrder
  <2> HIDE DEF P
  <2>2. Cardinality(P(c)) <= Cardinality(P(e)) /\ Cardinality(P(e)) # Cardinality(P(c))
    BY <1>1, <2>1, FS_Subset
  <2> QED
    BY <1>1, <2>2
<1>4. Cardinality(P(e)) \in Nat
  BY <1>1
<1> HIDE DEF P
<1>5. Cardinality(P(e)) \in 0..Cardinality(S) - 1
  BY <1>2, <1>4
<1> QED
  BY <1>2, <1>3, <1>5 DEF P

\* A finite set in a strict order is a sequence of all of it, in that order.
LEMMA OrderedFacts ==
  ASSUME NEW S, IsFiniteSet(S), NEW B, StrictOrder(S, B)
  PROVE  /\ Ordered(S, B) \in Seq(S) /\ Len(Ordered(S, B)) = Cardinality(S)
         /\ DOMAIN Ordered(S, B) = 1..Cardinality(S) /\ Cardinality(S) \in Nat
         /\ Ordered(S, B) \in Bijection(1..Cardinality(S), S)
         /\ \A i, j \in 1..Cardinality(S) : i < j => <<Ordered(S, B)[i], Ordered(S, B)[j]>> \in B
<1> DEFINE n == Cardinality(S)
           Place(e) == Cardinality({d \in S : <<d, e>> \in B})
           F == [e \in S |-> Place(e)]
           s == Ordered(S, B)
<1>1. n \in Nat
  BY FS_CardinalityType
<1>2. \A e \in S : Place(e) \in 0..n - 1
  BY PlaceFacts
<1>3. \A c, e \in S : <<c, e>> \in B => Place(c) < Place(e)
  BY PlaceFacts
<1>4. s = [i \in 1..n |-> CHOOSE e \in S : Place(e) = i - 1]
  BY DEF Ordered
<1> HIDE DEF Place, s
<1>5. \A c, e \in S : Place(c) = Place(e) => c = e
  <2> SUFFICES ASSUME NEW c \in S, NEW e \in S, c # e, Place(c) = Place(e) PROVE FALSE
    OBVIOUS
  <2>1. Place(c) \in Nat /\ Place(e) \in Nat
    BY <1>1, <1>2
  <2>2. Place(c) < Place(e) \/ Place(e) < Place(c)
    BY <1>3 DEF StrictOrder
  <2> QED
    BY <2>1, <2>2
<1>6. F \in Injection(S, 0..n - 1)
  BY <1>2, <1>5 DEF Injection, IsInjective
<1>7. F \in Surjection(S, 0..n - 1)
  <2>1. IsFiniteSet(0..n - 1) /\ Cardinality(0..n - 1) = n
    BY <1>1, FS_Interval
  <2> HIDE DEF F
  <2> QED
    BY <1>6, <2>1, FS_Injection
<1>8. \A i \in 1..n : s[i] \in S /\ Place(s[i]) = i - 1
  <2> SUFFICES ASSUME NEW i \in 1..n PROVE s[i] \in S /\ Place(s[i]) = i - 1
    OBVIOUS
  <2>1. i - 1 \in 0..n - 1
    BY <1>1
  <2>2. \E e \in S : Place(e) = i - 1
    BY <1>7, <2>1 DEF Surjection
  <2> QED
    BY <1>4, <2>2
<1>9. \A e \in S : Place(e) + 1 \in 1..n /\ s[Place(e) + 1] = e
  <2> SUFFICES ASSUME NEW e \in S PROVE Place(e) + 1 \in 1..n /\ s[Place(e) + 1] = e
    OBVIOUS
  <2>1. PICK i \in 1..n : i = Place(e) + 1 /\ i - 1 = Place(e)
    BY <1>1, <1>2
  <2>2. s[i] \in S /\ Place(s[i]) = Place(e)
    BY <1>8, <2>1
  <2> QED
    BY <1>5, <2>1, <2>2
<1>10. DOMAIN s = 1..n /\ s \in [1..n -> S]
  BY <1>4, <1>8
<1>11. s \in Seq(S) /\ Len(s) = n
  BY <1>1, <1>10
<1>12. \A i, j \in 1..n : s[i] = s[j] => i = j
  <2> SUFFICES ASSUME NEW i \in 1..n, NEW j \in 1..n, s[i] = s[j] PROVE i = j
    OBVIOUS
  <2>1. i - 1 = j - 1 /\ i \in Nat /\ j \in Nat
    BY <1>1, <1>8
  <2> QED
    BY <2>1
<1>13. s \in Bijection(1..n, S)
  BY <1>9, <1>10, <1>12 DEF Bijection, Injection, Surjection, IsInjective
<1>14. ASSUME NEW i \in 1..n, NEW j \in 1..n, i < j
       PROVE  <<s[i], s[j]>> \in B
  <2>1. i \in Nat /\ j \in Nat /\ s[i] \in S /\ s[j] \in S
    BY <1>1, <1>8
  <2>2. Place(s[i]) = i - 1 /\ Place(s[j]) = j - 1
    BY <1>8
  <2>3. s[i] # s[j] /\ ~(Place(s[j]) < Place(s[i]))
    BY <1>14, <2>1, <2>2
  <2> QED
    BY <1>3, <2>1, <2>3 DEF StrictOrder
<1> QED
  BY <1>1, <1>10, <1>11, <1>13, <1>14 DEF s

LEMMA SeqFacts ==
  ASSUME NEW S, NEW s \in Seq(S)
  PROVE  /\ Len(s) \in Nat /\ DOMAIN s = 1..Len(s) /\ IsFiniteSet(DOMAIN s)
         /\ ToSet(s) = {s[i] : i \in DOMAIN s} /\ ToSet(s) \subseteq S /\ IsFiniteSet(ToSet(s))
         /\ \A i \in DOMAIN s : s[i] \in S
<1>1. Len(s) \in Nat /\ DOMAIN s = 1..Len(s) /\ \A i \in DOMAIN s : s[i] \in S
  OBVIOUS
<1>2. IsFiniteSet(DOMAIN s)
  BY <1>1, FS_Interval
<1>3. ToSet(s) = {s[i] : i \in DOMAIN s}
  BY DEF ToSet
<1>4. s \in Surjection(DOMAIN s, ToSet(s))
  BY <1>1, <1>3 DEF Surjection
<1>5. IsFiniteSet(ToSet(s))
  BY <1>2, <1>4, FS_Surjection
<1> QED
  BY <1>1, <1>2, <1>3, <1>5

LEMMA CutFacts ==
  ASSUME NEW S, NEW s \in Seq(S), NEW n \in Nat
  PROVE  /\ Cut(s, n) \in Seq(S) /\ Len(Cut(s, n)) = (IF Len(s) < n THEN Len(s) ELSE n)
         /\ DOMAIN Cut(s, n) \subseteq DOMAIN s
         /\ \A i \in DOMAIN Cut(s, n) : Cut(s, n)[i] = s[i]
<1> DEFINE k == IF Len(s) < n THEN Len(s) ELSE n
<1>1. Len(s) \in Nat /\ DOMAIN s = 1..Len(s) /\ k \in Nat /\ k <= Len(s)
  OBVIOUS
<1>2. Cut(s, n) = SubSeq(s, 1, k)
  BY DEF Cut
<1> HIDE DEF k
<1>3. /\ SubSeq(s, 1, k) \in Seq(S) /\ Len(SubSeq(s, 1, k)) = k
      /\ \A i \in 1..k : SubSeq(s, 1, k)[i] = s[i]
  BY <1>1
<1>4. DOMAIN SubSeq(s, 1, k) = 1..k /\ 1..k \subseteq 1..Len(s)
  BY <1>1, <1>3
<1> QED
  BY <1>1, <1>2, <1>3, <1>4 DEF k

\* What is selected from a sequence keeps its order.
LEMMA SelectFacts ==
  ASSUME NEW S, NEW s \in Seq(S), NEW P \in SUBSET DOMAIN s
  PROVE  /\ Select(s, P) \in Seq(S) /\ Len(Select(s, P)) = Cardinality(P)
         /\ Cardinality(P) \in Nat /\ DOMAIN Select(s, P) = 1..Cardinality(P)
         /\ \E k \in Bijection(1..Cardinality(P), P) :
              /\ \A i \in 1..Cardinality(P) : Select(s, P)[i] = s[k[i]]
              /\ \A i, j \in 1..Cardinality(P) : i < j => k[i] < k[j]
<1> DEFINE k == Ordered(P, Less(P))
           n == Cardinality(P)
<1>1. DOMAIN s = 1..Len(s) /\ Len(s) \in Nat /\ IsFiniteSet(DOMAIN s)
  BY SeqFacts
<1>2. IsFiniteSet(P) /\ \A i \in P : i \in Nat
  BY <1>1, FS_Subset
<1>3. StrictOrder(P, Less(P))
  <2>1. \A i, j : <<i, j>> \in Less(P) <=> i \in P /\ j \in P /\ i < j
    BY DEF Less
  <2> QED
    BY <1>2, <2>1 DEF StrictOrder
<1>4. /\ k \in Seq(P) /\ DOMAIN k = 1..n /\ n \in Nat /\ k \in Bijection(1..n, P)
      /\ \A i, j \in 1..n : i < j => <<k[i], k[j]>> \in Less(P)
  BY <1>2, <1>3, OrderedFacts
<1>5. Select(s, P) = [i \in 1..n |-> s[k[i]]]
  BY <1>4 DEF Select
<1> HIDE DEF k, n
<1>6. \A i \in 1..n : k[i] \in P /\ s[k[i]] \in S
  BY <1>1, <1>4
<1>7. Select(s, P) \in Seq(S) /\ Len(Select(s, P)) = n
  BY <1>4, <1>5, <1>6
<1>8. \A i, j \in 1..n : i < j => k[i] < k[j]
  BY <1>4 DEF Less
<1> QED
  BY <1>4, <1>5, <1>7, <1>8 DEF n

-----------------------------------------------------------------------------
(* Sums.                                                                   *)

\* The partial sums of the first n entries.
Sums(n, c, t) == /\ t \in [0..n -> Nat] /\ t[0] = 0
                 /\ \A i \in 1..n : t[i] = t[i - 1] + c[i]
Summable(n, c) == \E t : Sums(n, c, t)

LEMMA SumOfNone == ASSUME NEW c PROVE Summable(0, c)
<1> DEFINE t == [i \in 0..0 |-> 0]
<1>1. t \in [0..0 -> Nat] /\ t[0] = 0 /\ 1..0 = {}
  OBVIOUS
<1> HIDE DEF t
<1> QED
  BY <1>1 DEF Summable, Sums

LEMMA SumOfOneMore ==
  ASSUME NEW n \in Nat \ {0}, NEW c, c[n] \in Nat, Summable(n - 1, c)
  PROVE  Summable(n, c)
<1>1. PICK t : t \in [0..n - 1 -> Nat] /\ t[0] = 0 /\ \A i \in 1..n - 1 : t[i] = t[i - 1] + c[i]
  BY DEF Summable, Sums
<1> DEFINE u == [i \in 0..n |-> IF i = n THEN t[n - 1] + c[n] ELSE t[i]]
<1>2. u \in [0..n -> Nat]
  BY <1>1
<1>3. u[0] = 0
  BY <1>1
<1>4. ASSUME NEW i \in 1..n
      PROVE  u[i] = u[i - 1] + c[i]
  <2>1. i \in 0..n /\ i - 1 \in 0..n /\ i - 1 # n /\ (i # n => i \in 1..n - 1)
    OBVIOUS
  <2>2. u[i - 1] = t[i - 1]
    BY <2>1
  <2>3. u[i] = IF i = n THEN t[n - 1] + c[n] ELSE t[i]
    BY <2>1
  <2> HIDE DEF u
  <2> QED
    BY <1>1, <2>1, <2>2, <2>3
<1> HIDE DEF u
<1> QED
  BY <1>2, <1>3, <1>4 DEF Summable, Sums

LEMMA SumsExist ==
  ASSUME NEW c \in Seq(Nat)
  PROVE  Summable(Len(c), c)
<1> DEFINE T == {n \in 0..Len(c) : ~Summable(n, c)}
<1>1. Len(c) \in Nat /\ \A i \in 1..Len(c) : c[i] \in Nat
  OBVIOUS
<1>2. T \in SUBSET Nat
  BY <1>1
<1>3. ASSUME T # {}
      PROVE  FALSE
  <2> HIDE DEF T
  <2>1. Min(T) \in T /\ \A m \in T : Min(T) <= m
    BY <1>2, <1>3, LeastOf
  <2>2. PICK n \in T : \A m \in T : n <= m
    BY <2>1
  <2>3. n \in 0..Len(c) /\ ~Summable(n, c)
    BY <2>2 DEF T
  <2>4. n # 0
    BY <2>3, SumOfNone
  <2>5. n \in Nat \ {0} /\ n - 1 \in 0..Len(c) /\ c[n] \in Nat /\ ~(n <= n - 1)
    BY <1>1, <2>3, <2>4
  <2>6. Summable(n - 1, c)
    BY <2>2, <2>5 DEF T
  <2> QED
    BY <2>3, <2>5, <2>6, SumOfOneMore
<1>4. Len(c) \in 0..Len(c) /\ T = {}
  BY <1>1, <1>3
<1> QED
  BY <1>4

LEMMA TotalSums ==
  ASSUME NEW c \in Seq(Nat)
  PROVE  \E t : Sums(Len(c), c, t) /\ Total(c) = t[Len(c)]
<1> DEFINE D(t) == t = [i \in 0..Len(c) |-> IF i = 0 THEN 0 ELSE t[i - 1] + c[i]]
           s == CHOOSE t : D(t)
<1>1. Len(c) \in Nat /\ \A i \in 1..Len(c) : c[i] \in Nat
  OBVIOUS
<1>2. PICK t : Sums(Len(c), c, t)
  BY SumsExist DEF Summable
<1>3. D(t)
  BY <1>1, <1>2 DEF Sums
<1>4. D(s)
  BY <1>3
<1>5. Total(c) = s[Len(c)]
  BY DEF Total
<1> HIDE DEF s
<1>6. /\ DOMAIN s = 0..Len(c) /\ s[0] = 0
      /\ \A i \in 1..Len(c) : s[i] = s[i - 1] + c[i]
  BY <1>1, <1>4
<1> DEFINE T == {n \in 0..Len(c) : s[n] # t[n]}
<1>7. T \in SUBSET Nat
  BY <1>1
<1>8. ASSUME T # {}
      PROVE  FALSE
  <2> HIDE DEF T
  <2>1. PICK n \in T : \A m \in T : n <= m
    BY <1>7, <1>8, LeastOf
  <2>2. n \in 0..Len(c) /\ s[n] # t[n]
    BY <2>1 DEF T
  <2>3. n # 0
    BY <1>2, <1>6, <2>2 DEF Sums
  <2>4. n \in 1..Len(c) /\ n - 1 \in 0..Len(c) /\ ~(n <= n - 1)
    BY <1>1, <2>2, <2>3
  <2>5. s[n - 1] = t[n - 1]
    BY <2>1, <2>4 DEF T
  <2> QED
    BY <1>2, <1>6, <2>2, <2>4, <2>5 DEF Sums
<1>9. Len(c) \in 0..Len(c)
  BY <1>1
<1>10. s[Len(c)] = t[Len(c)]
  BY <1>8, <1>9
<1> QED
  BY <1>2, <1>5, <1>10

\* A sum is a number, and no less than one of which no entry is larger.
LEMMA TotalGrows ==
  ASSUME NEW c \in Seq(Nat), NEW d \in Seq(Nat), Len(c) = Len(d),
         \A i \in 1..Len(c) : c[i] <= d[i]
  PROVE  Total(c) \in Nat /\ Total(d) \in Nat /\ Total(c) <= Total(d)
<1> DEFINE n == Len(c)
<1>1. n \in Nat /\ \A i \in 1..n : c[i] \in Nat /\ d[i] \in Nat
  OBVIOUS
<1>2. PICK s : Sums(n, c, s) /\ Total(c) = s[n]
  BY TotalSums
<1>3. PICK t : Sums(n, d, t) /\ Total(d) = t[n]
  BY TotalSums
<1> DEFINE T == {i \in 0..n : ~(s[i] <= t[i])}
<1> HIDE DEF n
<1>4. \A i \in 0..n : s[i] \in Nat /\ t[i] \in Nat
  BY <1>2, <1>3 DEF Sums
<1>5. T \in SUBSET Nat
  BY <1>1
<1>6. ASSUME T # {}
      PROVE  FALSE
  <2> HIDE DEF T
  <2>1. PICK i \in T : \A m \in T : i <= m
    BY <1>5, <1>6, LeastOf
  <2>2. i \in 0..n /\ ~(s[i] <= t[i])
    BY <2>1 DEF T
  <2>3. i # 0
    BY <1>2, <1>3, <2>2 DEF Sums
  <2>4. i \in 1..n /\ i - 1 \in 0..n /\ ~(i <= i - 1)
    BY <1>1, <2>2, <2>3
  <2>5. s[i - 1] <= t[i - 1]
    BY <2>1, <2>4 DEF T
  <2>6. s[i] = s[i - 1] + c[i] /\ t[i] = t[i - 1] + d[i] /\ c[i] <= d[i]
    BY <1>2, <1>3, <2>4 DEF Sums, n
  <2> QED
    BY <1>1, <1>4, <2>2, <2>4, <2>5, <2>6
<1>7. n \in 0..n
  BY <1>1
<1> QED
  BY <1>2, <1>3, <1>4, <1>6, <1>7

-----------------------------------------------------------------------------
(* Reciprocal rank fusion.                                                 *)

Lists == Seq([type : {"original"} \cup Type, hits : Seq(Hit) \ {<<>>}])

LEMMA ListFacts ==
  ASSUME NEW ls \in Lists, NEW i \in DOMAIN ls
  PROVE  /\ Len(ls) \in Nat /\ DOMAIN ls = 1..Len(ls) /\ i \in Nat
         /\ ls[i].type \in {"original"} \cup Type /\ ls[i].hits \in Seq(Hit)
         /\ ToSet(ls[i].hits) \subseteq Hit
<1>1. Len(ls) \in Nat /\ DOMAIN ls = 1..Len(ls) /\ i \in Nat
  BY DEF Lists
<1>2. ls[i].type \in {"original"} \cup Type /\ ls[i].hits \in Seq(Hit)
  <2> DEFINE L == [type : {"original"} \cup Type, hits : Seq(Hit) \ {<<>>}]
  <2>1. ls[i] \in L
    <3>1. ls \in Seq(L)
      BY DEF Lists
    <3> HIDE DEF L
    <3> QED
      BY <1>1, <3>1
  <2>2. ls[i].hits \in Seq(Hit) \ {<<>>}
    BY <2>1
  <2> QED
    BY <2>1, <2>2
<1> QED
  BY <1>1, <1>2, SeqFacts

LEMMA RankFacts ==
  ASSUME NEW ls \in Lists, NEW i \in DOMAIN ls, NEW u \in ToSet(ls[i].hits)
  PROVE  /\ Rank(ls[i], u) \in DOMAIN ls[i].hits /\ Rank(ls[i], u) \in Nat \ {0}
         /\ ls[i].hits[Rank(ls[i], u)] = u
<1> DEFINE s == ls[i].hits
           T == {k \in DOMAIN s : s[k] = u}
<1>1. s \in Seq(Hit)
  BY ListFacts
<1>2. DOMAIN s = 1..Len(s) /\ Len(s) \in Nat /\ ToSet(s) = {s[k] : k \in DOMAIN s}
  BY <1>1, SeqFacts
<1>3. T \in SUBSET Nat /\ T # {} /\ \A k \in T : k \in DOMAIN s /\ k \in Nat \ {0} /\ s[k] = u
  BY <1>2
<1>4. Rank(ls[i], u) = Min(T)
  BY DEF Rank
<1> HIDE DEF T, s
<1>5. Min(T) \in T
  BY <1>3, LeastOf
<1> QED
  BY <1>3, <1>4, <1>5 DEF s

LEMMA ListingFacts ==
  ASSUME NEW ls \in Lists, NEW u \in Uris(ls)
  PROVE  /\ Listing(ls, u) \in SUBSET Nat /\ Listing(ls, u) # {}
         /\ \A i \in Listing(ls, u) : i \in DOMAIN ls /\ u \in ToSet(ls[i].hits)
         /\ Min(Listing(ls, u)) \in Listing(ls, u)
         /\ \A i \in Listing(ls, u) : Min(Listing(ls, u)) <= i
<1>1. DOMAIN ls = 1..Len(ls) /\ Len(ls) \in Nat
  BY DEF Lists
<1>2. PICK i \in DOMAIN ls : u \in ToSet(ls[i].hits)
  BY DEF Uris
<1>3. Listing(ls, u) \in SUBSET Nat /\ Listing(ls, u) # {}
  BY <1>1, <1>2 DEF Listing
<1>4. \A k \in Listing(ls, u) : k \in DOMAIN ls /\ u \in ToSet(ls[k].hits)
  BY DEF Listing
<1>5. /\ Min(Listing(ls, u)) \in Listing(ls, u)
      /\ \A k \in Listing(ls, u) : Min(Listing(ls, u)) <= k
  BY <1>3, LeastOf
<1> QED
  BY <1>3, <1>4, <1>5

LEMMA UrisFacts ==
  ASSUME NEW ls \in Lists
  PROVE  IsFiniteSet(Uris(ls)) /\ Uris(ls) \subseteq Hit
<1> DEFINE F == [i \in DOMAIN ls |-> ToSet(ls[i].hits)]
           W == {ToSet(ls[i].hits) : i \in DOMAIN ls}
<1>1. DOMAIN ls = 1..Len(ls) /\ Len(ls) \in Nat /\ IsFiniteSet(DOMAIN ls)
  BY SeqFacts DEF Lists
<1>2. F \in Surjection(DOMAIN ls, W)
  BY DEF Surjection
<1>3. \A i \in DOMAIN ls : IsFiniteSet(ToSet(ls[i].hits)) /\ ToSet(ls[i].hits) \subseteq Hit
  BY ListFacts, SeqFacts
<1>4. \A t \in W : IsFiniteSet(t) /\ t \subseteq Hit
  BY <1>3
<1>5. Uris(ls) = UNION W
  BY DEF Uris
<1> HIDE DEF F, W
<1>6. IsFiniteSet(W)
  BY <1>1, <1>2, FS_Surjection
<1>7. IsFiniteSet(UNION W)
  BY <1>4, <1>6, FS_UNION
<1> QED
  BY <1>4, <1>5, <1>7

\* The deeper in a list, the less it contributes.
LEMMA ContributionFalls ==
  ASSUME NEW w \in Nat, NEW m \in Nat, NEW n \in Nat, m <= n
  PROVE  /\ Contribution(w, m) \in Nat /\ Contribution(w, n) \in Nat
         /\ Contribution(w, n) <= Contribution(w, m)
<1> DEFINE a == 60 + m
           b == 60 + n
           p == Scale \div a
           q == Scale \div b
<1>1. Scale \in Nat /\ a \in Nat /\ b \in Nat /\ a > 0 /\ b > 0 /\ a <= b
  BY FusionAssumption
<1> HIDE DEF a, b
<1>2. /\ p \in Nat /\ Scale = a * p + (Scale % a) /\ Scale % a \in 0..a - 1
      /\ q \in Nat /\ Scale = b * q + (Scale % b) /\ Scale % b \in 0..b - 1
  BY <1>1
<1> HIDE DEF p, q
<1>3. a * q <= b * q /\ b * q <= Scale /\ a * q \in Nat /\ b * q \in Nat
  BY <1>1, <1>2
<1>4. a * (p + 1) = a * p + a /\ a * p \in Nat
  BY <1>1, <1>2
<1>5. Scale < a * (p + 1)
  BY <1>1, <1>2, <1>4
<1>6. ASSUME p + 1 <= q
      PROVE  FALSE
  <2>1. a * (p + 1) <= a * q
    BY <1>1, <1>2, <1>6
  <2> QED
    BY <1>1, <1>3, <1>4, <1>5, <2>1
<1>7. q <= p
  BY <1>2, <1>6
<1>8. w * q <= w * p /\ w * p \in Nat /\ w * q \in Nat
  BY <1>2, <1>7
<1> QED
  BY <1>8 DEF Contribution, p, q, a, b

LEMMA BonusFalls ==
  ASSUME NEW m \in Nat, NEW n \in Nat, m <= n
  PROVE  Bonus(m) \in Nat /\ Bonus(n) \in Nat /\ (m # 0 => Bonus(n) <= Bonus(m))
<1> DEFINE p == Scale \div 20
           q == Scale \div 50
<1>1. Scale \in Nat /\ p \in Nat /\ q \in Nat /\ q <= p
  BY FusionAssumption
<1>2. /\ Bonus(m) = IF m = 1 THEN p ELSE IF m <= 3 THEN q ELSE 0
      /\ Bonus(n) = IF n = 1 THEN p ELSE IF n <= 3 THEN q ELSE 0
  BY DEF Bonus
<1> HIDE DEF p, q
<1> QED
  BY <1>1, <1>2

LEMMA ContributionsFacts ==
  ASSUME NEW ls \in Lists, NEW u \in Uris(ls)
  PROVE  /\ Contributions(ls, u) \in Seq(Nat) /\ Len(Contributions(ls, u)) = Len(ls)
         /\ \A i \in 1..Len(ls) :
              Contributions(ls, u)[i] = IF i \notin Listing(ls, u) THEN 0
                ELSE Contribution(hybrid_rrf_weights(ls[i].type), Rank(ls[i], u))
<1>1. DOMAIN ls = 1..Len(ls) /\ Len(ls) \in Nat
  BY DEF Lists
<1>2. \A i \in DOMAIN ls : i \in Listing(ls, u) =>
        Contribution(hybrid_rrf_weights(ls[i].type), Rank(ls[i], u)) \in Nat
  <2> SUFFICES ASSUME NEW i \in DOMAIN ls, i \in Listing(ls, u)
               PROVE  Contribution(hybrid_rrf_weights(ls[i].type), Rank(ls[i], u)) \in Nat
    OBVIOUS
  <2>1. Rank(ls[i], u) \in Nat
    BY ListingFacts, RankFacts
  <2>2. hybrid_rrf_weights(ls[i].type) \in Nat
    BY DEF hybrid_rrf_weights
  <2> HIDE DEF Listing
  <2> QED
    BY <2>1, <2>2, ContributionFalls
<1> DEFINE c == Contributions(ls, u)
<1>3. DOMAIN c = 1..Len(ls) /\ \A i \in DOMAIN c : c[i] \in Nat
  BY <1>1, <1>2 DEF Contributions
<1>4. c = [i \in 1..Len(ls) |-> c[i]]
  BY <1>1 DEF Contributions
<1>5. \A i \in 1..Len(ls) :
        c[i] = IF i \notin Listing(ls, u) THEN 0
               ELSE Contribution(hybrid_rrf_weights(ls[i].type), Rank(ls[i], u))
  BY <1>1 DEF Contributions
<1> HIDE DEF c
<1>6. c \in [1..Len(ls) -> Nat]
  BY <1>3, <1>4
<1>7. c \in Seq(Nat) /\ Len(c) = Len(ls)
  BY <1>1, <1>6
<1> QED
  BY <1>5, <1>7 DEF c

LEMMA BestRankFacts ==
  ASSUME NEW ls \in Lists, NEW u \in Uris(ls)
  PROVE  /\ BestRank(ls, u) \in Nat \ {0}
         /\ \A i \in Listing(ls, u) : BestRank(ls, u) <= Rank(ls[i], u)
         /\ \E i \in Listing(ls, u) : BestRank(ls, u) = Rank(ls[i], u)
<1> DEFINE T == {Rank(ls[i], u) : i \in Listing(ls, u)}
<1>1. Listing(ls, u) # {} /\ \A i \in Listing(ls, u) : Rank(ls[i], u) \in Nat \ {0}
  BY ListingFacts, RankFacts
<1>2. T \in SUBSET (Nat \ {0}) /\ T # {}
  BY <1>1
<1>3. BestRank(ls, u) = Min(T) /\ \A i \in Listing(ls, u) : Rank(ls[i], u) \in T
  BY DEF BestRank
<1>4. \A k \in T : \E i \in Listing(ls, u) : k = Rank(ls[i], u)
  OBVIOUS
<1> HIDE DEF T
<1>5. Min(T) \in T /\ \A k \in T : Min(T) <= k
  BY <1>2, LeastOf
<1> QED
  BY <1>2, <1>3, <1>4, <1>5

\* Every list with v in it has u before it.
AllBefore(ls, u, v) ==
  \A i \in DOMAIN ls : v \in ToSet(ls[i].hits) =>
    u \in ToSet(ls[i].hits) /\ Rank(ls[i], u) < Rank(ls[i], v)

LEMMA FusedScoreType ==
  ASSUME NEW ls \in Lists, NEW u \in Uris(ls)
  PROVE  FusedScore(ls, u) \in Nat
<1>1. Total(Contributions(ls, u)) \in Nat
  BY ContributionsFacts, TotalGrows
<1>2. Bonus(BestRank(ls, u)) \in Nat
  BY BestRankFacts, BonusFalls
<1> QED
  BY <1>1, <1>2 DEF FusedScore

LEMMA BeforeScoresMore ==
  ASSUME NEW ls \in Lists, NEW u \in Uris(ls), NEW v \in Uris(ls), AllBefore(ls, u, v)
  PROVE  FusedScore(ls, v) <= FusedScore(ls, u)
<1> DEFINE c == Contributions(ls, v)
           d == Contributions(ls, u)
<1>1. c \in Seq(Nat) /\ d \in Seq(Nat) /\ Len(c) = Len(ls) /\ Len(d) = Len(ls)
  BY ContributionsFacts
<1>2. ASSUME NEW i \in 1..Len(ls)
      PROVE  c[i] <= d[i]
  <2>1. i \in DOMAIN ls
    BY DEF Lists
  <2>2. CASE i \notin Listing(ls, v)
    <3>1. c[i] = 0 /\ d[i] \in Nat
      BY <1>1, <2>2, ContributionsFacts
    <3> QED
      BY <3>1
  <2>3. CASE i \in Listing(ls, v)
    <3>1. v \in ToSet(ls[i].hits)
      BY <2>3, ListingFacts
    <3>2. u \in ToSet(ls[i].hits) /\ Rank(ls[i], u) < Rank(ls[i], v)
      BY <2>1, <3>1 DEF AllBefore
    <3>3. Rank(ls[i], u) \in Nat /\ Rank(ls[i], v) \in Nat /\ Rank(ls[i], u) <= Rank(ls[i], v)
      BY <2>1, <3>1, <3>2, RankFacts
    <3>4. i \in Listing(ls, u)
      BY <2>1, <3>2 DEF Listing
    <3>5. /\ c[i] = Contribution(hybrid_rrf_weights(ls[i].type), Rank(ls[i], v))
          /\ d[i] = Contribution(hybrid_rrf_weights(ls[i].type), Rank(ls[i], u))
      BY <2>3, <3>4, ContributionsFacts
    <3>6. hybrid_rrf_weights(ls[i].type) \in Nat
      BY DEF hybrid_rrf_weights
    <3> HIDE DEF c, d
    <3> QED
      BY <3>3, <3>5, <3>6, ContributionFalls
  <2> QED
    BY <2>2, <2>3
<1>3. Bonus(BestRank(ls, v)) <= Bonus(BestRank(ls, u))
  <2>1. PICK i \in Listing(ls, v) : BestRank(ls, v) = Rank(ls[i], v)
    BY BestRankFacts
  <2>2. i \in DOMAIN ls /\ v \in ToSet(ls[i].hits)
    BY ListingFacts
  <2>3. u \in ToSet(ls[i].hits) /\ Rank(ls[i], u) < Rank(ls[i], v)
    BY <2>2 DEF AllBefore
  <2>4. i \in Listing(ls, u) /\ Rank(ls[i], u) \in Nat /\ Rank(ls[i], v) \in Nat
    BY <2>2, <2>3, RankFacts DEF Listing
  <2>5. BestRank(ls, u) \in Nat \ {0} /\ BestRank(ls, u) <= Rank(ls[i], u)
    BY <2>4, BestRankFacts
  <2>6. BestRank(ls, u) <= BestRank(ls, v) /\ BestRank(ls, v) \in Nat
    BY <2>1, <2>3, <2>4, <2>5
  <2> QED
    BY <2>5, <2>6, BonusFalls
<1>4. Total(c) <= Total(d) /\ Total(c) \in Nat /\ Total(d) \in Nat
  <2> HIDE DEF c, d
  <2> QED
    BY <1>1, <1>2, TotalGrows
<1>5. Bonus(BestRank(ls, v)) \in Nat /\ Bonus(BestRank(ls, u)) \in Nat
  BY BestRankFacts, BonusFalls
<1>6. FusedScore(ls, v) = Total(c) + Bonus(BestRank(ls, v))
      /\ FusedScore(ls, u) = Total(d) + Bonus(BestRank(ls, u))
  BY DEF FusedScore
<1> HIDE DEF c, d
<1> QED
  BY <1>3, <1>4, <1>5, <1>6

\* Where a hit is first seen.
First(ls, u) == Min(Listing(ls, u))
FirstRank(ls, u) == Rank(ls[First(ls, u)], u)

LEMMA FirstFacts ==
  ASSUME NEW ls \in Lists, NEW u \in Uris(ls)
  PROVE  /\ First(ls, u) \in DOMAIN ls /\ First(ls, u) \in Nat /\ FirstRank(ls, u) \in Nat
         /\ u \in ToSet(ls[First(ls, u)].hits)
         /\ ls[First(ls, u)].hits[FirstRank(ls, u)] = u
         /\ \A i \in DOMAIN ls : u \in ToSet(ls[i].hits) => First(ls, u) <= i
<1>1. First(ls, u) \in DOMAIN ls /\ u \in ToSet(ls[First(ls, u)].hits) /\ First(ls, u) \in Nat
  BY ListingFacts DEF First
<1>2. FirstRank(ls, u) \in Nat /\ ls[First(ls, u)].hits[FirstRank(ls, u)] = u
  BY <1>1, RankFacts DEF FirstRank
<1>3. ASSUME NEW i \in DOMAIN ls, u \in ToSet(ls[i].hits)
      PROVE  First(ls, u) <= i
  <2>1. i \in Listing(ls, u)
    BY <1>3 DEF Listing
  <2> QED
    BY <2>1, ListingFacts DEF First
<1> QED
  BY <1>1, <1>2, <1>3

LEMMA FirstSeenMeans ==
  ASSUME NEW ls \in Lists, NEW u \in Uris(ls), NEW v \in Uris(ls)
  PROVE  FirstSeen(ls, u, v) <=>
           \/ First(ls, u) < First(ls, v)
           \/ First(ls, u) = First(ls, v) /\ FirstRank(ls, u) < FirstRank(ls, v)
BY DEF FirstSeen, First, FirstRank

LEMMA FirstSeenOrders ==
  ASSUME NEW ls \in Lists, NEW u \in Uris(ls), NEW v \in Uris(ls)
  PROVE  /\ u # v => FirstSeen(ls, u, v) \/ FirstSeen(ls, v, u)
         /\ ~(FirstSeen(ls, u, v) /\ FirstSeen(ls, v, u))
         /\ AllBefore(ls, u, v) => FirstSeen(ls, u, v)
<1>1. /\ First(ls, u) \in Nat /\ FirstRank(ls, u) \in Nat
      /\ First(ls, v) \in Nat /\ FirstRank(ls, v) \in Nat
  BY FirstFacts
<1>2. /\ FirstSeen(ls, u, v) <=>
           \/ First(ls, u) < First(ls, v)
           \/ First(ls, u) = First(ls, v) /\ FirstRank(ls, u) < FirstRank(ls, v)
      /\ FirstSeen(ls, v, u) <=>
           \/ First(ls, v) < First(ls, u)
           \/ First(ls, v) = First(ls, u) /\ FirstRank(ls, v) < FirstRank(ls, u)
  BY FirstSeenMeans
<1>3. First(ls, u) = First(ls, v) /\ FirstRank(ls, u) = FirstRank(ls, v) => u = v
  <2>1. ls[First(ls, u)].hits[FirstRank(ls, u)] = u /\ ls[First(ls, v)].hits[FirstRank(ls, v)] = v
    BY FirstFacts
  <2> QED
    BY <2>1
<1>4. ASSUME AllBefore(ls, u, v)
      PROVE  FirstSeen(ls, u, v)
  <2>1. First(ls, v) \in DOMAIN ls /\ v \in ToSet(ls[First(ls, v)].hits)
    BY FirstFacts
  <2>2. /\ u \in ToSet(ls[First(ls, v)].hits)
        /\ Rank(ls[First(ls, v)], u) < Rank(ls[First(ls, v)], v)
    BY <1>4, <2>1 DEF AllBefore
  <2>3. First(ls, u) <= First(ls, v)
    BY <2>1, <2>2, FirstFacts
  <2>4. First(ls, u) = First(ls, v) => FirstRank(ls, u) < FirstRank(ls, v)
    BY <2>2 DEF FirstRank
  <2> QED
    BY <1>1, <1>2, <2>3, <2>4
<1>5. u # v => FirstSeen(ls, u, v) \/ FirstSeen(ls, v, u)
  BY <1>1, <1>2, <1>3
<1>6. ~(FirstSeen(ls, u, v) /\ FirstSeen(ls, v, u))
  BY <1>1, <1>2
<1> QED
  BY <1>4, <1>5, <1>6

LEMMA FirstSeenChains ==
  ASSUME NEW ls \in Lists, NEW u \in Uris(ls), NEW v \in Uris(ls), NEW w \in Uris(ls),
         FirstSeen(ls, u, v), FirstSeen(ls, v, w)
  PROVE  FirstSeen(ls, u, w)
<1>1. /\ First(ls, u) \in Nat /\ FirstRank(ls, u) \in Nat
      /\ First(ls, v) \in Nat /\ FirstRank(ls, v) \in Nat
      /\ First(ls, w) \in Nat /\ FirstRank(ls, w) \in Nat
  BY FirstFacts
<1> QED
  BY <1>1, FirstSeenMeans

LEMMA FusedBeforeMeans ==
  ASSUME NEW ls \in Lists, NEW u \in Uris(ls), NEW v \in Uris(ls)
  PROVE  <<u, v>> \in FusedBefore(ls) <=>
           \/ FusedScore(ls, u) > FusedScore(ls, v)
           \/ FusedScore(ls, u) = FusedScore(ls, v) /\ FirstSeen(ls, u, v)
BY DEF FusedBefore

LEMMA FusedInOrder ==
  ASSUME NEW ls \in Lists
  PROVE  StrictOrder(Uris(ls), FusedBefore(ls))
<1>1. ASSUME NEW u \in Uris(ls), NEW v \in Uris(ls), u # v
      PROVE  <<u, v>> \in FusedBefore(ls) \/ <<v, u>> \in FusedBefore(ls)
  BY <1>1, FusedBeforeMeans, FusedScoreType, FirstSeenOrders
<1>2. ASSUME NEW u \in Uris(ls)
      PROVE  <<u, u>> \notin FusedBefore(ls)
  BY FusedBeforeMeans, FusedScoreType, FirstSeenOrders
<1>3. ASSUME NEW u \in Uris(ls), NEW v \in Uris(ls), NEW w \in Uris(ls),
             <<u, v>> \in FusedBefore(ls), <<v, w>> \in FusedBefore(ls)
      PROVE  <<u, w>> \in FusedBefore(ls)
  <2>1. /\ FusedScore(ls, u) \in Nat /\ FusedScore(ls, v) \in Nat /\ FusedScore(ls, w) \in Nat
    BY FusedScoreType
  <2>2. /\ \/ FusedScore(ls, u) > FusedScore(ls, v)
           \/ FusedScore(ls, u) = FusedScore(ls, v) /\ FirstSeen(ls, u, v)
        /\ \/ FusedScore(ls, v) > FusedScore(ls, w)
           \/ FusedScore(ls, v) = FusedScore(ls, w) /\ FirstSeen(ls, v, w)
    BY <1>3, FusedBeforeMeans
  <2>3. \/ FusedScore(ls, u) > FusedScore(ls, w)
        \/ FusedScore(ls, u) = FusedScore(ls, w) /\ FirstSeen(ls, u, w)
    BY <2>1, <2>2, FirstSeenChains
  <2> QED
    BY <2>3, FusedBeforeMeans
<1> QED
  BY <1>1, <1>2, <1>3 DEF StrictOrder

\* What is fused is every hit of every list, once.
LEMMA FusionFacts ==
  ASSUME NEW ls \in Lists
  PROVE  /\ reciprocal_rank_fusion(ls) \in Seq(Hit)
         /\ Len(reciprocal_rank_fusion(ls)) = Cardinality(Uris(ls))
         /\ Cardinality(Uris(ls)) \in Nat
         /\ reciprocal_rank_fusion(ls) \in Bijection(1..Cardinality(Uris(ls)), Uris(ls))
         /\ \A i, j \in 1..Cardinality(Uris(ls)) : i < j =>
              <<reciprocal_rank_fusion(ls)[i], reciprocal_rank_fusion(ls)[j]>> \in FusedBefore(ls)
<1> DEFINE s == reciprocal_rank_fusion(ls)
           n == Cardinality(Uris(ls))
<1>1. IsFiniteSet(Uris(ls)) /\ Uris(ls) \subseteq Hit
  BY UrisFacts
<1>2. s = Ordered(Uris(ls), FusedBefore(ls))
  BY DEF reciprocal_rank_fusion
<1> HIDE DEF s
<1>3. /\ s \in Seq(Uris(ls)) /\ Len(s) = n /\ n \in Nat /\ s \in Bijection(1..n, Uris(ls))
      /\ \A i, j \in 1..n : i < j => <<s[i], s[j]>> \in FusedBefore(ls)
  BY <1>1, <1>2, FusedInOrder, OrderedFacts
<1>4. s \in Seq(Hit)
  BY <1>1, <1>3
<1> QED
  BY <1>3, <1>4 DEF s

\* Fusion never turns round what all lists agree on, whatever the lists, their
\* weights and the bonuses: of two hits the one that is before the other in
\* every list with the other is not fused after it (reciprocal_rank_fusion,
\* search/hybrid.py).
THEOREM FusionAgrees ==
  ASSUME NEW ls \in Lists, NEW u \in Uris(ls), NEW v \in Uris(ls), AllBefore(ls, u, v)
  PROVE  <<v, u>> \notin FusedBefore(ls)
<1>1. FusedScore(ls, v) <= FusedScore(ls, u) /\ FusedScore(ls, u) \in Nat /\ FusedScore(ls, v) \in Nat
  BY BeforeScoresMore, FusedScoreType
<1>2. FirstSeen(ls, u, v) /\ ~FirstSeen(ls, v, u)
  BY FirstSeenOrders
<1> QED
  BY <1>1, <1>2, FusedBeforeMeans

-----------------------------------------------------------------------------
(* What a query asks of the router, and what it fails for.                 *)

\* Every request to the router is still to come before its step.
NotYet(s, places) == pc \in places => calls[s] = 0

\* A query fails for a reason that fails it; after a request to the reranker,
\* for a score only.
FailsForAReason ==
  pc = "failed" => /\ fault \in {"embed", "reply", "removed", "score"}
                   /\ (fault = "score") <=> (calls["rerank"] = 1)
                   /\ fault = "score" => request.rerank /\ candidates # <<>>
                   /\ fault = "removed" => changes > 0
                   /\ fault = "embed" => vectors

\* SurvivesServices, with what holds on the way.
SurvivesInv ==
  /\ changes \in Nat /\ calls \in [Service -> Nat] /\ \A s \in Service : calls[s] <= 1
  /\ NotYet("expand", {"idle", "scope", "probe", "expand"})
  /\ NotYet("embed", {"idle", "scope", "probe", "expand", "lex", "embed"})
  /\ NotYet("rerank", Location \ {"done", "failed"})
  /\ pc = "rerank" => candidates # <<>>
  /\ pc \in Location
  /\ pc # "done" => answer = <<>>
  /\ pc \notin {"idle", "refused"} /\ Typed =>
       pc \notin {"probe", "expand"} /\ calls["expand"] = 0
  /\ FailsForAReason

LEMMA SurvivesInvImplies == SurvivesInv => SurvivesServices
BY DEF SurvivesInv, NotYet, FailsForAReason, SurvivesServices, Location

LEMMA InitSurvives == Init => SurvivesInv
BY DEF Init, SurvivesInv, NotYet, FailsForAReason, Service, Location

LEMMA AskSurvives ==
  ASSUME SurvivesInv, NEW r \in Requests, Ask(r)
  PROVE  SurvivesInv'
BY DEF SurvivesInv, NotYet, FailsForAReason, Location, Ask, Goto, Quietly, index, Typed

LEMMA ResolveScopeSurvives ==
  ASSUME SurvivesInv, ResolveScope
  PROVE  SurvivesInv'
BY DEF SurvivesInv, NotYet, FailsForAReason, Location, ResolveScope, At, Goto, Quietly,
       index, Typed

LEMMA ProbeSurvives ==
  ASSUME SurvivesInv, Probe
  PROVE  SurvivesInv'
<1>1. /\ pc = "probe" /\ pc' \in {"expand", "lex"}
      /\ UNCHANGED <<vectors, request, changes, answer, calls, fault>>
  BY DEF Probe, At, Goto, Quietly, index
<1> QED
  BY <1>1 DEF SurvivesInv, NotYet, FailsForAReason, Location, Typed

\* An expansion that goes wrong is survived, unless its answer is no object.
LEMMA ExpandSurvives ==
  ASSUME SurvivesInv, expand_query
  PROVE  SurvivesInv'
<1>1. /\ pc = "expand" /\ pc' \in {"lex", "failed"}
      /\ pc' = "failed" => fault' = "reply"
      /\ calls' = [calls EXCEPT !["expand"] = @ + 1]
      /\ UNCHANGED <<vectors, request, changes, answer, candidates>>
  BY DEF expand_query, At, Goto, Called, index
<1>2. /\ calls' \in [Service -> Nat] /\ calls'["expand"] = 1
      /\ \A s \in Service : s # "expand" => calls'[s] = calls[s]
  BY <1>1 DEF SurvivesInv, NotYet, Service
<1>3. "embed" \in Service /\ "rerank" \in Service
  BY DEF Service
<1> QED
  BY <1>1, <1>2, <1>3 DEF SurvivesInv, NotYet, FailsForAReason, Location, Typed

LEMMA EmbedSurvives ==
  ASSUME SurvivesInv, EmbedQueries
  PROVE  SurvivesInv'
<1>1. pc = "embed" /\ UNCHANGED <<vectors, request, changes, answer, candidates>>
  BY DEF EmbedQueries, At, index
<1>2. CASE pc' = "fuse" /\ UNCHANGED <<calls, fault>>
  BY <1>1, <1>2 DEF SurvivesInv, NotYet, FailsForAReason, Location, Typed
<1>3. CASE /\ vectors /\ calls' = [calls EXCEPT !["embed"] = @ + 1]
           /\ pc' = "vec" \/ (pc' = "failed" /\ fault' = "embed")
  <2>1. /\ calls' \in [Service -> Nat] /\ calls'["embed"] = 1
        /\ \A s \in Service : s # "embed" => calls'[s] = calls[s]
    BY <1>1, <1>3 DEF SurvivesInv, NotYet, Service
  <2>2. "expand" \in Service /\ "rerank" \in Service
    BY DEF Service
  <2> QED
    BY <1>1, <1>3, <2>1, <2>2 DEF SurvivesInv, NotYet, FailsForAReason, Location, Typed
<1> QED
  BY <1>2, <1>3 DEF EmbedQueries, Goto, Called, Quietly

\* Searching and fusing ask nothing of the router.
LEMMA SearchSurvives ==
  ASSUME SurvivesInv, SearchLex \/ SearchVec \/ Fuse
  PROVE  SurvivesInv'
<1>1. UNCHANGED <<vectors, request, changes, answer, calls, fault>>
  BY DEF SearchLex, SearchVec, Fuse, At, Quietly, index
<1>2. \/ pc = "lex" /\ pc' \in {"lex", "embed"}
      \/ pc = "vec" /\ pc' \in {"vec", "fuse"}
      \/ pc = "fuse" /\ (pc' = "done" \/ (pc' = "rerank" /\ candidates' # <<>>))
  BY DEF SearchLex, SearchVec, Fuse, At, Goto
<1> QED
  BY <1>1, <1>2 DEF SurvivesInv, NotYet, FailsForAReason, Location, Typed

\* A failed reranking is survived, unless a score is no number.
LEMMA RerankSurvives ==
  ASSUME SurvivesInv, Rerank
  PROVE  SurvivesInv'
<1>1. /\ pc = "rerank" /\ candidates # <<>> /\ answer = <<>> /\ calls["rerank"] = 0
      /\ UNCHANGED <<vectors, request, changes, candidates>>
  BY DEF Rerank, At, index, SurvivesInv, NotYet, Location
<1>2. "expand" \in Service /\ "embed" \in Service /\ "rerank" \in Service
  BY DEF Service
<1>3. CASE pc' = "done" /\ UNCHANGED calls
  BY <1>1, <1>3 DEF SurvivesInv, NotYet, FailsForAReason, Location, Typed
<1>4. CASE /\ request.rerank /\ calls' = [calls EXCEPT !["rerank"] = @ + 1]
           /\ pc' = "done" \/ (pc' = "failed" /\ fault' = "score" /\ answer' = answer)
  <2>1. /\ calls' \in [Service -> Nat] /\ calls'["rerank"] = 1
        /\ \A s \in Service : s # "rerank" => calls'[s] = calls[s]
    BY <1>1, <1>2, <1>4 DEF SurvivesInv
  <2> QED
    BY <1>1, <1>2, <1>4, <2>1 DEF SurvivesInv, NotYet, FailsForAReason, Location, Typed
<1> QED
  BY <1>3, <1>4 DEF Rerank, Goto, Called, Quietly

\* Other processes fail a query only by removing a collection.
LEMMA ChangeSurvives ==
  ASSUME SurvivesInv,
         \/ \E c \in Coll, n \in Names : RenameCollection(c, n)
         \/ \E c \in Coll : RemoveCollection(c)
  PROVE  SurvivesInv'
<1>1. /\ pc \notin {"idle", "refused", "done", "failed"} /\ changes' = changes + 1
      /\ UNCHANGED <<vectors, request, answer, calls, candidates>>
      /\ \/ UNCHANGED <<pc, fault>>
         \/ pc' = "failed" /\ fault' = "removed" /\ pc \in {"probe", "lex", "vec"}
  BY DEF RenameCollection, RemoveCollection, Change, Running, Ended, Goto, pipeline
<1> QED
  BY <1>1 DEF SurvivesInv, NotYet, FailsForAReason, Location, Typed

LEMMA NextSurvives ==
  ASSUME SurvivesInv, [Next]_vars
  PROVE  SurvivesInv'
<1>1. CASE Step
  BY <1>1, ResolveScopeSurvives, ProbeSurvives, ExpandSurvives, EmbedSurvives,
     SearchSurvives, RerankSurvives DEF Step
<1>2. ASSUME NEW r \in Requests, Ask(r)
      PROVE  SurvivesInv'
  BY <1>2, AskSurvives
<1>3. CASE \/ \E c \in Coll, n \in Names : RenameCollection(c, n)
           \/ \E c \in Coll : RemoveCollection(c)
  BY <1>3, ChangeSurvives
<1>4. CASE UNCHANGED vars
  BY <1>4 DEF vars, index, pipeline, SurvivesInv, NotYet, FailsForAReason, Typed
<1> QED
  BY <1>1, <1>2, <1>3, <1>4 DEF Next

\* Whatever the router and other processes do, a query fails for nothing but a
\* failed embedding, an expansion that is not an object, a collection removed
\* under a search, or a relevance score that is no number, the only one of them
\* that can lose what was fused and sent to the reranker; and it asks no service
\* twice (search/hybrid.py, llm/client.py).
THEOREM QueriesSurvive == Spec => []SurvivesServices
<1>1. Init => SurvivesInv
  BY InitSurvives
<1>2. SurvivesInv /\ [Next]_vars => SurvivesInv'
  BY NextSurvives
<1>3. SurvivesInv => SurvivesServices
  BY SurvivesInvImplies
<1> QED
  BY <1>1, <1>2, <1>3, PTL DEF Spec

-----------------------------------------------------------------------------
(* The blend (Fusion.tla).                                                 *)

\* The rank of the document fused second weighs at most half as much, that of
\* one behind Mid at most a third.
LEMMA PositionFalls ==
  ASSUME NEW rank \in Nat \ {0, 1}
  PROVE  /\ Position(rank) \in Nat /\ 2 * Position(rank) <= Unit
         /\ rank >= 3 => 3 * Position(rank) <= Unit
<1>1. Unit \in Nat /\ rank \in Nat /\ rank >= 2
  BY FusionAssumption
<1>2. /\ Unit \div rank \in Nat
      /\ Unit = rank * (Unit \div rank) + (Unit % rank) /\ Unit % rank >= 0
  BY <1>1
<1> DEFINE q == Unit \div rank
<1>3. q \in Nat /\ rank * q <= Unit
  BY <1>1, <1>2
<1> HIDE DEF q
<1>4. 2 * q <= rank * q /\ (rank >= 3 => 3 * q <= rank * q)
  BY <1>1, <1>3
<1>5. rank * q \in Nat
  BY <1>1, <1>3
<1>6. 2 * q <= Unit /\ (rank >= 3 => 3 * q <= Unit)
  BY <1>1, <1>3, <1>4, <1>5
<1> QED
  BY <1>6, <1>3 DEF q, Position

\* Whatever scores in 0..1 the reranker gives, the document fused first comes
\* before every other one: the weights of _blend_reranked (search/hybrid.py) leave it 75
\* hundredths, more than a rerank score can make up for at any later rank.
THEOREM BlendKeepsTheFirst ==
  ASSUME NEW rank \in Nat \ {0, 1}, NEW s \in 0..Unit, NEW t \in 0..Unit
  PROVE  Blend(1, s) > Blend(rank, t)
<1>1. Unit \in Nat /\ Unit > 0 /\ rank \in Nat /\ rank >= 2 /\ s \in Nat /\ t \in Nat /\ t <= Unit
  BY FusionAssumption
<1>2. Blend(1, s) \in Nat /\ Blend(1, s) >= 75 * Unit
  <2>1. Weight(1) = 75 /\ Position(1) = Unit
    BY <1>1, FusionAssumption DEF Weight, Position
  <2> QED
    BY <1>1, <2>1 DEF Blend
<1> DEFINE q == Position(rank)
<1>3. q \in Nat /\ 2 * q <= Unit /\ (rank >= 3 => 3 * q <= Unit)
  BY PositionFalls
<1> HIDE DEF q
<1>4. CASE rank <= Top
  <2>1. Blend(rank, t) = 75 * q + 25 * t
    BY <1>4 DEF Blend, Weight, q
  <2> QED
    BY <1>1, <1>2, <1>3, <2>1
<1>5. CASE rank > Top /\ rank <= Mid
  <2>1. Blend(rank, t) = 60 * q + 40 * t
    BY <1>1, <1>5, FusionAssumption DEF Blend, Weight, q
  <2> QED
    BY <1>1, <1>2, <1>3, <2>1
<1>6. CASE rank > Mid
  <2>1. Blend(rank, t) = 40 * q + 60 * t
    BY <1>1, <1>6, FusionAssumption DEF Blend, Weight, q
  <2>2. rank >= 3
    BY <1>1, <1>6, FusionAssumption
  <2> QED
    BY <1>1, <1>2, <1>3, <2>1, <2>2
<1> QED
  BY <1>1, <1>4, <1>5, <1>6, FusionAssumption

\* Scores the blend can give: the document fused first is ahead of all others,
\* and none has less than its rank alone gives.
Ahead == {score \in [DOMAIN candidates -> Nat] :
            /\ \A r \in DOMAIN candidates \ {1} : score[1] > score[r]
            /\ \A r \in DOMAIN candidates : score[r] >= Blend(r, 0)}

LEMMA BlendType ==
  ASSUME NEW rank \in Nat \ {0}, NEW s \in 0..Unit
  PROVE  /\ Blend(rank, s) \in Nat /\ PositionScore(rank) \in Nat /\ Blend(rank, 0) \in Nat
         /\ Blend(rank, s) >= Blend(rank, 0) /\ PositionScore(rank) >= Blend(rank, 0)
<1>1. Unit \in Nat /\ Position(rank) \in Nat /\ s \in Nat
  <2>1. Unit \in Nat /\ s \in Nat
    BY FusionAssumption
  <2>2. rank = 1 => Position(rank) \in Nat
    BY <2>1 DEF Position
  <2> QED
    BY <2>1, <2>2, PositionFalls
<1>2. Weight(rank) \in {75, 60, 40}
  BY DEF Weight
<1> DEFINE w == Weight(rank)
           q == Position(rank)
<1>3. /\ Blend(rank, s) = w * q + (100 - w) * s /\ Blend(rank, 0) = w * q + (100 - w) * 0
      /\ PositionScore(rank) = 100 * q
  BY DEF Blend, PositionScore
<1>4. q \in Nat /\ w \in {75, 60, 40}
  BY <1>1, <1>2
<1> HIDE DEF w, q
<1> QED
  BY <1>1, <1>3, <1>4

LEMMA BlendsAhead ==
  ASSUME candidates \in Seq(Hit), NEW scores \in [DOMAIN candidates -> Relevance]
  PROVE  [i \in DOMAIN candidates |-> Blend(i, scores[i])] \in Ahead
<1> DEFINE b == [i \in DOMAIN candidates |-> Blend(i, scores[i])]
<1>1. DOMAIN candidates = 1..Len(candidates) /\ Len(candidates) \in Nat
  OBVIOUS
<1>2. \A i \in DOMAIN candidates : scores[i] \in 0..Unit /\ i \in Nat \ {0}
  <2>1. Relevance \subseteq 0..Unit
    BY QueryAssumption
  <2>2. \A i \in DOMAIN candidates : scores[i] \in Relevance
    OBVIOUS
  <2>3. \A i \in DOMAIN candidates : i \in Nat \ {0}
    BY <1>1
  <2> HIDE DEF b
  <2> QED
    BY <2>1, <2>2, <2>3, Zenon
<1>3. \A i \in DOMAIN candidates : b[i] = Blend(i, scores[i]) /\ b[i] \in Nat
  BY <1>2, BlendType
<1>4. ASSUME NEW r \in DOMAIN candidates \ {1}
      PROVE  b[1] > b[r]
  <2>1. 1 \in DOMAIN candidates /\ r \in Nat \ {0, 1}
    BY <1>1
  <2>2. Blend(1, scores[1]) > Blend(r, scores[r])
    BY <1>2, <2>1, BlendKeepsTheFirst
  <2> QED
    BY <1>3, <2>1, <2>2
<1>5. b \in [DOMAIN candidates -> Nat] /\ \A r \in DOMAIN candidates : b[r] >= Blend(r, 0)
  BY <1>2, <1>3, BlendType
<1> HIDE DEF b
<1> QED
  BY <1>4, <1>5 DEF Ahead, b

LEMMA RrfOnlyAhead ==
  ASSUME candidates \in Seq(Hit)
  PROVE  RrfOnly \in Ahead
<1>1. DOMAIN candidates = 1..Len(candidates) /\ Len(candidates) \in Nat
  OBVIOUS
<1>2. 0 \in 0..Unit /\ Unit \in Nat /\ Unit > 0
  BY FusionAssumption
<1>3. \A i \in DOMAIN candidates : RrfOnly[i] = PositionScore(i) /\ RrfOnly[i] \in Nat
  BY <1>1, <1>2, BlendType DEF RrfOnly
<1>4. ASSUME NEW r \in DOMAIN candidates \ {1}
      PROVE  RrfOnly[1] > RrfOnly[r]
  <2>1. 1 \in DOMAIN candidates /\ r \in Nat \ {0, 1}
    BY <1>1
  <2>2. Position(r) \in Nat /\ 2 * Position(r) <= Unit
    BY <2>1, PositionFalls
  <2>3. Position(1) = Unit
    BY <1>2 DEF Position
  <2>4. PositionScore(1) = 100 * Unit /\ PositionScore(r) = 100 * Position(r)
    BY <2>3 DEF PositionScore
  <2>5. PositionScore(1) > PositionScore(r)
    BY <1>2, <2>2, <2>4
  <2> QED
    BY <1>3, <2>1, <2>5
<1>5. RrfOnly \in [DOMAIN candidates -> Nat]
  BY <1>3 DEF RrfOnly
<1>6. \A r \in DOMAIN candidates : RrfOnly[r] >= Blend(r, 0)
  BY <1>1, <1>2, <1>3, BlendType
<1> QED
  BY <1>4, <1>5, <1>6 DEF Ahead

Result == [hit : Hit, score : Nat]

\* s has the candidates at the places o, each once.
Drawn(s, o) ==
  /\ s \in Seq(Result)
  /\ o \in [1..Len(s) -> DOMAIN candidates]
  /\ \A i, j \in 1..Len(s) : o[i] = o[j] => i = j
  /\ \A i \in 1..Len(s) : s[i].hit = candidates[o[i]]

\* Nothing before the candidate fused first.
Topped(s, o) == s # <<>> => o[1] = 1

\* Its rank alone scores enough for what is asked for.
Enough(c) == Blend(c, 0) >= request.min

Whole(s, o) ==
  Len(candidates) <= Fetch =>
    \A c \in DOMAIN candidates : Enough(c) => \E i \in 1..Len(s) : o[i] = c

LEMMA FetchType ==
  ASSUME request \in Requests
  PROVE  /\ Fetch \in Nat /\ request.limit \in Nat /\ request.min \in Nat
         /\ request.candidates \in Nat /\ request.scope \in SUBSET Names
         /\ request.typed \in Seq(Type)
<1>1. request \in Request /\ Headroom \in Nat
  BY QueryAssumption
<1>2. /\ request.limit \in Nat /\ request.min \in Nat /\ request.candidates \in Nat
      /\ request.scope \in SUBSET Names /\ request.typed \in Seq(Type)
  BY <1>1 DEF Request
<1>3. Fetch \in Nat
  BY <1>1, <1>2 DEF Fetch
<1> QED
  BY <1>2, <1>3

LEMMA CountOf == ASSUME NEW n \in Nat PROVE Cardinality(1..n) = n
<1>1. Cardinality(1..n) = IF 1 > n THEN 0 ELSE n - 1 + 1
  BY FS_Interval
<1> QED
  BY <1>1

LEMMA ResultOf ==
  ASSUME NEW h \in Hit, NEW s \in Nat, NEW r, r = [hit |-> h, score |-> s]
  PROVE  r \in Result /\ r.hit = h
BY DEF Result

LEMMA ResultsFacts ==
  ASSUME candidates \in Seq(Hit), request \in Requests, NEW score \in Ahead
  PROVE  \E o : /\ Drawn(Results(score), o) /\ Topped(Results(score), o)
                /\ Whole(Results(score), o)
<1> DEFINE ranks == {i \in DOMAIN candidates : score[i] >= request.min}
           before == {p \in ranks \X ranks :
                        \/ score[p[1]] > score[p[2]]
                        \/ score[p[1]] = score[p[2]] /\ p[1] < p[2]}
           order == Ordered(ranks, before)
           n == Cardinality(ranks)
           all == [i \in DOMAIN order |-> [hit |-> candidates[order[i]], score |-> score[order[i]]]]
           R == Results(score)
<1>1. /\ DOMAIN candidates = 1..Len(candidates) /\ Len(candidates) \in Nat
      /\ IsFiniteSet(DOMAIN candidates)
  BY SeqFacts
<1>2. /\ score \in [DOMAIN candidates -> Nat]
      /\ \A r \in DOMAIN candidates \ {1} : score[1] > score[r]
  BY DEF Ahead
<1>3. request.min \in Nat /\ Fetch \in Nat
  BY FetchType
<1>4. ranks \in SUBSET DOMAIN candidates /\ \A i \in ranks : i \in Nat /\ score[i] \in Nat
  BY <1>1, <1>2
<1>5. \A i, j : <<i, j>> \in before <=>
        i \in ranks /\ j \in ranks /\ (score[i] > score[j] \/ (score[i] = score[j] /\ i < j))
  OBVIOUS
<1>6. R = Cut(all, Fetch)
  BY DEF Results
<1>7. \A i \in DOMAIN candidates : i \in ranks <=> score[i] >= request.min
  OBVIOUS
<1> HIDE DEF ranks, before, R
<1>8. IsFiniteSet(ranks)
  BY <1>1, <1>4, FS_Subset
<1>9. StrictOrder(ranks, before)
  BY <1>4, <1>5 DEF StrictOrder
<1>10. /\ DOMAIN order = 1..n /\ n \in Nat /\ order \in Bijection(1..n, ranks)
       /\ \A i, j \in 1..n : i < j => <<order[i], order[j]>> \in before
  BY <1>8, <1>9, OrderedFacts
<1> HIDE DEF order, n
<1>11. /\ \A i \in 1..n : order[i] \in ranks
       /\ \A i, j \in 1..n : order[i] = order[j] => i = j
       /\ \A c \in ranks : \E i \in 1..n : order[i] = c
  BY <1>10 DEF Bijection, Injection, Surjection, IsInjective
<1>12. \A i \in 1..n : /\ all[i] = [hit |-> candidates[order[i]], score |-> score[order[i]]]
                       /\ order[i] \in ranks /\ candidates[order[i]] \in Hit /\ score[order[i]] \in Nat
  <2> SUFFICES ASSUME NEW i \in 1..n
               PROVE  /\ all[i] = [hit |-> candidates[order[i]], score |-> score[order[i]]]
                      /\ order[i] \in ranks /\ candidates[order[i]] \in Hit /\ score[order[i]] \in Nat
    OBVIOUS
  <2>1. order[i] \in ranks /\ order[i] \in DOMAIN candidates
    BY <1>4, <1>11
  <2>2. candidates[order[i]] \in Hit /\ score[order[i]] \in Nat
    BY <1>1, <1>4, <2>1
  <2>3. all[i] = [hit |-> candidates[order[i]], score |-> score[order[i]]]
    BY <1>10
  <2> QED
    BY <2>1, <2>2, <2>3
<1>13. DOMAIN all = 1..n /\ all = [i \in 1..n |-> all[i]]
  <2>1. DOMAIN all = DOMAIN order /\ all = [i \in DOMAIN all |-> all[i]]
    OBVIOUS
  <2>2. DOMAIN order = 1..n
    BY <1>10
  <2> HIDE DEF all
  <2> QED
    BY <2>1, <2>2
<1> HIDE DEF all
<1>14. \A i \in 1..n : all[i] \in Result /\ all[i].hit = candidates[order[i]]
  <2> SUFFICES ASSUME NEW i \in 1..n
               PROVE  all[i] \in Result /\ all[i].hit = candidates[order[i]]
    OBVIOUS
  <2> DEFINE h == candidates[order[i]]
             s == score[order[i]]
             r == all[i]
  <2>1. h \in Hit /\ s \in Nat /\ r = [hit |-> h, score |-> s]
    BY <1>12
  <2> HIDE DEF h, s, r
  <2>2. r \in Result /\ r.hit = h
    BY <2>1, ResultOf
  <2> QED
    BY <2>2 DEF h, r
<1>15. all \in Seq(Result) /\ Len(all) = n
  BY <1>10, <1>13, <1>14
<1> DEFINE m == Len(R)
<1>16. /\ R \in Seq(Result) /\ m = (IF n < Fetch THEN n ELSE Fetch)
       /\ \A i \in DOMAIN R : R[i] = all[i]
  BY <1>3, <1>6, <1>15, CutFacts
<1>17. DOMAIN R = 1..m /\ m \in Nat /\ m <= n
  BY <1>3, <1>10, <1>16
<1>18. \A i \in 1..m : i \in 1..n /\ R[i] = all[i]
  BY <1>10, <1>16, <1>17
<1> HIDE DEF m
<1> DEFINE o == [i \in 1..m |-> order[i]]
<1>19. Drawn(R, o)
  <2>1. o \in [1..m -> DOMAIN candidates]
    BY <1>4, <1>12, <1>18
  <2>2. \A i, j \in 1..m : o[i] = o[j] => i = j
    BY <1>18, <1>11
  <2>3. \A i \in 1..m : R[i].hit = candidates[o[i]]
    BY <1>14, <1>18
  <2> HIDE DEF o
  <2> QED
    BY <1>16, <2>1, <2>2, <2>3 DEF Drawn, m
<1>20. Topped(R, o)
  <2> SUFFICES ASSUME R # <<>> PROVE o[1] = 1
    BY DEF Topped
  <2>1. m # 0
    BY <1>16, <1>17 DEF m
  <2>2. 1 \in 1..m /\ 1 \in 1..n /\ o[1] = order[1]
    BY <1>17, <1>18, <2>1
  <2>3. order[1] \in ranks /\ order[1] \in DOMAIN candidates
    BY <1>4, <1>12, <2>2
  <2>4. CASE order[1] = 1
    BY <2>2, <2>4
  <2>5. CASE order[1] # 1
    <3>1. 1 \in DOMAIN candidates /\ score[1] > score[order[1]] /\ score[1] \in Nat
      BY <1>1, <1>2, <2>3, <2>5
    <3>2. score[order[1]] \in Nat /\ score[order[1]] >= request.min
      BY <1>4, <1>7, <2>3
    <3>3. 1 \in ranks
      BY <1>3, <1>7, <3>1, <3>2
    <3>4. PICK p \in 1..n : order[p] = 1
      BY <1>11, <3>3
    <3>5. 1 < p
      BY <1>10, <2>5, <3>4
    <3>6. <<order[1], 1>> \in before
      BY <1>10, <2>2, <3>4, <3>5
    <3> QED
      BY <1>5, <3>1, <3>2, <3>6
  <2> QED
    BY <2>4, <2>5
<1>21. Whole(R, o)
  <2> SUFFICES ASSUME Len(candidates) <= Fetch, NEW c \in DOMAIN candidates, Enough(c)
               PROVE  \E i \in 1..m : o[i] = c
    BY DEF Whole, m
  <2>1. c \in ranks
    <3>1. score[c] >= Blend(c, 0) /\ score[c] \in Nat
      BY DEF Ahead
    <3>2. Blend(c, 0) \in Nat
      BY <1>1, BlendType, FusionAssumption
    <3> QED
      BY <1>3, <1>7, <3>1, <3>2 DEF Enough
  <2>2. n <= Len(candidates)
    <3>1. Cardinality(DOMAIN candidates) = Len(candidates)
      BY <1>1, CountOf
    <3> QED
      BY <1>1, <1>4, <3>1, FS_Subset DEF n
  <2>3. m = n
    BY <1>1, <1>3, <1>10, <1>16, <2>2
  <2>4. PICK i \in 1..n : order[i] = c
    BY <1>11, <2>1
  <2> QED
    BY <2>3, <2>4
<1> HIDE DEF o
<1> QED
  BY <1>19, <1>20, <1>21 DEF R

\* What is left of the results, in the scope: all of them if nothing was cut.
Kept(s, o) ==
  /\ Drawn(s, o)
  /\ candidates[1][1] \in scope => Topped(s, o)
  /\ \A i \in 1..Len(s) : scope # {} /\ (Single \/ s[i].hit[1] \in scope)

KeptAll(s, o) ==
  Len(candidates) <= Fetch =>
    \A c \in DOMAIN candidates :
      Enough(c) /\ candidates[c][1] \in scope => \E i \in 1..Len(s) : o[i] = c

LEMMA DrawnType ==
  ASSUME NEW s, NEW o, Drawn(s, o)
  PROVE  /\ Len(s) \in Nat /\ DOMAIN s = 1..Len(s) /\ s \in Seq(Result)
         /\ \A i \in 1..Len(s) : o[i] \in DOMAIN candidates /\ s[i].hit = candidates[o[i]]
BY DEF Drawn

LEMMA SelectedKept ==
  ASSUME NEW s, NEW o, Drawn(s, o), Topped(s, o), Whole(s, o), scope # {}, ~Single
  PROVE  \E p : LET r == Select(s, {i \in DOMAIN s : s[i].hit[1] \in scope}) IN
                Kept(r, p) /\ KeptAll(r, p)
<1> DEFINE P == {i \in DOMAIN s : s[i].hit[1] \in scope}
           n == Cardinality(P)
           r == Select(s, P)
<1>1. /\ s \in Seq(Result) /\ o \in [1..Len(s) -> DOMAIN candidates] /\ DOMAIN s = 1..Len(s)
      /\ \A i, j \in 1..Len(s) : o[i] = o[j] => i = j
      /\ \A i \in 1..Len(s) : s[i].hit = candidates[o[i]]
  BY DEF Drawn
<1>2. P \in SUBSET DOMAIN s /\ \A i \in DOMAIN s : i \in P <=> s[i].hit[1] \in scope
  OBVIOUS
<1> HIDE DEF P
<1>3. /\ r \in Seq(Result) /\ Len(r) = n /\ n \in Nat /\ DOMAIN r = 1..n
      /\ \E k \in Bijection(1..n, P) :
           /\ \A i \in 1..n : r[i] = s[k[i]]
           /\ \A i, j \in 1..n : i < j => k[i] < k[j]
  BY <1>1, <1>2, SelectFacts
<1>4. PICK k \in Bijection(1..n, P) : /\ \A i \in 1..n : r[i] = s[k[i]]
                                      /\ \A i, j \in 1..n : i < j => k[i] < k[j]
  BY <1>3
<1>5. /\ \A i \in 1..n : k[i] \in P
      /\ \A i, j \in 1..n : k[i] = k[j] => i = j
      /\ \A c \in P : \E i \in 1..n : k[i] = c
  BY DEF Bijection, Injection, Surjection, IsInjective
<1> HIDE DEF r, n
<1> DEFINE p == [i \in 1..n |-> o[k[i]]]
<1>6. \A i \in 1..n : /\ k[i] \in 1..Len(s) /\ r[i] = s[k[i]] /\ r[i].hit = candidates[p[i]]
                      /\ r[i].hit[1] \in scope /\ p[i] = o[k[i]] /\ p[i] \in DOMAIN candidates
  BY <1>1, <1>2, <1>4, <1>5
<1>7. Drawn(r, p)
  <2>1. p \in [1..n -> DOMAIN candidates]
    BY <1>6
  <2>2. \A i, j \in 1..n : p[i] = p[j] => i = j
    BY <1>1, <1>5, <1>6
  <2> HIDE DEF p
  <2> QED
    BY <1>3, <1>6, <2>1, <2>2 DEF Drawn
<1>8. ASSUME candidates[1][1] \in scope
      PROVE  Topped(r, p)
  <2> SUFFICES ASSUME r # <<>> PROVE p[1] = 1
    BY DEF Topped
  <2>1. n # 0 /\ 1 \in 1..n
    BY <1>3
  <2>2. k[1] \in 1..Len(s) /\ k[1] \in Nat /\ s # <<>> /\ p[1] = o[k[1]]
    BY <1>1, <1>6, <2>1
  <2>3. o[1] = 1
    BY <2>2 DEF Topped
  <2>4. 1 \in 1..Len(s) /\ s[1].hit = candidates[1]
    BY <1>1, <2>2, <2>3
  <2>5. 1 \in P
    BY <1>1, <1>2, <1>8, <2>4
  <2>6. PICK i \in 1..n : k[i] = 1
    BY <1>5, <2>5
  <2>7. i \in Nat /\ (i # 1 => 1 < i)
    BY <1>3, <2>6
  <2>8. i # 1 => k[1] < 1
    BY <1>4, <2>1, <2>6, <2>7
  <2>9. k[1] = 1
    BY <2>2, <2>6, <2>8
  <2> QED
    BY <2>2, <2>3, <2>9
<1>9. KeptAll(r, p)
  <2> SUFFICES ASSUME Len(candidates) <= Fetch, NEW c \in DOMAIN candidates, Enough(c),
                      candidates[c][1] \in scope
               PROVE  \E i \in 1..n : p[i] = c
    BY <1>3 DEF KeptAll
  <2>1. PICK j \in 1..Len(s) : o[j] = c
    BY DEF Whole
  <2>2. j \in P
    BY <1>1, <1>2, <2>1
  <2>3. PICK i \in 1..n : k[i] = j
    BY <1>5, <2>2
  <2> QED
    BY <1>6, <2>1, <2>3
<1>10. Kept(r, p)
  BY <1>3, <1>6, <1>7, <1>8 DEF Kept
<1> HIDE DEF p
<1> QED
  BY <1>9, <1>10 DEF r, P

LEMMA CutKept ==
  ASSUME NEW s, NEW o, Kept(s, o), KeptAll(s, o), NEW n \in Nat
  PROVE  \E p : Kept(Cut(s, n), p) /\ (Len(Cut(s, n)) # n => KeptAll(Cut(s, n), p))
<1> DEFINE r == Cut(s, n)
           m == Len(r)
           p == [i \in 1..m |-> o[i]]
<1>1. /\ s \in Seq(Result) /\ o \in [1..Len(s) -> DOMAIN candidates] /\ DOMAIN s = 1..Len(s)
      /\ Len(s) \in Nat /\ \A i, j \in 1..Len(s) : o[i] = o[j] => i = j
      /\ \A i \in 1..Len(s) : s[i].hit = candidates[o[i]]
      /\ \A i \in 1..Len(s) : scope # {} /\ (Single \/ s[i].hit[1] \in scope)
      /\ candidates[1][1] \in scope => Topped(s, o)
  BY DEF Kept, Drawn
<1>2. /\ r \in Seq(Result) /\ m = (IF Len(s) < n THEN Len(s) ELSE n)
      /\ DOMAIN r \subseteq DOMAIN s /\ \A i \in DOMAIN r : r[i] = s[i]
  BY <1>1, CutFacts
<1> HIDE DEF r
<1>3. m \in Nat /\ DOMAIN r = 1..m
  BY <1>2
<1> HIDE DEF m
<1>4. \A i \in 1..m : i \in 1..Len(s) /\ r[i] = s[i] /\ p[i] = o[i]
  BY <1>1, <1>2, <1>3
<1>5. p \in [1..m -> DOMAIN candidates] /\ \A i, j \in 1..m : p[i] = p[j] => i = j
  BY <1>1, <1>4
<1> HIDE DEF p
<1>6. Drawn(r, p)
  BY <1>1, <1>2, <1>4, <1>5 DEF Drawn, m
<1>7. candidates[1][1] \in scope => Topped(r, p)
  <2> SUFFICES ASSUME candidates[1][1] \in scope, r # <<>> PROVE p[1] = 1
    BY DEF Topped
  <2>1. m # 0
    BY <1>2, <1>3 DEF m
  <2>2. 1 \in 1..m /\ s # <<>>
    BY <1>1, <1>3, <1>4, <2>1
  <2> QED
    BY <1>1, <1>4, <2>2 DEF Topped
<1>8. \A i \in 1..m : scope # {} /\ (Single \/ r[i].hit[1] \in scope)
  BY <1>1, <1>4
<1>9. ASSUME m # n
      PROVE  KeptAll(r, p)
  <2>1. m = Len(s)
    BY <1>2, <1>9
  <2> QED
    BY <1>4, <2>1 DEF KeptAll, m
<1> QED
  BY <1>6, <1>7, <1>8, <1>9 DEF Kept, r, m

\* What an answer consists of, once the candidates are known.
Answered(ans) == \E o : Kept(ans, o) /\ (Len(ans) # request.limit => KeptAll(ans, o))

LEMMA NothingKept ==
  ASSUME scope = {}
  PROVE  \E o : Kept(<<>>, o) /\ KeptAll(<<>>, o)
<1> DEFINE o == [i \in 1..0 |-> 0]
<1>1. <<>> \in Seq(Result) /\ Len(<<>>) = 0 /\ 1..0 = {}
  OBVIOUS
<1>2. o \in [1..0 -> DOMAIN candidates]
  BY <1>1
<1> HIDE DEF o
<1>3. Drawn(<<>>, o)
  BY <1>1, <1>2 DEF Drawn
<1> QED
  BY <1>1, <1>3 DEF Kept, KeptAll, Topped

LEMMA ShownAnswers ==
  ASSUME candidates \in Seq(Hit), request \in Requests, NEW score \in Ahead
  PROVE  Answered(Shown(Results(score)))
<1> DEFINE R == Results(score)
<1>1. PICK o : Drawn(R, o) /\ Topped(R, o) /\ Whole(R, o)
  BY ResultsFacts
<1> HIDE DEF R
<1> DEFINE kept == IF scope = {} THEN <<>> ELSE IF Single THEN R
                   ELSE Select(R, {i \in DOMAIN R : R[i].hit[1] \in scope})
<1>2. Shown(R) = Cut(kept, request.limit)
  BY DEF Shown
<1>3. \E p : Kept(kept, p) /\ KeptAll(kept, p)
  <2>1. CASE scope = {}
    BY <2>1, NothingKept
  <2>2. CASE scope # {} /\ Single
    BY <1>1, <2>2 DEF Kept, KeptAll, Whole
  <2>3. CASE scope # {} /\ ~Single
    BY <1>1, <2>3, SelectedKept
  <2> QED
    BY <2>1, <2>2, <2>3
<1> HIDE DEF kept
<1>4. PICK p : Kept(kept, p) /\ KeptAll(kept, p)
  BY <1>3
<1>5. request.limit \in Nat
  BY FetchType
<1>6. Answered(Cut(kept, request.limit))
  BY <1>4, <1>5, CutKept DEF Answered
<1> QED
  BY <1>2, <1>6 DEF R

-----------------------------------------------------------------------------
(* Types, hits and candidates of a query.                                  *)

\* TypeOK without the answer, and with lists that are sequences.
QueryTypeInv ==
  /\ name \in [Coll -> Names \cup {None}] /\ vectors \in BOOLEAN /\ default \in Defaults
  /\ request \in Requests \cup {None} /\ (pc # "idle" => request \in Requests)
  /\ pc \in Location /\ scope \subseteq Names
  /\ expanded \in Seq(Type) /\ vecQueries \in Seq({"original", "vec", "hyde"})
  /\ lists \in Lists /\ candidates \in Seq(Hit)
  /\ fault \in Fault
  /\ changes \in 0..MaxChanges

\* Undisturbed, hits are under the names of their collections, which are in
\* the scope if a search is restricted to it.
HitsInv ==
  /\ pc \in {"idle", "scope"} => lists = <<>>
  /\ changes = 0 => \A u \in Uris(lists) : /\ u[1] = name[CollOf[u[2]]]
                                           /\ Single => u[1] \in scope

\* Candidates are what was fused, and the answer is made of them.
AnswerInv ==
  /\ pc \in {"rerank", "done"} =>
       candidates = Cut(reciprocal_rank_fusion(lists), request.candidates)
  /\ pc = "done" => Answered(answer)

LEMMA FoundFacts ==
  ASSUME name \in [Coll -> Names \cup {None}], NEW ranking \in Seq(Doc)
  PROVE  /\ Found(ranking) \in Seq(Hit)
         /\ \A u \in ToSet(Found(ranking)) : u[1] = name[CollOf[u[2]]] /\ (Single => u[1] \in scope)
<1> DEFINE P == {i \in DOMAIN ranking : CollOf[ranking[i]] \in Searched}
           s == Select(ranking, P)
           n == Cardinality(P)
           f == Found(ranking)
<1>1. P \in SUBSET DOMAIN ranking /\ \A i \in P : CollOf[ranking[i]] \in Searched
  OBVIOUS
<1>2. f = [i \in DOMAIN s |-> <<name[CollOf[s[i]]], s[i]>>]
  BY DEF Found
<1> HIDE DEF P, f
<1>3. /\ s \in Seq(Doc) /\ DOMAIN s = 1..n /\ n \in Nat
      /\ \E k \in Bijection(1..n, P) : \A i \in 1..n : s[i] = ranking[k[i]]
  BY <1>1, SelectFacts
<1>4. PICK k \in Bijection(1..n, P) : \A i \in 1..n : s[i] = ranking[k[i]]
  BY <1>3
<1>5. \A i \in 1..n : k[i] \in P
  BY DEF Bijection, Injection
<1> HIDE DEF s, n
<1>6. ASSUME NEW i \in 1..n
      PROVE  /\ f[i] = <<name[CollOf[s[i]]], s[i]>> /\ f[i] \in Hit
             /\ Single => name[CollOf[s[i]]] \in scope
  <2>1. s[i] \in Doc /\ CollOf[s[i]] \in Searched
    BY <1>1, <1>3, <1>4, <1>5
  <2>2. name[CollOf[s[i]]] \in Names /\ (Single => name[CollOf[s[i]]] \in scope)
    BY <2>1 DEF Searched, Live
  <2>3. f[i] = <<name[CollOf[s[i]]], s[i]>>
    BY <1>2, <1>3
  <2> QED
    BY <2>1, <2>2, <2>3 DEF Hit
<1>7. DOMAIN f = 1..n /\ f = [i \in 1..n |-> f[i]]
  BY <1>2, <1>3
<1>8. f \in Seq(Hit)
  BY <1>3, <1>6, <1>7
<1>9. ASSUME NEW u \in ToSet(f)
      PROVE  u[1] = name[CollOf[u[2]]] /\ (Single => u[1] \in scope)
  <2>1. DOMAIN f = 1..n
    BY <1>7
  <2>2. ToSet(f) = {f[i] : i \in DOMAIN f}
    BY <1>8, SeqFacts
  <2>3. PICK i \in 1..n : u = f[i]
    BY <1>9, <2>1, <2>2
  <2>4. u = <<name[CollOf[s[i]]], s[i]>> /\ (Single => name[CollOf[s[i]]] \in scope)
    BY <1>6, <2>3
  <2> QED
    BY <2>4
<1> QED
  BY <1>8, <1>9 DEF f

\* A list more, with the hits of one search.
LEMMA ListedFacts ==
  ASSUME QueryTypeInv, NEW ranking \in Rankings \cup {<<>>}, NEW type \in {"original"} \cup Type,
         Listed(type, Found(ranking))
  PROVE  /\ lists' \in Lists
         /\ \A u \in Uris(lists') : u \in Uris(lists) \/ (/\ u[1] = name[CollOf[u[2]]]
                                                          /\ Single => u[1] \in scope)
<1> DEFINE f == Found(ranking)
           l == [type |-> type, hits |-> f]
<1>1. ranking \in Seq(Doc) /\ name \in [Coll -> Names \cup {None}] /\ lists \in Lists
  <2>1. Rankings \subseteq Seq(Doc) /\ <<>> \in Seq(Doc)
    BY QueryAssumption
  <2> QED
    BY <2>1 DEF QueryTypeInv
<1>2. f \in Seq(Hit) /\ \A u \in ToSet(f) : u[1] = name[CollOf[u[2]]] /\ (Single => u[1] \in scope)
  BY <1>1, FoundFacts
<1>3. lists' = IF f = <<>> THEN lists ELSE Append(lists, l)
  BY DEF Listed
<1> HIDE DEF f
<1>4. CASE f = <<>>
  BY <1>1, <1>3, <1>4
<1>5. CASE f # <<>>
  <2>1. l \in [type : {"original"} \cup Type, hits : Seq(Hit) \ {<<>>}] /\ l.hits = f
    BY <1>2, <1>5
  <2> HIDE DEF l
  <2>2. lists' \in Lists
    BY <1>1, <1>3, <1>5, <2>1 DEF Lists
  <2>3. ASSUME NEW u \in Uris(lists')
        PROVE  u \in Uris(lists) \/ u \in ToSet(f)
    <3>1. lists \in Seq([type : {"original"} \cup Type, hits : Seq(Hit) \ {<<>>}])
      BY <1>1 DEF Lists
    <3>2. PICK i \in DOMAIN lists' : u \in ToSet(lists'[i].hits)
      BY DEF Uris
    <3>3. \/ i \in DOMAIN lists /\ lists'[i] = lists[i]
          \/ lists'[i] = l
      BY <1>3, <1>5, <2>1, <3>1
    <3> QED
      BY <2>1, <3>2, <3>3 DEF Uris
  <2> QED
    BY <1>2, <2>2, <2>3
<1> QED
  BY <1>4, <1>5

\* What a step of the query leaves alone, and what a search may add.
Undone == UNCHANGED <<scope, lists>>
Searches ==
  /\ lists' \in Lists /\ UNCHANGED scope
  /\ \A u \in Uris(lists') : u \in Uris(lists) \/ (/\ u[1] = name[CollOf[u[2]]]
                                                   /\ Single => u[1] \in scope)

LEMMA InitTypes == Init => QueryTypeInv /\ HitsInv /\ AnswerInv
<1> SUFFICES ASSUME Init PROVE QueryTypeInv /\ HitsInv /\ AnswerInv
  OBVIOUS
<1>1. /\ Born \in [Coll -> Names] /\ Vectors \subseteq BOOLEAN /\ MaxChanges \in Nat
  BY QueryAssumption
<1>2. \A S : <<>> \in Seq(S)
  OBVIOUS
<1>3. QueryTypeInv
  BY <1>1, <1>2 DEF Init, QueryTypeInv, Location, Lists, Fault
<1>4. Uris(<<>>) = {}
  BY DEF Uris
<1> QED
  BY <1>3, <1>4 DEF Init, HitsInv, AnswerInv

LEMMA SmallSteps ==
  ASSUME QueryTypeInv, ResolveScope \/ EmbedQueries \/ Rerank
  PROVE  QueryTypeInv'
<1>1. /\ UNCHANGED <<name, default, vectors, request, changes, lists, candidates>>
      /\ pc' \in Location /\ pc # "idle" /\ pc' # "idle"
  BY DEF ResolveScope, EmbedQueries, Rerank, At, Goto, index, Location
<1>2. fault' \in Fault
  BY DEF QueryTypeInv, ResolveScope, EmbedQueries, Rerank, Quietly, Fault, Service
<1>3. scope' \subseteq Names /\ expanded' \in Seq(Type) /\ vecQueries' = vecQueries
  <2>1. CASE ResolveScope
    <3>1. request.scope \in SUBSET Names /\ request.typed \in Seq(Type)
      BY <1>1, FetchType DEF QueryTypeInv
    <3>2. {name[c] : c \in default \cap Live} \subseteq Names
      BY DEF QueryTypeInv, Live
    <3> QED
      BY <2>1, <3>1, <3>2 DEF ResolveScope
  <2>2. CASE EmbedQueries \/ Rerank
    BY <2>2 DEF EmbedQueries, Rerank, QueryTypeInv
  <2> QED
    BY <2>1, <2>2
<1> QED
  BY <1>1, <1>2, <1>3 DEF QueryTypeInv

LEMMA AskTypes ==
  ASSUME QueryTypeInv, NEW r \in Requests, Ask(r)
  PROVE  QueryTypeInv'
BY DEF QueryTypeInv, Ask, Goto, Quietly, index, Location

LEMMA ProbeTypes ==
  ASSUME QueryTypeInv, Probe
  PROVE  QueryTypeInv' /\ Searches
<1>1. /\ UNCHANGED <<name, default, vectors, request, changes, candidates, scope, expanded,
                     vecQueries, fault>>
      /\ pc' \in Location /\ pc # "idle" /\ pc' # "idle"
  BY DEF Probe, At, Goto, Quietly, index, Location
<1>2. PICK ranking \in Rankings \cup {<<>>} : Listed("original", Found(ranking))
  BY DEF Probe
<1>3. Searches
  BY <1>1, <1>2, ListedFacts DEF Searches
<1> QED
  BY <1>1, <1>3 DEF QueryTypeInv, Searches

LEMMA ExpandTypes ==
  ASSUME QueryTypeInv, expand_query
  PROVE  QueryTypeInv'
<1>1. /\ UNCHANGED <<name, default, vectors, request, changes, candidates, scope, lists, vecQueries>>
      /\ pc' \in Location /\ pc # "idle" /\ pc' # "idle"
  BY DEF expand_query, At, Goto, index, Location
<1>2. fault' \in Fault
  BY DEF QueryTypeInv, expand_query, Fault, Service
<1>3. /\ <<>> \in Seq(Type) /\ <<"lex", "vec">> \in Seq(Type) /\ Types \in Seq(Type)
  BY DEF Type, Types
<1>4. \A variants \in SUBSET Type :
        Select(Types, {i \in DOMAIN Types : Types[i] \in variants}) \in Seq(Type)
  BY <1>3, SelectFacts
<1>5. expanded' \in Seq(Type)
  BY <1>3, <1>4 DEF expand_query
<1> QED
  BY <1>1, <1>2, <1>5 DEF QueryTypeInv

LEMMA LexTypes ==
  ASSUME QueryTypeInv, SearchLex
  PROVE  QueryTypeInv' /\ (Searches \/ Undone)
<1> DEFINE lex == {i \in DOMAIN expanded : expanded[i] = "lex"}
<1>1. /\ UNCHANGED <<name, default, vectors, request, changes, candidates, scope, fault>>
      /\ pc' \in Location /\ pc # "idle" /\ pc' # "idle"
  BY DEF SearchLex, At, Goto, Quietly, index, Location, QueryTypeInv
<1>2. /\ expanded \in Seq(Type) /\ DOMAIN expanded = 1..Len(expanded) /\ Len(expanded) \in Nat
      /\ vecQueries \in Seq({"original", "vec", "hyde"})
  BY DEF QueryTypeInv
<1>3. CASE lex = {}
  <2>1. /\ vecQueries' = (IF Typed THEN <<>> ELSE <<"original">>) \o expanded
        /\ expanded' = <<>> /\ UNCHANGED lists
    BY <1>3 DEF SearchLex
  <2>2. \A i \in DOMAIN expanded : expanded[i] \in {"original", "vec", "hyde"}
    BY <1>2, <1>3 DEF Type
  <2>3. expanded \in Seq({"original", "vec", "hyde"})
    BY <1>2, <2>2
  <2>4. /\ <<>> \in Seq({"original", "vec", "hyde"}) /\ <<>> \in Seq(Type)
        /\ <<"original">> \in Seq({"original", "vec", "hyde"})
    OBVIOUS
  <2>5. vecQueries' \in Seq({"original", "vec", "hyde"}) /\ expanded' \in Seq(Type)
    <3> DEFINE Q == {"original", "vec", "hyde"}
               first == IF Typed THEN <<>> ELSE <<"original">>
    <3>1. first \in Seq(Q) /\ expanded \in Seq(Q) /\ vecQueries' = first \o expanded
      BY <2>1, <2>3, <2>4
    <3> HIDE DEF Q, first
    <3>2. vecQueries' \in Seq(Q)
      BY <3>1
    <3> QED
      BY <2>1, <2>4, <3>2 DEF Q
  <2> QED
    BY <1>1, <2>1, <2>5 DEF QueryTypeInv, Undone
<1>4. CASE lex # {}
  <2>1. PICK ranking \in Rankings : Listed("lex", Found(ranking))
    BY <1>4 DEF SearchLex
  <2>2. expanded' = RemoveAt(expanded, Min(lex)) /\ UNCHANGED vecQueries
    BY <1>4 DEF SearchLex
  <2>3. lex \in SUBSET Nat /\ lex \in SUBSET DOMAIN expanded
    BY <1>2
  <2> HIDE DEF lex
  <2>4. Min(lex) \in 1..Len(expanded)
    BY <1>2, <1>4, <2>3, LeastOf
  <2>5. expanded' \in Seq(Type)
    BY <1>2, <2>2, <2>4 DEF RemoveAt
  <2>6. "lex" \in {"original"} \cup Type
    BY DEF Type
  <2>7. Searches
    BY <1>1, <2>1, <2>6, ListedFacts DEF Searches
  <2> QED
    BY <1>1, <2>2, <2>5, <2>7 DEF QueryTypeInv, Searches
<1> QED
  BY <1>3, <1>4

LEMMA VecTypes ==
  ASSUME QueryTypeInv, SearchVec
  PROVE  QueryTypeInv' /\ (Searches \/ Undone)
<1>1. /\ UNCHANGED <<name, default, vectors, request, changes, candidates, scope, expanded, fault>>
      /\ pc' \in Location /\ pc # "idle" /\ pc' # "idle"
  BY DEF SearchVec, At, Goto, Quietly, index, Location, QueryTypeInv
<1>2. vecQueries \in Seq({"original", "vec", "hyde"})
  BY DEF QueryTypeInv
<1>3. CASE vecQueries = <<>>
  <2>1. UNCHANGED <<vecQueries, lists>>
    BY <1>3 DEF SearchVec
  <2> QED
    BY <1>1, <2>1 DEF QueryTypeInv, Undone
<1>4. CASE vecQueries # <<>>
  <2>1. PICK ranking \in Rankings : Listed(Head(vecQueries), Found(ranking))
    BY <1>4 DEF SearchVec
  <2>2. vecQueries' = Tail(vecQueries)
    BY <1>4 DEF SearchVec
  <2>3. Head(vecQueries) \in {"original"} \cup Type /\ vecQueries' \in Seq({"original", "vec", "hyde"})
    BY <1>2, <1>4, <2>2 DEF Type
  <2>4. Searches
    BY <1>1, <2>1, <2>3, ListedFacts DEF Searches
  <2> QED
    BY <1>1, <2>3, <2>4 DEF QueryTypeInv, Searches
<1> QED
  BY <1>3, <1>4

LEMMA FuseTypes ==
  ASSUME QueryTypeInv, Fuse
  PROVE  /\ QueryTypeInv' /\ Undone /\ UNCHANGED request
         /\ candidates' = Cut(reciprocal_rank_fusion(lists'), request'.candidates)
<1>1. /\ UNCHANGED <<name, default, vectors, request, changes, lists, scope, expanded, vecQueries,
                     fault>>
      /\ candidates' = Cut(reciprocal_rank_fusion(lists), request.candidates)
      /\ pc' \in Location /\ pc # "idle" /\ pc' # "idle"
  BY DEF Fuse, At, Goto, Quietly, index, Location
<1>2. lists \in Lists /\ request \in Requests
  BY <1>1 DEF QueryTypeInv
<1>3. request.candidates \in Nat /\ reciprocal_rank_fusion(lists) \in Seq(Hit)
  BY <1>2, FetchType, FusionFacts
<1>4. candidates' \in Seq(Hit)
  BY <1>1, <1>3, CutFacts
<1> QED
  BY <1>1, <1>4 DEF QueryTypeInv, Undone

LEMMA ChangeTypes ==
  ASSUME QueryTypeInv,
         \/ \E c \in Coll, n \in Names : RenameCollection(c, n)
         \/ \E c \in Coll : RemoveCollection(c)
  PROVE  QueryTypeInv' /\ changes' # 0 /\ pc \notin {"idle", "done"} /\ (pc' = pc \/ pc' = "failed")
         /\ UNCHANGED <<request, scope, lists, candidates, answer>>
<1>1. /\ UNCHANGED <<request, default, vectors, scope, lists, candidates, answer, expanded, vecQueries>>
      /\ pc \notin {"idle", "done"} /\ (pc' = pc \/ pc' = "failed")
      /\ changes < MaxChanges /\ changes' = changes + 1
      /\ \/ fault' = fault
         \/ fault' = "removed"
  BY DEF RenameCollection, RemoveCollection, Change, Running, Ended, Goto, pipeline
<1>2. name' \in [Coll -> Names \cup {None}]
  BY DEF QueryTypeInv, RenameCollection, RemoveCollection
<1>3. changes' \in 0..MaxChanges /\ changes' # 0
  <2>1. changes \in Nat /\ MaxChanges \in Nat
    BY QueryAssumption DEF QueryTypeInv
  <2> QED
    BY <1>1, <2>1
<1>4. pc' \in Location
  BY <1>1 DEF QueryTypeInv, Location
<1> QED
  BY <1>1, <1>2, <1>3, <1>4 DEF QueryTypeInv, Fault

LEMMA HitsKept ==
  ASSUME QueryTypeInv, HitsInv, pc \notin {"idle", "scope"}, pc' \notin {"idle", "scope"},
         UNCHANGED <<name, changes>>, Searches \/ Undone
  PROVE  HitsInv'
<1>1. scope' = scope /\ Single' = Single
  BY DEF Searches, Undone, Single
<1>2. ASSUME changes = 0, NEW u \in Uris(lists')
      PROVE  u[1] = name[CollOf[u[2]]] /\ (Single => u[1] \in scope)
  BY <1>2 DEF HitsInv, Searches, Undone
<1> QED
  BY <1>1, <1>2 DEF HitsInv

LEMMA StepHits ==
  ASSUME QueryTypeInv, HitsInv, Step
  PROVE  QueryTypeInv' /\ HitsInv'
<1>1. CASE ResolveScope
  <2>1. /\ pc = "scope" /\ pc' \notin {"idle", "scope"} /\ lists' = <<>>
    BY <1>1 DEF ResolveScope, At, Goto, HitsInv
  <2>2. Uris(<<>>) = {}
    BY DEF Uris
  <2> QED
    BY <1>1, <2>1, <2>2, SmallSteps DEF HitsInv
<1>2. CASE EmbedQueries \/ Rerank
  <2>1. pc \notin {"idle", "scope"} /\ pc' \notin {"idle", "scope"} /\ UNCHANGED <<name, changes>> /\ Undone
    BY <1>2 DEF EmbedQueries, Rerank, At, Goto, index, Undone
  <2> QED
    BY <1>2, <2>1, SmallSteps, HitsKept
<1>3. CASE expand_query
  <2>1. pc \notin {"idle", "scope"} /\ pc' \notin {"idle", "scope"} /\ UNCHANGED <<name, changes>> /\ Undone
    BY <1>3 DEF expand_query, At, Goto, index, Undone
  <2> QED
    BY <1>3, <2>1, ExpandTypes, HitsKept
<1>4. CASE Probe \/ SearchLex \/ SearchVec \/ Fuse
  <2>1. pc \notin {"idle", "scope"} /\ pc' \notin {"idle", "scope"} /\ UNCHANGED <<name, changes>>
    BY <1>4 DEF Probe, SearchLex, SearchVec, Fuse, At, Goto, index
  <2> QED
    BY <1>4, <2>1, ProbeTypes, LexTypes, VecTypes, FuseTypes, HitsKept
<1> QED
  BY <1>1, <1>2, <1>3, <1>4 DEF Step

\* Nothing fused is nothing answered.
LEMMA FuseAnswers ==
  ASSUME QueryTypeInv, SurvivesInv, Fuse, candidates' = <<>>
  PROVE  Answered(answer)'
<1> DEFINE o == [i \in 1..0 |-> 0]
<1>1. answer' = <<>>
  BY DEF SurvivesInv, Fuse, At
<1>2. <<>> \in Seq(Result) /\ Len(<<>>) = 0 /\ 1..0 = {} /\ DOMAIN candidates' = {}
  OBVIOUS
<1>3. o \in [1..0 -> DOMAIN candidates']
  BY <1>2
<1> HIDE DEF o
<1>4. Drawn(<<>>, o)'
  BY <1>2, <1>3 DEF Drawn
<1>5. Kept(<<>>, o)' /\ KeptAll(<<>>, o)'
  BY <1>2, <1>4 DEF Kept, KeptAll, Topped
<1> QED
  BY <1>1, <1>5 DEF Answered

\* Whether the reranker answers or not.
LEMMA RerankAnswers ==
  ASSUME QueryTypeInv, Rerank, pc' = "done"
  PROVE  Answered(answer')
<1>1. candidates \in Seq(Hit) /\ request \in Requests
  BY DEF QueryTypeInv, Rerank, At
<1>2. CASE answer' = Shown(Results(RrfOnly))
  BY <1>1, <1>2, RrfOnlyAhead, ShownAnswers
<1>3. ASSUME NEW scores \in [DOMAIN candidates -> Relevance],
             answer' = Shown(Results([i \in DOMAIN candidates |-> Blend(i, scores[i])]))
      PROVE  Answered(answer')
  <2> DEFINE score == [i \in DOMAIN candidates |-> Blend(i, scores[i])]
  <2>1. score \in Ahead
    BY <1>1, BlendsAhead
  <2>2. answer' = Shown(Results(score))
    BY <1>3
  <2> HIDE DEF score
  <2> QED
    BY <1>1, <2>1, <2>2, ShownAnswers
<1> QED
  BY <1>2, <1>3 DEF Rerank, Goto

LEMMA AnsweredStays ==
  ASSUME NEW ans, Answered(ans), UNCHANGED <<candidates, scope, request>>, ans = answer'
  PROVE  Answered(answer)'
<1>1. PICK o : Kept(ans, o) /\ (Len(ans) # request.limit => KeptAll(ans, o))
  BY DEF Answered
<1>2. Drawn(answer, o)' /\ (Topped(ans, o) => Topped(answer, o)')
  BY <1>1 DEF Kept, Drawn, Topped
<1>3. Kept(answer, o)'
  BY <1>1, <1>2 DEF Kept, Single
<1>4. KeptAll(ans, o) => KeptAll(answer, o)'
  BY DEF KeptAll, Enough, Fetch
<1> QED
  BY <1>1, <1>3, <1>4 DEF Answered

LEMMA StepAnswers ==
  ASSUME QueryTypeInv, SurvivesInv, AnswerInv, Step
  PROVE  AnswerInv'
<1>1. CASE pc' \notin {"rerank", "done"}
  BY <1>1 DEF AnswerInv
<1>2. CASE pc' \in {"rerank", "done"} /\ Fuse
  <2>1. candidates' = Cut(reciprocal_rank_fusion(lists'), request'.candidates)
    BY <1>2, FuseTypes
  <2>2. pc' = "done" => candidates' = <<>>
    BY <1>2 DEF Fuse, Goto
  <2> QED
    BY <1>2, <2>1, <2>2, FuseAnswers DEF AnswerInv
<1>3. CASE pc' \in {"rerank", "done"} /\ ~Fuse
  <2>1. Rerank
    BY <1>3 DEF Step, ResolveScope, Probe, expand_query, SearchLex, EmbedQueries, SearchVec, At,
                Goto, Typed
  <2>2. pc = "rerank" /\ UNCHANGED <<candidates, lists, scope, request>>
    BY <2>1 DEF Rerank, At
  <2>3. pc' = "done" => Answered(answer)'
    BY <2>1, <2>2, RerankAnswers, AnsweredStays
  <2> QED
    BY <2>2, <2>3 DEF AnswerInv
<1> QED
  BY <1>1, <1>2, <1>3

QueryInv == SurvivesInv /\ QueryTypeInv /\ HitsInv /\ AnswerInv

LEMMA InitQuery == Init => QueryInv
BY InitSurvives, InitTypes DEF QueryInv

LEMMA NextQuery ==
  ASSUME QueryInv, [Next]_vars
  PROVE  QueryInv'
<1>1. SurvivesInv'
  BY NextSurvives DEF QueryInv
<1>2. CASE Step
  BY <1>1, <1>2, StepHits, StepAnswers DEF QueryInv
<1>3. ASSUME NEW r \in Requests, Ask(r)
      PROVE  QueryInv'
  <2>1. /\ pc = "idle" /\ pc' \in {"refused", "scope"}
        /\ UNCHANGED <<lists, scope, candidates, answer, name, changes>>
    BY <1>3 DEF Ask, Goto, index
  <2>2. lists' = <<>> /\ Uris(<<>>) = {}
    BY <2>1 DEF QueryInv, HitsInv, Uris
  <2>3. HitsInv' /\ AnswerInv'
    BY <2>1, <2>2 DEF HitsInv, AnswerInv
  <2> QED
    BY <1>1, <1>3, <2>3, AskTypes DEF QueryInv
<1>4. CASE \/ \E c \in Coll, n \in Names : RenameCollection(c, n)
           \/ \E c \in Coll : RemoveCollection(c)
  <2>1. /\ QueryTypeInv' /\ changes' # 0 /\ pc \notin {"idle", "done"} /\ (pc' = pc \/ pc' = "failed")
        /\ UNCHANGED <<request, scope, lists, candidates, answer>>
    BY <1>4, ChangeTypes DEF QueryInv
  <2>2. HitsInv' /\ AnswerInv'
    BY <2>1 DEF QueryInv, HitsInv, AnswerInv
  <2> QED
    BY <1>1, <2>1, <2>2 DEF QueryInv
<1>5. CASE UNCHANGED vars
  <2>1. /\ UNCHANGED <<name, default, vectors, request, pc, scope, expanded, vecQueries, lists,
                       candidates, answer, fault, changes>>
    BY <1>5 DEF vars, index, pipeline
  <2>2. QueryTypeInv'
    BY <2>1 DEF QueryInv, QueryTypeInv
  <2>3. HitsInv'
    BY <2>1 DEF QueryInv, HitsInv, Single
  <2>4. pc = "done" => Answered(answer)'
    BY <2>1, AnsweredStays DEF QueryInv, AnswerInv
  <2>5. AnswerInv'
    BY <2>1, <2>4 DEF QueryInv, AnswerInv
  <2> QED
    BY <1>1, <2>2, <2>3, <2>5 DEF QueryInv
<1> QED
  BY <1>2, <1>3, <1>4, <1>5 DEF Next

LEMMA QueryAlways == Spec => []QueryInv
<1>1. Init => QueryInv
  BY InitQuery
<1>2. QueryInv /\ [Next]_vars => QueryInv'
  BY NextQuery
<1> QED
  BY <1>1, <1>2, PTL DEF Spec

-----------------------------------------------------------------------------
(* What holds of every query.                                              *)

LEMMA QueryInvTypes == QueryInv => TypeOK
<1> SUFFICES ASSUME QueryInv PROVE TypeOK
  OBVIOUS
<1>1. \A i \in 1..Len(lists) : /\ lists[i].type \in {"original"} \cup Type
                               /\ lists[i].hits \in Seq(Hit) \ {<<>>}
  <2> DEFINE L == [type : {"original"} \cup Type, hits : Seq(Hit) \ {<<>>}]
  <2>1. lists \in Seq(L)
    BY DEF QueryInv, QueryTypeInv, Lists
  <2> HIDE DEF L
  <2>2. \A i \in 1..Len(lists) : lists[i] \in L
    BY <2>1
  <2> QED
    BY <2>2 DEF L
<1>2. \A i \in 1..Len(answer) : answer[i].hit \in ToSet(candidates)
  <2>1. CASE pc # "done"
    <3>1. answer = <<>>
      BY <2>1 DEF QueryInv, SurvivesInv
    <3> QED
      BY <3>1
  <2>2. CASE pc = "done"
    <3>1. PICK o : Drawn(answer, o)
      BY <2>2 DEF QueryInv, AnswerInv, Answered, Kept
    <3>2. \A i \in 1..Len(answer) : o[i] \in DOMAIN candidates /\ answer[i].hit = candidates[o[i]]
      BY <3>1, DrawnType
    <3> QED
      BY <3>2 DEF ToSet
  <2> QED
    BY <2>1, <2>2
<1>3. calls \in [Service -> 0..1]
  <2>1. calls \in [Service -> Nat] /\ \A s \in Service : calls[s] <= 1
    BY DEF QueryInv, SurvivesInv
  <2>2. \A s \in Service : calls[s] \in 0..1
    BY <2>1
  <2> QED
    BY <2>1, <2>2
<1> QED
  BY <1>1, <1>2, <1>3 DEF QueryInv, QueryTypeInv, TypeOK

LEMMA QueryInvFuses == QueryInv => FusionRespectsTheLists
<1> SUFFICES ASSUME QueryInv, Fused, NEW i \in 1..Len(candidates), NEW j \in 1..Len(candidates),
                    i < j, Outranks(candidates[j], candidates[i])
             PROVE  FALSE
  BY DEF FusionRespectsTheLists
<1> DEFINE s == reciprocal_rank_fusion(lists)
           n == Cardinality(Uris(lists))
           u == candidates[j]
           v == candidates[i]
<1>1. lists \in Lists /\ request \in Requests /\ candidates = Cut(s, request.candidates)
  BY DEF QueryInv, QueryTypeInv, AnswerInv, Fused
<1>2. /\ s \in Seq(Hit) /\ Len(s) = n /\ n \in Nat /\ s \in Bijection(1..n, Uris(lists))
      /\ \A p, q \in 1..n : p < q => <<s[p], s[q]>> \in FusedBefore(lists)
  BY <1>1, FusionFacts
<1>3. request.candidates \in Nat
  BY <1>1, FetchType
<1> HIDE DEF s, n
<1>4. \A p \in DOMAIN candidates : p \in DOMAIN s /\ candidates[p] = s[p]
  BY <1>1, <1>2, <1>3, CutFacts
<1>5. DOMAIN s = 1..n /\ DOMAIN candidates = 1..Len(candidates)
  BY <1>2 DEF QueryInv, QueryTypeInv
<1>6. i \in 1..n /\ j \in 1..n /\ v = s[i] /\ u = s[j]
  BY <1>4, <1>5
<1>7. u \in Uris(lists) /\ v \in Uris(lists)
  BY <1>2, <1>6 DEF Bijection, Injection
<1>8. <<v, u>> \in FusedBefore(lists)
  BY <1>2, <1>6
<1>9. AllBefore(lists, u, v)
  <2>1. DOMAIN lists = 1..Len(lists)
    BY <1>1 DEF Lists
  <2> QED
    BY <2>1 DEF AllBefore, Outranks
<1> QED
  BY <1>1, <1>7, <1>8, <1>9, FusionAgrees

LEMMA QueryInvTops == QueryInv => TopStays
<1> SUFFICES ASSUME QueryInv, pc = "done", answer # <<>>, candidates[1][1] \in scope
             PROVE  answer[1].hit = candidates[1]
  BY DEF TopStays
<1>1. PICK o : Kept(answer, o)
  BY DEF QueryInv, AnswerInv, Answered
<1>2. Drawn(answer, o) /\ o[1] = 1
  BY <1>1 DEF Kept, Topped
<1>3. Len(answer) \in Nat /\ Len(answer) # 0
  BY <1>2 DEF Drawn
<1>4. 1 \in 1..Len(answer)
  BY <1>3
<1> QED
  BY <1>2, <1>4 DEF Drawn

LEMMA CountOfBijection ==
  ASSUME NEW n \in Nat, NEW T, NEW f \in Bijection(1..n, T)
  PROVE  IsFiniteSet(T) /\ Cardinality(T) = n
<1>1. IsFiniteSet(1..n) /\ Cardinality(1..n) = n
  BY FS_Interval, CountOf
<1> QED
  BY <1>1, FS_Bijection DEF ExistsBijection

\* Undisturbed, there are as many documents as hits.
LEMMA HitsAreDocs ==
  ASSUME QueryInv, changes = 0
  PROVE  /\ FoundDocs = {u[2] : u \in Uris(lists)}
         /\ \A u, v \in Uris(lists) : u[2] = v[2] => u = v
         /\ Cardinality(FoundDocs) = Cardinality(Uris(lists))
<1> DEFINE U == Uris(lists)
           F == [u \in U |-> u[2]]
<1>1. lists \in Lists /\ DOMAIN lists = 1..Len(lists)
  BY DEF QueryInv, QueryTypeInv, Lists
<1>2. FoundDocs = {u[2] : u \in U}
  <2>1. \A d : d \in FoundDocs <=> \E i \in DOMAIN lists : \E u \in ToSet(lists[i].hits) : d = u[2]
    BY <1>1 DEF FoundDocs
  <2>2. \A u : u \in U <=> \E i \in DOMAIN lists : u \in ToSet(lists[i].hits)
    BY DEF Uris
  <2> HIDE DEF U
  <2>3. \A d : d \in FoundDocs <=> \E u \in U : d = u[2]
    BY <2>1, <2>2
  <2> QED
    BY <2>3
<1>3. IsFiniteSet(U) /\ U \subseteq Hit
  BY <1>1, UrisFacts
<1>4. \A u \in U : u[1] = name[CollOf[u[2]]]
  BY DEF QueryInv, HitsInv
<1>5. \A u \in U : u = <<u[1], u[2]>>
  BY <1>3 DEF Hit
<1> HIDE DEF U
<1>6. \A u, v \in U : u[2] = v[2] => u = v
  <2> SUFFICES ASSUME NEW u \in U, NEW v \in U, u[2] = v[2] PROVE u = v
    OBVIOUS
  <2>1. u[1] = v[1]
    BY <1>4
  <2> QED
    BY <1>5, <2>1
<1>7. F \in Bijection(U, FoundDocs)
  BY <1>2, <1>6 DEF Bijection, Injection, Surjection, IsInjective
<1> HIDE DEF F
<1>8. Cardinality(FoundDocs) = Cardinality(U)
  BY <1>3, <1>7, FS_Bijection DEF ExistsBijection
<1> QED
  BY <1>2, <1>6, <1>8 DEF U

LEMMA CandidateFacts ==
  ASSUME QueryInv, pc = "done"
  PROVE  /\ candidates \in Seq(Hit) /\ request \in Requests
         /\ \A i \in DOMAIN candidates : candidates[i] \in Uris(lists)
         /\ \A i, j \in DOMAIN candidates : candidates[i] = candidates[j] => i = j
         /\ Len(candidates) <= Cardinality(Uris(lists)) /\ Cardinality(Uris(lists)) \in Nat
         /\ Cardinality(Uris(lists)) <= request.candidates =>
              \A u \in Uris(lists) : \E i \in DOMAIN candidates : candidates[i] = u
<1> DEFINE s == reciprocal_rank_fusion(lists)
           n == Cardinality(Uris(lists))
<1>1. /\ lists \in Lists /\ request \in Requests /\ candidates = Cut(s, request.candidates)
      /\ candidates \in Seq(Hit)
  BY DEF QueryInv, QueryTypeInv, AnswerInv
<1>2. s \in Seq(Hit) /\ Len(s) = n /\ n \in Nat /\ s \in Bijection(1..n, Uris(lists))
  BY <1>1, FusionFacts
<1>3. request.candidates \in Nat
  BY <1>1, FetchType
<1> HIDE DEF s, n
<1>4. /\ \A i \in DOMAIN candidates : i \in DOMAIN s /\ candidates[i] = s[i]
      /\ Len(candidates) = IF n < request.candidates THEN n ELSE request.candidates
  BY <1>1, <1>2, <1>3, CutFacts
<1>5. DOMAIN s = 1..n /\ DOMAIN candidates = 1..Len(candidates)
  BY <1>1, <1>2
<1>6. /\ \A i \in 1..n : s[i] \in Uris(lists)
      /\ \A i, j \in 1..n : s[i] = s[j] => i = j
      /\ \A u \in Uris(lists) : \E i \in 1..n : s[i] = u
  BY <1>2 DEF Bijection, Injection, Surjection, IsInjective
<1>7. \A i \in DOMAIN candidates : candidates[i] \in Uris(lists)
  BY <1>4, <1>5, <1>6
<1>8. \A i, j \in DOMAIN candidates : candidates[i] = candidates[j] => i = j
  BY <1>4, <1>5, <1>6
<1>9. Len(candidates) <= n
  BY <1>2, <1>3, <1>4
<1>10. ASSUME n <= request.candidates, NEW u \in Uris(lists)
       PROVE  \E i \in DOMAIN candidates : candidates[i] = u
  <2>1. Len(candidates) = n
    BY <1>2, <1>3, <1>4, <1>10
  <2>2. PICK i \in 1..n : s[i] = u
    BY <1>6
  <2> QED
    BY <1>4, <1>5, <2>1, <2>2
<1> QED
  BY <1>1, <1>2, <1>7, <1>8, <1>9, <1>10 DEF n

LEMMA QueryInvFinds == QueryInv => AnswerIsWhatWasFound
<1> SUFFICES ASSUME QueryInv, pc = "done", changes = 0
             PROVE  LET mine == {d \in FoundDocs : name[CollOf[d]] \in scope} IN
                    /\ AnswerDocs \subseteq mine
                    /\ Len(answer) = Cardinality(AnswerDocs)
                    /\ \A d \in mine \ AnswerDocs :
                         \/ Cardinality(FoundDocs) > request.candidates
                         \/ Len(answer) = request.limit
                         \/ Cardinality(FoundDocs) > Fetch
                         \/ TooLow(d)
  BY DEF AnswerIsWhatWasFound, Undisturbed
<1> DEFINE U == Uris(lists)
           mine == {d \in FoundDocs : name[CollOf[d]] \in scope}
           n == Len(answer)
<1>1. /\ candidates \in Seq(Hit) /\ request \in Requests
      /\ \A i \in DOMAIN candidates : candidates[i] \in U
      /\ \A i, j \in DOMAIN candidates : candidates[i] = candidates[j] => i = j
      /\ Len(candidates) <= Cardinality(U) /\ Cardinality(U) \in Nat
      /\ Cardinality(U) <= request.candidates =>
           \A u \in U : \E i \in DOMAIN candidates : candidates[i] = u
  BY CandidateFacts
<1>2. /\ FoundDocs = {u[2] : u \in U} /\ Cardinality(FoundDocs) = Cardinality(U)
      /\ \A u, v \in U : u[2] = v[2] => u = v
  BY HitsAreDocs
<1>3. \A u \in U : u[1] = name[CollOf[u[2]]] /\ (Single => u[1] \in scope)
  BY DEF QueryInv, HitsInv
<1>4. PICK o : Kept(answer, o) /\ (n # request.limit => KeptAll(answer, o))
  BY DEF QueryInv, AnswerInv, Answered
<1>5. Drawn(answer, o)
  BY <1>4 DEF Kept
<1>6. /\ n \in Nat /\ DOMAIN answer = 1..n /\ answer \in Seq(Result)
      /\ \A i \in 1..n : o[i] \in DOMAIN candidates /\ answer[i].hit = candidates[o[i]]
      /\ \A i, j \in 1..n : o[i] = o[j] => i = j
  BY <1>5, DrawnType DEF Drawn
<1>7. \A i \in 1..n : Single \/ answer[i].hit[1] \in scope
  BY <1>4 DEF Kept
<1>8. \A d : d \in AnswerDocs <=> \E i \in 1..n : d = answer[i].hit[2]
  <2>1. ToSet(answer) = {answer[i] : i \in 1..n}
    BY <1>6 DEF ToSet
  <2> QED
    BY <2>1 DEF AnswerDocs
<1> HIDE DEF U, n
<1>9. \A i \in 1..n : answer[i].hit \in U
  BY <1>1, <1>6
<1>10. AnswerDocs \subseteq mine
  <2> SUFFICES ASSUME NEW d \in AnswerDocs PROVE d \in mine
    OBVIOUS
  <2>1. PICK i \in 1..n : d = answer[i].hit[2]
    BY <1>8
  <2> DEFINE u == answer[i].hit
  <2>2. u \in U /\ d = u[2] /\ (Single \/ u[1] \in scope)
    BY <1>7, <1>9, <2>1
  <2> HIDE DEF u
  <2>3. d \in FoundDocs /\ name[CollOf[d]] \in scope
    BY <1>2, <1>3, <2>2
  <2> QED
    BY <2>3
<1>11. n = Cardinality(AnswerDocs)
  <2> DEFINE g == [i \in 1..n |-> answer[i].hit[2]]
  <2>1. \A i, j \in 1..n : g[i] = g[j] => i = j
    <3> SUFFICES ASSUME NEW i \in 1..n, NEW j \in 1..n, answer[i].hit[2] = answer[j].hit[2]
                 PROVE  i = j
      OBVIOUS
    <3>1. answer[i].hit = answer[j].hit
      BY <1>2, <1>9
    <3>2. candidates[o[i]] = candidates[o[j]]
      BY <1>6, <3>1
    <3> QED
      BY <1>1, <1>6, <3>2
  <2>2. /\ \A i \in 1..n : g[i] \in AnswerDocs
        /\ \A d \in AnswerDocs : \E i \in 1..n : g[i] = d
    BY <1>8
  <2>3. DOMAIN g = 1..n /\ g = [i \in 1..n |-> g[i]]
    OBVIOUS
  <2> HIDE DEF g
  <2>4. g \in Bijection(1..n, AnswerDocs)
    BY <2>1, <2>2, <2>3 DEF Bijection, Injection, Surjection, IsInjective
  <2> QED
    BY <1>6, <2>4, CountOfBijection
<1>12. ASSUME ~(Cardinality(FoundDocs) > request.candidates), n # request.limit,
              ~(Cardinality(FoundDocs) > Fetch), NEW d \in mine, ~TooLow(d)
       PROVE  d \in AnswerDocs
  <2>1. /\ request.candidates \in Nat /\ Fetch \in Nat /\ request.min \in Nat
    BY <1>1, FetchType
  <2>2. Cardinality(U) <= request.candidates /\ Cardinality(U) <= Fetch
    BY <1>1, <1>2, <1>12, <2>1
  <2>3. d \in FoundDocs /\ name[CollOf[d]] \in scope
    BY <1>12
  <2>4. PICK u \in U : d = u[2]
    BY <1>2, <2>3
  <2>5. PICK c \in DOMAIN candidates : candidates[c] = u
    BY <1>1, <2>2
  <2>6. candidates[c][1] \in scope
    BY <1>3, <2>3, <2>4, <2>5
  <2>7. Len(candidates) \in Nat /\ Len(candidates) <= Fetch
    BY <1>1, <2>1, <2>2
  <2>8. Enough(c)
    <3>1. c \in Nat \ {0} /\ 0 \in 0..Unit
      BY <1>1, FusionAssumption
    <3>2. Blend(c, 0) \in Nat
      BY <3>1, BlendType
    <3> QED
      BY <1>12, <2>1, <2>4, <2>5, <3>2 DEF TooLow, Enough
  <2>9. PICK i \in 1..n : o[i] = c
    BY <1>4, <1>12, <2>5, <2>6, <2>7, <2>8 DEF KeptAll, n
  <2> QED
    BY <1>6, <1>8, <2>4, <2>5, <2>9
<1> HIDE DEF mine
<1>13. \A d \in mine \ AnswerDocs : \/ Cardinality(FoundDocs) > request.candidates
                                   \/ n = request.limit
                                   \/ Cardinality(FoundDocs) > Fetch
                                   \/ TooLow(d)
  BY <1>12
<1> QED
  BY <1>10, <1>11, <1>13 DEF mine, n

\* Every variable of a query keeps its type, and an answer consists of
\* candidates, whatever is searched, whatever fails and whatever changes.
THEOREM QueryTypeCorrect == Spec => []TypeOK
BY QueryAlways, QueryInvTypes, PTL

\* An answered query shows every document its searches found in the
\* collections asked for, once, and nothing else, unless the number of
\* candidates or the limit cut it, or its fused rank alone scores too low
\* (search/hybrid.py, cli/commands/query.py, mcp/server.py): for any number of
\* documents, any rankings and any scores of the reranker in 0..1, which may fail.
THEOREM QueryAnswersWhatWasFound == Spec => []AnswerIsWhatWasFound
BY QueryAlways, QueryInvFinds, PTL

\* What every list with it agrees on is never turned round by fusion, whatever
\* the lists, the weights and the bonuses (reciprocal_rank_fusion).
THEOREM QueryFusionRespectsTheLists == Spec => []FusionRespectsTheLists
BY QueryAlways, QueryInvFuses, PTL

\* Whatever scores between 0 and 1 the reranker gives, the document fused first
\* stays first, if it is in scope and the answer is not empty (the weights of
\* the blend).
THEOREM QueryTopStays == Spec => []TopStays
BY QueryAlways, QueryInvTops, PTL
=============================================================================
