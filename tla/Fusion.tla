------------------------------- MODULE Fusion -------------------------------
(***************************************************************************)
(* The arithmetic of a hybrid query (search/hybrid.py): reciprocal rank    *)
(* fusion and the blend with the reranker's scores.  Scores are integers:  *)
(* Scale stands for 1 in a fused score, Unit for 1 in a reranked one, and  *)
(* both are multiples of everything they are divided by, so that no        *)
(* division rounds.                                                        *)
(***************************************************************************)
EXTENDS Naturals, SequencesExt, FiniteSetsExt

CONSTANTS
  Scale, Unit,
  Top, Mid,   \* ranks up to which the fused rank weighs most, and much: 3, 10
  MaxRank     \* the longest list

ASSUME FusionAssumption ==
  /\ Scale \in Nat /\ Unit \in Nat \ {0} /\ MaxRank \in Nat
  /\ Top \in Nat \ {0} /\ Mid \in Nat \ {0, 1} /\ Top <= Mid
  /\ \A r \in 1..MaxRank : Unit % r = 0 /\ Scale % (60 + r) = 0

-----------------------------------------------------------------------------
(* Sequences.                                                              *)

\* A finite set in the order of a relation, and the entries of a sequence at
\* some positions, in order.
Ordered(S, before) ==
  [i \in 1..Cardinality(S) |->
     CHOOSE e \in S : Cardinality({d \in S : <<d, e>> \in before}) = i - 1]
Less(P) == {p \in P \X P : p[1] < p[2]}
Select(s, P) == LET k == Ordered(P, Less(P)) IN [i \in DOMAIN k |-> s[k[i]]]

Cut(s, n) == SubSeq(s, 1, IF Len(s) < n THEN Len(s) ELSE n)

Total(c) ==
  LET sum[i \in 0..Len(c)] == IF i = 0 THEN 0 ELSE sum[i - 1] + c[i] IN sum[Len(c)]

-----------------------------------------------------------------------------
(* Fusion.  A list is [type, hits], its hits being the best first; ranks   *)
(* begin with 1 here and with 0 in the code.                               *)

hybrid_rrf_weights(type) == IF type = "original" THEN 2 ELSE 1

Listing(lists, u) == {i \in DOMAIN lists : u \in ToSet(lists[i].hits)}
Rank(l, u) == Min({i \in DOMAIN l.hits : l.hits[i] = u})
BestRank(lists, u) == Min({Rank(lists[i], u) : i \in Listing(lists, u)})

Bonus(rank) == IF rank = 1 THEN Scale \div 20 ELSE IF rank <= 3 THEN Scale \div 50 ELSE 0

\* Bug: the deeper in a list, the larger its contribution.
ContributionGrows(weight, rank) == weight * (Scale \div (60 - rank))
Contribution(weight, rank) == weight * (Scale \div (60 + rank))

\* What each list contributes, and all of them together.
Contributions(lists, u) ==
  [i \in DOMAIN lists |->
     IF i \notin Listing(lists, u) THEN 0
     ELSE Contribution(hybrid_rrf_weights(lists[i].type), Rank(lists[i], u))]
FusedScore(lists, u) == Total(Contributions(lists, u)) + Bonus(BestRank(lists, u))

\* Equal scores stay in the order of the first appearance.
FirstSeen(lists, u, v) ==
  LET i == Min(Listing(lists, u))
      j == Min(Listing(lists, v)) IN
  \/ i < j
  \/ i = j /\ Rank(lists[i], u) < Rank(lists[i], v)

Uris(lists) == UNION {ToSet(lists[i].hits) : i \in DOMAIN lists}
\* Which hit of a pair is fused before the other.
FusedBefore(lists) ==
  LET score == [u \in Uris(lists) |-> FusedScore(lists, u)] IN
  {p \in Uris(lists) \X Uris(lists) :
     \/ score[p[1]] > score[p[2]]
     \/ score[p[1]] = score[p[2]] /\ FirstSeen(lists, p[1], p[2])}

reciprocal_rank_fusion(lists) == Ordered(Uris(lists), FusedBefore(lists))

-----------------------------------------------------------------------------
(* The blend.                                                              *)

\* Bug: the weights are given out the wrong way round.
WeightTurned(rank) == IF rank <= Top THEN 40 ELSE IF rank <= Mid THEN 60 ELSE 75
\* The weight of the fused rank, in hundredths.
Weight(rank) == IF rank <= Top THEN 75 ELSE IF rank <= Mid THEN 60 ELSE 40

Position(rank) == Unit \div rank

\* Hundredths of a Unit, as Blend has them.
PositionScore(rank) == 100 * Position(rank)
Blend(rank, rerank) == Weight(rank) * Position(rank) + (100 - Weight(rank)) * rerank
=============================================================================
