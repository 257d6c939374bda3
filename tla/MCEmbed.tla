------------------------------ MODULE MCEmbed ------------------------------
(* Embed over two collections, for two models.                                *)
EXTENDS Embed

CONSTANTS p1, p2, a, b, h1, h2

\* One body at two paths has two titles, unless it has a heading.
TwoFiles == {<<a, 1>>, <<b, 2>>}

Small == <<"A", "-", "1">>
Large == <<"a", "/", "-", "2">>
TwoModels == {Small, Large}

\* Two names for models that differ in their punctuation.
Dotted == <<"a", ".", "1">>
AlikeModels == {Small, Dotted}

OwnDimension == [m \in {Small, Large} |-> Len(m)]
AlikeDimension == [m \in AlikeModels |-> 3]

=============================================================================
