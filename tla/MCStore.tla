------------------------------ MODULE MCStore ------------------------------
(* Store with two processes, over one or two collections.                     *)
EXTENDS Store, TLC

CONSTANTS p1, p2, a, b, h1, h2

\* One file per collection: enough for two commands to trade bodies.
OneFileEach == {<<a, 1>>, <<b, 1>>}
\* Two files in one collection: commands with work half done.
TwoFiles == {<<a, 1>>, <<a, 2>>}

Symmetric ==
  Permutations({p1, p2}) \cup Permutations({h1, h2}) \cup Permutations({a, b})
SymmetricBodies == Permutations({h1, h2})
SymmetricProcs == Permutations({p1, p2})

=============================================================================
