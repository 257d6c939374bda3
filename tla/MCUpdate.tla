------------------------------ MODULE MCUpdate ------------------------------
(* Update over a few collections.                                            *)
EXTENDS Update

CONSTANTS old, new

=============================================================================
