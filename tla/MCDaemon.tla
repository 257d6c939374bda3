------------------------------ MODULE MCDaemon ------------------------------
(* Daemon over a few terminals and pids.                                     *)
EXTENDS Daemon, TLC

Symmetric == Permutations(Terminal) \cup Permutations(Pid)

=============================================================================
