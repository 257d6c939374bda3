------------------------------ MODULE Catalog ------------------------------
(***************************************************************************)
(* What marq's index promises its readers, whoever writes it and whatever  *)
(* else runs: a path of a collection shows a body its file has had, or     *)
(* nothing; a command changes the paths of one collection, all at once;    *)
(* `cleanup`, failures, crashes and deadlocks change nothing; a removed    *)
(* collection shows nothing, and never comes back.                         *)
(***************************************************************************)
CONSTANTS Coll, File, Hash, None

VARIABLES disk, held, cstate, idx

vars == <<disk, held, cstate, idx>>

Owner(f) == f[1]

Init ==
  /\ disk \in [File -> Hash \cup {None}]
  /\ held = [f \in File |-> {disk[f]}]
  /\ cstate \in [Coll -> {"unused", "live"}]
  /\ idx \in [File -> Hash \cup {None}]
  /\ \A f \in File : idx[f] # None => cstate[Owner(f)] = "live"

Edit(f, v) ==
  /\ disk' = [disk EXCEPT ![f] = v]
  /\ held' = [held EXCEPT ![f] = @ \cup {v}]
  /\ UNCHANGED <<cstate, idx>>

Create(c) ==
  /\ cstate[c] = "unused"
  /\ cstate' = [cstate EXCEPT ![c] = "live"]
  /\ UNCHANGED <<disk, held, idx>>

\* A reindex of c takes effect: a path it changes gets a value its file has
\* had since the beginning, None for a file that was not there.
Publish(c) ==
  /\ cstate[c] = "live"
  /\ idx' \in [File -> Hash \cup {None}]
  /\ \A f \in File : idx'[f] # idx[f] => Owner(f) = c /\ idx'[f] \in held[f]
  /\ UNCHANGED <<disk, held, cstate>>

Retire(c) ==
  /\ cstate[c] = "live"
  /\ cstate' = [cstate EXCEPT ![c] = "removed"]
  /\ idx' = [f \in File |-> IF Owner(f) = c THEN None ELSE idx[f]]
  /\ UNCHANGED <<disk, held>>

Next ==
  \/ \E f \in File, v \in Hash \cup {None} : Edit(f, v)
  \/ \E c \in Coll : Create(c) \/ Publish(c) \/ Retire(c)

Spec == Init /\ [][Next]_vars

=============================================================================
