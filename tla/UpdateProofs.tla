---------------------------- MODULE UpdateProofs ----------------------------
(***************************************************************************)
(* Proofs about the loop of `marq update` (Update.tla), for any number of  *)
(* collections, any trees and any number of changes by other processes.    *)
(***************************************************************************)
EXTENDS Update, TLAPS

\* What the loop maintains, collection by collection: it is accounted for in
\* one place, and the one under way is not to come to again.
PlaceInv(n) ==
  /\ n \in failures => n \notin reindexed /\ n \notin todo /\ n # row
  /\ n \in reindexed => n \notin todo /\ n # row
  /\ n = row => n \notin todo
  /\ pc # "idle" =>
       (n \in listed <=> n \in failures \/ n \in reindexed \/ n \in todo \/ n = row)
LoopInv == \A n \in Name : PlaceInv(n)

\* While nobody interferes, the run is about all collections, and those it has
\* reindexed are as on disk.
QuietInv ==
  quiet /\ pc # "idle" =>
    listed = registered /\ \A n \in reindexed : index[n] = tree[n]

-----------------------------------------------------------------------------
(* Types.                                                                  *)

LEMMA InitType == Init => TypeOK
BY UpdateAssumption DEF Init, TypeOK, Files

\* Files and names are rearranged, and never invented, by every step.
LEMMA NextType == TypeOK /\ [Next]_vars => TypeOK'
<1> SUFFICES ASSUME TypeOK, [Next]_vars PROVE TypeOK'
  OBVIOUS
<1> USE UpdateAssumption DEF Files
<1>1. CASE Begin
  BY <1>1 DEF Begin, TypeOK, shared
<1>2. ASSUME NEW n \in Name, Take(n) PROVE TypeOK'
  BY <1>2 DEF Take, Abort, TypeOK, shared
<1>3. ASSUME NEW t \in Files, CommandTimesOut(t) PROVE TypeOK'
  BY <1>3 DEF CommandTimesOut, Fail, AfterFailure, Noted, TypeOK
<1>4. CASE ReindexSucceeds
  BY <1>4 DEF ReindexSucceeds, Synced, TypeOK
<1>5. CASE ReindexFails
  BY <1>5 DEF ReindexFails, TypeOK, shared
<1>6. CASE ReindexFindsNothing
  BY <1>6 DEF ReindexFindsNothing, Abort, TypeOK, shared
<1>7. CASE Finish
  BY <1>7 DEF Finish, TypeOK, shared
<1>8. ASSUME NEW t \in Files, CommandSucceeds(t) PROVE TypeOK'
  BY <1>8 DEF CommandSucceeds, TypeOK
<1>9. ASSUME NEW t \in Files, CommandFails(t) PROVE TypeOK'
  BY <1>9 DEF CommandFails, Fail, AfterFailure, Noted, TypeOK
<1>10. CASE CommandGarbles
  BY <1>10 DEF CommandGarbles, Abort, TypeOK, shared
<1>11. CASE Killed
  BY <1>11 DEF Killed, TypeOK, shared
<1>12. ASSUME Elsewhere
       PROVE  /\ quiet' \in BOOLEAN /\ changes' \in Nat
              /\ UNCHANGED <<pc, todo, row, listed, failures, reindexed, exit>>
  <2>1. quiet' \in BOOLEAN
    BY <1>12, Zenon DEF Elsewhere
  <2>2. changes' \in Nat
    BY <1>12 DEF Elsewhere, TypeOK
  <2> QED
    BY <1>12, <2>1, <2>2 DEF Elsewhere, run
<1>13. ASSUME NEW n \in Name, NEW t \in Files, Touch(n, t) PROVE TypeOK'
  BY <1>12, <1>13 DEF Touch, TypeOK
<1>14. ASSUME NEW n \in Name, Remove(n) \/ SetUpdateCommand(n) PROVE TypeOK'
  <2>1. CASE Remove(n)
    BY <1>12, <2>1 DEF Remove, TypeOK
  <2>2. CASE SetUpdateCommand(n)
    BY <1>12, <2>2 DEF SetUpdateCommand, TypeOK
  <2> QED
    BY <1>14, <2>1, <2>2
<1>15. ASSUME NEW n \in Name, NEW m \in Name, Rename(n, m) PROVE TypeOK'
  BY <1>12, <1>15 DEF Rename, Renamed, TypeOK
<1>16. CASE UNCHANGED vars
  BY <1>16 DEF vars, shared, run, TypeOK
<1> QED
  BY <1>1, <1>2, <1>3, <1>4, <1>5, <1>6, <1>7, <1>8, <1>9, <1>10, <1>11, <1>12,
     <1>13, <1>14, <1>15, <1>16 DEF Next, Loop

\* The variables of the loop keep their shape in every run of `update`, under
\* whatever other processes do to the collections and the trees.
THEOREM UpdateTypeCorrect == Spec => []TypeOK
BY InitType, NextType, PTL DEF Spec

-----------------------------------------------------------------------------
(* Accounting, and the exit status.                                        *)

LEMMA InitLoop == Init => LoopInv
BY UpdateAssumption DEF Init, LoopInv, PlaceInv

\* A failure takes the collection under way to the failures, and past its
\* reindex: the jump is what keeps the two sets apart.
LEMMA FailLoop ==
  ASSUME TypeOK, LoopInv, pc = "command", Fail
  PROVE  LoopInv'
BY UpdateAssumption DEF Fail, AfterFailure, Noted, TypeOK, LoopInv, PlaceInv

LEMMA AbortLoop == ASSUME TypeOK, LoopInv, Abort PROVE LoopInv'
BY UpdateAssumption DEF Abort, TypeOK, LoopInv, PlaceInv

LEMMA NextLoop == TypeOK /\ LoopInv /\ [Next]_vars => LoopInv'
<1> SUFFICES ASSUME TypeOK, LoopInv, [Next]_vars PROVE LoopInv'
  OBVIOUS
<1> USE UpdateAssumption
<1>1. CASE Begin
  BY <1>1 DEF Begin, TypeOK, LoopInv, PlaceInv
<1>2. ASSUME NEW n \in Name, Take(n) PROVE LoopInv'
  <2>1. CASE Abort
    BY <2>1, AbortLoop
  <2>2. CASE n \in todo /\ todo' = todo \ {n} /\ row' = n /\ pc = "next"
             /\ UNCHANGED <<listed, failures, reindexed>>
    BY <2>2 DEF TypeOK, LoopInv, PlaceInv
  <2> QED
    BY <1>2, <2>1, <2>2 DEF Take
<1>3. ASSUME NEW t \in Files, CommandTimesOut(t) PROVE LoopInv'
  BY <1>3, FailLoop DEF CommandTimesOut
<1>4. CASE ReindexSucceeds
  BY <1>4 DEF ReindexSucceeds, TypeOK, LoopInv, PlaceInv
<1>5. CASE ReindexFails
  BY <1>5 DEF ReindexFails, TypeOK, LoopInv, PlaceInv
<1>6. CASE ReindexFindsNothing
  BY <1>6, AbortLoop DEF ReindexFindsNothing
<1>7. CASE Finish
  BY <1>7 DEF Finish, TypeOK, LoopInv, PlaceInv
<1>8. ASSUME NEW t \in Files, CommandSucceeds(t) PROVE LoopInv'
  BY <1>8 DEF CommandSucceeds, TypeOK, LoopInv, PlaceInv
<1>9. ASSUME NEW t \in Files, CommandFails(t) PROVE LoopInv'
  BY <1>9, FailLoop DEF CommandFails
<1>10. CASE CommandGarbles
  BY <1>10, AbortLoop DEF CommandGarbles
<1>11. CASE Killed
  BY <1>11 DEF Killed, TypeOK, LoopInv, PlaceInv
<1>12. CASE UNCHANGED run
  BY <1>12 DEF run, LoopInv, PlaceInv
<1> QED
  BY <1>1, <1>2, <1>3, <1>4, <1>5, <1>6, <1>7, <1>8, <1>9, <1>10, <1>11, <1>12
     DEF Next, Loop, Touch, Remove, Rename, SetUpdateCommand, Elsewhere, vars

LEMMA PlacesAccount == TypeOK /\ LoopInv => Accounted
<1> SUFFICES ASSUME TypeOK, LoopInv PROVE Accounted
  OBVIOUS
<1>1. failures \cap reindexed = {}
  BY DEF TypeOK, LoopInv, PlaceInv
<1>2. \A n \in failures \cup reindexed : n \notin todo \cup {row}
  BY DEF TypeOK, LoopInv, PlaceInv
<1>3. ASSUME pc # "idle"
      PROVE  \A n \in Name :
               n \in listed <=> n \in failures \cup reindexed \cup todo \cup ({row} \ {NoName})
  BY <1>3, UpdateAssumption DEF TypeOK, LoopInv, PlaceInv
<1>4. listed \subseteq Name
      /\ failures \cup reindexed \cup todo \cup ({row} \ {NoName}) \subseteq Name
  BY DEF TypeOK
<1> QED
  BY <1>1, <1>2, <1>3, <1>4 DEF Accounted

\* Every listed collection is still to come, under way, reindexed or noted as
\* failed, and none is both of the last two.
THEOREM AllAccounted == Spec => []Accounted
<1>1. Init => TypeOK /\ LoopInv
  BY InitType, InitLoop
<1>2. TypeOK /\ LoopInv /\ [Next]_vars => (TypeOK /\ LoopInv)'
  BY NextType, NextLoop
<1>3. TypeOK /\ LoopInv => Accounted
  BY PlacesAccount
<1> QED
  BY <1>1, <1>2, <1>3, PTL DEF Spec

\* Exit status zero means that this run has reindexed all it listed: only a
\* run with nothing to do and one that has come through the loop report it.
THEOREM ExitIsTruthful == Spec => TruthfulExit
<1> DEFINE Truthful ==
      exit' = "ok" /\ (exit # "ok" \/ listed' # listed) => reindexed' = listed'
<1>1. ASSUME TypeOK, LoopInv, [Next]_vars PROVE Truthful
  <2>1. CASE Begin
    BY <2>1 DEF Begin
  <2>2. CASE Finish
    BY <1>1, <2>2, UpdateAssumption DEF Finish, TypeOK, LoopInv, PlaceInv
  <2>3. CASE UNCHANGED <<exit, listed>>
    BY <2>3
  <2>4. CASE exit' # "ok"
    BY <2>4
  <2>5. ASSUME NEW n \in Name, Take(n)
        PROVE  UNCHANGED <<exit, listed>> \/ exit' # "ok"
    BY <2>5 DEF Take, Abort
  <2> QED
    BY <1>1, <2>1, <2>2, <2>3, <2>4, <2>5
       DEF Next, Loop, CommandTimesOut, CommandSucceeds, CommandFails, Fail,
           CommandGarbles, Abort, ReindexSucceeds, ReindexFails,
           ReindexFindsNothing, Killed, Touch, Remove, Rename,
           SetUpdateCommand, Elsewhere, run, vars
<1>2. TypeOK /\ LoopInv /\ [Next]_vars => [Truthful]_vars
  BY <1>1
<1>3. Init => TypeOK /\ LoopInv
  BY InitType, InitLoop
<1>4. TypeOK /\ LoopInv /\ [Next]_vars => (TypeOK /\ LoopInv)'
  BY NextType, NextLoop
<1> QED
  BY <1>2, <1>3, <1>4, PTL DEF Spec, TruthfulExit

-----------------------------------------------------------------------------
(* What a good exit says about the index.                                  *)

LEMMA InitQuiet == Init => QuietInv /\ FreshAfterRun
BY DEF Init, QuietInv, FreshAfterRun

\* The only tree a command changes is that of the collection under way, which
\* is not among those reindexed.
LEMMA NextQuiet ==
  TypeOK /\ LoopInv /\ QuietInv /\ FreshAfterRun /\ [Next]_vars
    => QuietInv' /\ FreshAfterRun'
<1> SUFFICES ASSUME TypeOK, LoopInv, QuietInv, FreshAfterRun, [Next]_vars
             PROVE  QuietInv' /\ FreshAfterRun'
  OBVIOUS
<1> USE UpdateAssumption DEF Files
<1>1. CASE Begin
  BY <1>1 DEF Begin, shared, TypeOK, QuietInv, FreshAfterRun
<1>2. ASSUME Abort PROVE QuietInv' /\ FreshAfterRun'
  BY <1>2 DEF Abort, QuietInv, FreshAfterRun
<1>3. ASSUME NEW n \in Name, Take(n) PROVE QuietInv' /\ FreshAfterRun'
  <2>1. Abort \/ /\ pc = "next" /\ pc' \in {"command", "reindex"}
                 /\ UNCHANGED <<shared, listed, reindexed, quiet>>
    BY <1>3 DEF Take
  <2> QED
    BY <1>2, <2>1 DEF shared, QuietInv, FreshAfterRun
<1>4. ASSUME NEW t \in Files, pc = "command", pc' \in {"next", "reindex"},
             tree' = [tree EXCEPT ![row] = t],
             UNCHANGED <<registered, index, listed, reindexed, quiet>>
      PROVE  QuietInv' /\ FreshAfterRun'
  <2>1. row \notin reindexed /\ reindexed \subseteq Name
    BY DEF TypeOK, LoopInv, PlaceInv
  <2>2. \A n \in reindexed : tree'[n] = tree[n]
    BY <1>4, <2>1 DEF TypeOK
  <2> QED
    BY <1>4, <2>2 DEF QuietInv, FreshAfterRun
<1>5. CASE ReindexSucceeds
  <2>1. row \in Name /\ row \notin reindexed /\ reindexed \subseteq Name
    BY <1>5 DEF ReindexSucceeds, TypeOK, LoopInv, PlaceInv
  <2>2. index'[row] = tree'[row]
        /\ \A n \in reindexed : index'[n] = index[n] /\ tree'[n] = tree[n]
    BY <1>5, <2>1 DEF ReindexSucceeds, Synced, TypeOK
  <2> QED
    BY <1>5, <2>2 DEF ReindexSucceeds, QuietInv, FreshAfterRun
<1>6. CASE ReindexFails
  BY <1>6 DEF ReindexFails, shared, QuietInv, FreshAfterRun
<1>7. CASE Finish
  <2>1. exit' = "ok" => listed = reindexed
    BY <1>7 DEF Finish, TypeOK, LoopInv, PlaceInv
  <2> QED
    BY <1>7, <2>1 DEF Finish, shared, QuietInv, FreshAfterRun
<1>8. CASE Killed
  BY <1>8 DEF Killed, QuietInv, FreshAfterRun
<1>9. CASE quiet' = FALSE
  BY <1>9 DEF QuietInv, FreshAfterRun
<1>10. CASE UNCHANGED vars
  BY <1>10 DEF vars, shared, run, QuietInv, FreshAfterRun
<1> QED
  BY <1>1, <1>2, <1>3, <1>4, <1>5, <1>6, <1>7, <1>8, <1>9, <1>10
     DEF Next, Loop, CommandTimesOut, CommandSucceeds, CommandFails, Fail,
         AfterFailure, CommandGarbles, ReindexFindsNothing, Touch, Remove,
         Rename, SetUpdateCommand, Elsewhere

\* After a run that ended well and undisturbed, the index of every collection
\* is what is on disk, until somebody changes something.
THEOREM FreshAfterGoodRun == Spec => []FreshAfterRun
<1> DEFINE Inv == TypeOK /\ LoopInv /\ QuietInv /\ FreshAfterRun
<1>1. Init => Inv
  BY InitType, InitLoop, InitQuiet
<1>2. Inv /\ [Next]_vars => Inv'
  BY NextType, NextLoop, NextQuiet
<1>3. Inv => FreshAfterRun
  OBVIOUS
<1> QED
  BY <1>1, <1>2, <1>3, PTL DEF Spec

=============================================================================
