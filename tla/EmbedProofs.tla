---------------------------- MODULE EmbedProofs ----------------------------
(***************************************************************************)
(* Proofs about `marq embed` (Embed.tla), for any collections, files,      *)
(* bodies, models and processes, and any number of runs, failures, and     *)
(* commands beside them.                                                   *)
(***************************************************************************)
EXTENDS Embed, FiniteSetTheorems, TLAPS

\* TypeOK, by what its parts are about, and what is pending besides.
DocType ==
  /\ live \in SUBSET Coll /\ doc \in [File -> Row \cup {None}]
  /\ content \in SUBSET Hash /\ Referenced(doc) \subseteq content
VecType ==
  /\ registered \in SUBSET Model /\ dim \in [Table -> Nat \cup {None}]
  /\ \A m \in registered : dim[TableName[m]] # None
  /\ vec \in [Table -> [Hash -> Model \cup {None}]]
  /\ \A t \in Table, h \in Hash : vec[t][h] # None => h \in content /\ dim[t] # None
RunType ==
  /\ pc \in [Runner -> {"idle", "probe", "register", "scan", "embed"}]
  /\ model \in [Runner -> Model] /\ scope \in [Runner -> SUBSET Coll]
  /\ pending \in [Runner -> SUBSET (Hash \X (Nat \cup {None}))]
  /\ due \in [Runner -> SUBSET Hash]
  /\ started \in [Runner -> Nat] /\ changes \in Nat /\ failures \in Nat
  /\ victims \in SUBSET (Table \X Hash)
FlagType == known \in [Runner -> BOOLEAN] /\ cleaning \in BOOLEAN /\ alone \in BOOLEAN
TypeInv == DocType /\ VecType /\ RunType /\ FlagType

LEMMA TypeInvImpliesTypeOK == TypeInv => TypeOK
<1> SUFFICES ASSUME TypeInv PROVE TypeOK
  OBVIOUS
<1>1. \A t \in Table : /\ Vectors(t) \subseteq content
                       /\ dim[t] = None => Vectors(t) = {}
  BY DEF TypeInv, VecType, Vectors
<1>2. \A p \in Runner : \A r \in pending[p] : r[1] \in Hash
  BY DEF TypeInv, RunType
<1> QED
  BY <1>1, <1>2 DEF TypeInv, DocType, VecType, RunType, FlagType, TypeOK

\* Every model has a table, and every title is a number or none.
LEMMA TableOfModel == \A m \in Model : TableName[m] \in Table
BY DEF TableName, Table

LEMMA TitleType == \A f \in File, h \in Hash : Title(f, h) \in Nat \cup {None}
BY EmbedAssumption DEF Title

LEMMA HashesOf ==
  ASSUME NEW D \in [File -> Row \cup {None}]
  PROVE  /\ Referenced(D) \subseteq Hash
         /\ \A C : Active(D, C) \subseteq Referenced(D)
<1>1. \A f \in File : D[f] # None => D[f].hash \in Hash
  BY DEF Row
<1> QED
  BY <1>1 DEF Referenced, Active

LEMMA InitType == Init => TypeInv
<1> SUFFICES ASSUME Init PROVE TypeInv
  OBVIOUS
<1>1. DocType
  BY HashesOf DEF Init, DocType
<1>2. VecType
  BY TableOfModel DEF Init, VecType
<1>3. RunType
  BY EmbedAssumption DEF Init, RunType
<1>4. FlagType
  BY Zenon DEF Init, FlagType
<1> QED
  BY <1>1, <1>2, <1>3, <1>4 DEF TypeInv

-----------------------------------------------------------------------------
(* What a run does to the types.                                           *)

\* A run that stops, however it does, has nothing pending.
LEMMA StopType ==
  ASSUME RunType, FlagType, NEW p \in Runner, Stop(p),
         due' \in [Runner -> SUBSET Hash],
         UNCHANGED <<cleanup, changes>>, failures' \in Nat
  PROVE  RunType' /\ FlagType'
<1>1. RunType'
  BY DEF Stop, RunType, cleanup
<1>2. FlagType'
  <2>1. known' \in [Runner -> BOOLEAN]
    BY DEF Stop, FlagType
  <2> QED
    BY <2>1 DEF FlagType, cleanup
<1> QED
  BY <1>1, <1>2

LEMMA FailType ==
  ASSUME RunType, FlagType, NEW p \in Runner, Fail(p),
         UNCHANGED <<cleanup, changes>>, failures' \in Nat
  PROVE  RunType' /\ FlagType'
<1>1. due' \in [Runner -> SUBSET Hash] /\ Stop(p)
  BY DEF Fail, RunType
<1> QED
  BY <1>1, StopType

LEMMA PendingType ==
  ASSUME DocType, NEW m \in Model, NEW C
  PROVE  Pending(m, C) \in SUBSET (Hash \X (Nat \cup {None}))
<1>1. \A f \in File : doc[f] # None => doc[f].hash \in Hash
  BY DEF DocType, Row
<1> QED
  BY <1>1, TitleType DEF Pending

\* Beginning, probing, registering and scanning.
LEMMA BeginType ==
  ASSUME TypeInv, NEW p \in Runner, NEW m \in Model, NEW C \in SUBSET Coll, Begin(p, m, C)
  PROVE  TypeInv'
<1> USE DEF TypeInv
<1>1. DocType'
  BY DEF DocType, Begin, store, Referenced
<1>2. VecType'
  BY DEF VecType, DocType, Begin, store, tables
<1>3. RunType'
  BY DEF RunType, Begin, cleanup
<1>4. FlagType'
  BY DEF FlagType, Begin, cleanup
<1> QED
  BY <1>1, <1>2, <1>3, <1>4

LEMMA ProbeType ==
  ASSUME TypeInv, NEW p \in Runner, Probe(p)
  PROVE  TypeInv'
<1> USE DEF TypeInv
<1>1. DocType'
  BY DEF DocType, Probe, store, Referenced
<1>2. VecType'
  BY DEF VecType, DocType, Probe, store, tables
<1>3. RunType'
  BY DEF RunType, Probe, cleanup
<1>4. FlagType'
  <2>1. known' \in [Runner -> BOOLEAN]
    <3>1. known' = [known EXCEPT ![p] = model[p] \in registered]
      BY DEF Probe
    <3>2. \A b \in BOOLEAN : [known EXCEPT ![p] = b] \in [Runner -> BOOLEAN]
      BY DEF FlagType
    <3>3. (model[p] \in registered) \in BOOLEAN
      OBVIOUS
    <3> QED
      BY <3>1, <3>2, <3>3, Zenon
  <2> QED
    BY <2>1 DEF FlagType, Probe, cleanup
<1> QED
  BY <1>1, <1>2, <1>3, <1>4

LEMMA RegisterType ==
  ASSUME TypeInv, NEW p \in Runner, Register(p)
  PROVE  TypeInv'
<1> USE DEF TypeInv
<1>1. DocType'
  BY DEF DocType, Register, store, Referenced
<1>2. CASE Collides(p) /\ Fail(p) /\ UNCHANGED tables
  <2>1. VecType'
    BY <1>2 DEF VecType, DocType, Register, store, tables
  <2>2. RunType' /\ FlagType'
    BY <1>2, FailType DEF Register, RunType
  <2> QED
    BY <1>1, <2>1, <2>2
<1>3. CASE /\ registered' = registered \cup {model[p]}
           /\ dim' = [dim EXCEPT ![TableOf(p)] =
                        IF @ = None THEN Dimension[model[p]] ELSE @]
           /\ pc' = [pc EXCEPT ![p] = "scan"]
           /\ UNCHANGED <<vec, model, scope, known, pending, due, started>>
  <2>1. model[p] \in Model /\ TableOf(p) \in Table /\ Dimension[model[p]] \in Nat
    BY EmbedAssumption, TableOfModel DEF RunType, TableOf
  <2>2. VecType'
    <3>1. \A t \in Table : dim[t] # None => dim'[t] = dim[t]
      BY <1>3, <2>1 DEF VecType
    <3>2. dim' \in [Table -> Nat \cup {None}] /\ dim'[TableOf(p)] # None
      BY <1>3, <2>1, EmbedAssumption DEF VecType
    <3>3. \A m \in registered' : dim'[TableName[m]] # None
      BY <1>3, <3>1, <3>2, TableOfModel DEF VecType, TableOf
    <3>4. UNCHANGED <<vec, content>>
      BY <1>3 DEF Register, store
    <3>5. registered' \in SUBSET Model
      BY <1>3, <2>1 DEF VecType
    <3> QED
      BY <3>1, <3>2, <3>3, <3>4, <3>5 DEF VecType
  <2>3. RunType'
    BY <1>3 DEF RunType, Register, cleanup
  <2>4. FlagType'
    BY <1>3 DEF FlagType, Register, cleanup
  <2> QED
    BY <1>1, <2>2, <2>3, <2>4
<1> QED
  BY <1>2, <1>3 DEF Register

LEMMA ScanType ==
  ASSUME TypeInv, NEW p \in Runner, Scan(p)
  PROVE  TypeInv'
<1> USE DEF TypeInv
<1>1. DocType'
  BY DEF DocType, Scan, store, Referenced
<1>2. VecType'
  BY DEF VecType, DocType, Scan, store, tables
<1>3. RunType'
  <2>1. model[p] \in Model
    BY DEF RunType
  <2>2. Pending(model[p], scope[p] \cap live) \in SUBSET (Hash \X (Nat \cup {None}))
    BY <2>1, PendingType
  <2>3. Active(doc, scope[p] \cap live) \in SUBSET Hash
    BY HashesOf DEF DocType
  <2> QED
    BY <2>2, <2>3 DEF RunType, Scan, cleanup
<1>4. FlagType'
  BY DEF FlagType, Scan, cleanup
<1> QED
  BY <1>1, <1>2, <1>3, <1>4

\* A body is embedded into the table of the run's model, which has a dimension.
LEMMA EmbedOneType ==
  ASSUME TypeInv, NEW p \in Runner, NEW r \in pending[p], EmbedOne(p, r)
  PROVE  TypeInv'
<1> USE DEF TypeInv
<1>1. DocType'
  BY DEF DocType, EmbedOne, store, Referenced
<1>2. CASE /\ r[1] \in content /\ dim[TableOf(p)] = Dimension[model[p]]
           /\ vec' = [vec EXCEPT ![TableOf(p)][r[1]] = model[p]]
           /\ pending' = [pending EXCEPT ![p] = @ \ {r}]
           /\ alone' = FALSE
           /\ UNCHANGED <<pc, model, scope, known, due, started>>
  <2>1. model[p] \in Model /\ TableOf(p) \in Table /\ dim[TableOf(p)] # None
    BY <1>2, EmbedAssumption, TableOfModel DEF RunType, TableOf
  <2>2. VecType'
    <3>1. vec' \in [Table -> [Hash -> Model \cup {None}]]
      BY <1>2, <2>1 DEF VecType
    <3>2. \A t \in Table, h \in Hash :
            vec'[t][h] = IF t = TableOf(p) /\ h = r[1] THEN model[p] ELSE vec[t][h]
      BY <1>2, <2>1 DEF VecType
    <3>3. UNCHANGED <<registered, dim, content>>
      BY DEF EmbedOne, store
    <3> QED
      BY <1>2, <2>1, <3>1, <3>2, <3>3 DEF VecType
  <2>3. RunType'
    BY <1>2 DEF RunType, EmbedOne
  <2>4. FlagType'
    <3>1. alone' \in BOOLEAN
      BY <1>2
    <3> QED
      BY <1>2, <3>1 DEF FlagType, EmbedOne
  <2> QED
    BY <1>1, <2>2, <2>3, <2>4
<1>3. CASE Fail(p) /\ UNCHANGED <<vec, alone>>
  <2>1. VecType'
    BY <1>3 DEF VecType, EmbedOne, store
  <2>2. RunType' /\ FlagType'
    BY <1>3, FailType DEF EmbedOne, cleanup, RunType
  <2> QED
    BY <1>1, <2>1, <2>2
<1> QED
  BY <1>2, <1>3 DEF EmbedOne

-----------------------------------------------------------------------------
(* What the commands of other processes do to the types.                   *)

\* Vectors are deleted, alone or with their bodies, and never changed.
Fewer(V) == \A t \in Table, h \in Hash : V[t][h] # None => V[t][h] = vec[t][h]

LEMMA CascadeFewer ==
  ASSUME NEW V \in [Table -> [Hash -> Model \cup {None}]], Fewer(V), NEW S
  PROVE  /\ Cascade(V, S) \in [Table -> [Hash -> Model \cup {None}]]
         /\ Fewer(Cascade(V, S))
         /\ \A t \in Table, h \in Hash : Cascade(V, S)[t][h] # None => h \in S
BY DEF Cascade, Fewer

LEMMA LeavesType ==
  ASSUME TypeInv, NEW D \in [File -> Row \cup {None}], Referenced(D) \subseteq Hash,
         NEW V \in [Table -> [Hash -> Model \cup {None}]], Fewer(V), Leaves(D, V),
         live' \in SUBSET Coll, victims' \in SUBSET (Table \X Hash),
         cleaning' \in BOOLEAN, alone' \in BOOLEAN
  PROVE  TypeInv'
<1> USE DEF TypeInv
<1>1. PICK S \in SUBSET (content \cup Referenced(D)) :
        /\ Referenced(D) \subseteq S /\ content' = S
        /\ vec' = Cascade(V, S) /\ due' = DueStill(Cascade(V, S))
  BY DEF Leaves
<1>2. /\ vec' \in [Table -> [Hash -> Model \cup {None}]]
      /\ \A t \in Table, h \in Hash : vec'[t][h] # None => h \in S /\ vec'[t][h] = vec[t][h]
  BY <1>1, CascadeFewer DEF Fewer
<1>3. DocType'
  BY <1>1 DEF Leaves, DocType, Referenced
<1>4. VecType'
  BY <1>1, <1>2 DEF Leaves, VecType
<1>5. RunType'
  <2>1. due' \in [Runner -> SUBSET Hash]
    BY <1>1 DEF DueStill, RunType
  <2> QED
    BY <2>1 DEF Leaves, RunType
<1>6. FlagType'
  BY DEF Leaves, FlagType
<1> QED
  BY <1>3, <1>4, <1>5, <1>6

LEMMA VecFewer == ASSUME TypeInv PROVE vec \in [Table -> [Hash -> Model \cup {None}]] /\ Fewer(vec)
BY DEF TypeInv, VecType, Fewer

LEMMA IndexFileType ==
  ASSUME TypeInv, NEW f \in File, NEW h \in Hash, IndexFile(f, h)
  PROVE  TypeInv'
<1> DEFINE D == [doc EXCEPT ![f] = [hash |-> h, active |-> TRUE]]
<1>1. D \in [File -> Row \cup {None}]
  BY DEF TypeInv, DocType, Row
<1>2. Referenced(D) \subseteq Hash
  BY <1>1, HashesOf
<1>3. Leaves(D, vec) /\ UNCHANGED <<live, cleaning, victims>>
  BY DEF IndexFile
<1>4. alone' \in BOOLEAN
  BY Zenon DEF IndexFile
<1>5. cleaning' \in BOOLEAN
  BY <1>3 DEF TypeInv, FlagType
<1>6. live' \in SUBSET Coll /\ victims' \in SUBSET (Table \X Hash)
  BY <1>3 DEF TypeInv, DocType, RunType
<1> HIDE DEF D
<1> QED
  BY <1>1, <1>2, <1>3, <1>4, <1>5, <1>6, VecFewer, LeavesType

LEMMA DeactivateType ==
  ASSUME TypeInv, NEW f \in File, Deactivate(f)
  PROVE  TypeInv'
<1> DEFINE D == [doc EXCEPT ![f].active = FALSE]
<1>1. D \in [File -> Row \cup {None}]
  <2>1. doc[f] \in Row
    BY DEF Deactivate, TypeInv, DocType
  <2>2. [doc[f] EXCEPT !.active = FALSE] \in Row
    BY <2>1 DEF Row
  <2>3. D = [doc EXCEPT ![f] = [doc[f] EXCEPT !.active = FALSE]]
    OBVIOUS
  <2> QED
    BY <2>2, <2>3 DEF TypeInv, DocType
<1>2. Referenced(D) \subseteq Hash
  BY <1>1, HashesOf
<1>3. Leaves(D, vec) /\ UNCHANGED <<live, cleaning, victims>>
  BY DEF Deactivate
<1>4. alone' \in BOOLEAN
  BY Zenon DEF Deactivate
<1>5. cleaning' \in BOOLEAN
  BY <1>3 DEF TypeInv, FlagType
<1>6. live' \in SUBSET Coll /\ victims' \in SUBSET (Table \X Hash)
  BY <1>3 DEF TypeInv, DocType, RunType
<1> HIDE DEF D
<1> QED
  BY <1>1, <1>2, <1>3, <1>4, <1>5, <1>6, VecFewer, LeavesType

LEMMA RemoveCollectionType ==
  ASSUME TypeInv, NEW c \in Coll, RemoveCollection(c)
  PROVE  TypeInv'
<1> DEFINE D == [f \in File |-> IF CollOf(f) = c THEN None ELSE doc[f]]
<1>1. D \in [File -> Row \cup {None}]
  BY DEF TypeInv, DocType
<1>2. Referenced(D) \subseteq Hash
  BY <1>1, HashesOf
<1>3. Leaves(D, vec) /\ live' = live \ {c} /\ UNCHANGED <<cleaning, victims>>
  BY DEF RemoveCollection
<1>4. alone' \in BOOLEAN
  BY Zenon DEF RemoveCollection
<1>5. cleaning' \in BOOLEAN
  BY <1>3 DEF TypeInv, FlagType
<1>6. live' \in SUBSET Coll /\ victims' \in SUBSET (Table \X Hash)
  BY <1>3 DEF TypeInv, DocType, RunType
<1> HIDE DEF D
<1> QED
  BY <1>1, <1>2, <1>3, <1>4, <1>5, <1>6, VecFewer, LeavesType

LEMMA EndCleanupType ==
  ASSUME TypeInv, EndCleanup
  PROVE  TypeInv'
<1> DEFINE D == [f \in File |-> IF doc[f] # None /\ doc[f].active THEN doc[f] ELSE None]
           V == [t \in Table |-> [h \in Hash |->
                   IF <<t, h>> \in victims THEN None ELSE vec[t][h]]]
<1>1. D \in [File -> Row \cup {None}]
  BY DEF TypeInv, DocType
<1>2. Referenced(D) \subseteq Hash
  BY <1>1, HashesOf
<1>3. V \in [Table -> [Hash -> Model \cup {None}]] /\ Fewer(V)
  BY DEF TypeInv, VecType, Fewer
<1>4. Leaves(D, V) /\ victims' = {} /\ UNCHANGED <<live, alone>>
  BY DEF EndCleanup
<1>5. cleaning' \in BOOLEAN
  BY Zenon DEF EndCleanup
<1>6. alone' \in BOOLEAN
  BY <1>4 DEF TypeInv, FlagType
<1>7. live' \in SUBSET Coll /\ victims' \in SUBSET (Table \X Hash)
  BY <1>4 DEF TypeInv, DocType
<1> HIDE DEF D, V
<1> QED
  BY <1>1, <1>2, <1>3, <1>4, <1>5, <1>6, <1>7, LeavesType

LEMMA BeginCleanupType ==
  ASSUME TypeInv, BeginCleanup
  PROVE  TypeInv'
<1> USE DEF TypeInv
<1>1. DocType'
  BY DEF DocType, BeginCleanup, store, Referenced
<1>2. VecType'
  BY DEF VecType, DocType, BeginCleanup, store, tables
<1>3. RunType'
  <2>1. Stale \in SUBSET (Table \X Hash)
    BY DEF Stale
  <2> QED
    BY <2>1 DEF RunType, BeginCleanup, runs
<1>4. FlagType'
  <2>1. cleaning' \in BOOLEAN /\ alone' \in BOOLEAN
    BY Zenon DEF BeginCleanup
  <2> QED
    BY <2>1 DEF FlagType, BeginCleanup, runs
<1> QED
  BY <1>1, <1>2, <1>3, <1>4

\* A run that fails or ends leaves documents and tables alone.
LEMMA EndsType ==
  ASSUME TypeInv, NEW p \in Runner,
         ServiceFails(p) \/ Killed(p) \/ Finish(p)
  PROVE  TypeInv'
<1> USE DEF TypeInv
<1>1. UNCHANGED <<store, tables, cleanup, changes>>
  BY DEF ServiceFails, Killed, Finish
<1>2. DocType'
  BY <1>1 DEF DocType, store, Referenced
<1>3. VecType'
  BY <1>1 DEF VecType, store, tables
<1>4. failures' \in Nat
  BY DEF ServiceFails, Killed, Finish, RunType
<1>5. Stop(p) /\ due' \in [Runner -> SUBSET Hash]
  BY DEF ServiceFails, Killed, Finish, Fail, RunType
<1>6. RunType' /\ FlagType'
  BY <1>1, <1>4, <1>5, StopType
<1> QED
  BY <1>2, <1>3, <1>6

LEMMA NextType ==
  ASSUME TypeInv, [Next]_vars
  PROVE  TypeInv'
<1>1. ASSUME NEW p \in Runner, NEW m \in Model, NEW C \in SUBSET Coll, Begin(p, m, C)
      PROVE  TypeInv'
  BY <1>1, BeginType
<1>2. ASSUME NEW p \in Runner, Step(p)
      PROVE  TypeInv'
  <2>1. CASE Probe(p)
    BY <2>1, ProbeType
  <2>2. CASE Register(p)
    BY <2>2, RegisterType
  <2>3. CASE Scan(p)
    BY <2>3, ScanType
  <2>4. CASE Finish(p)
    BY <2>4, EndsType
  <2>5. ASSUME NEW r \in pending[p], EmbedOne(p, r)
        PROVE  TypeInv'
    BY <2>5, EmbedOneType
  <2> QED
    BY <1>2, <2>1, <2>2, <2>3, <2>4, <2>5 DEF Step
<1>3. ASSUME NEW p \in Runner, ServiceFails(p) \/ Killed(p)
      PROVE  TypeInv'
  BY <1>3, EndsType
<1>4. ASSUME NEW f \in File, Deactivate(f)
      PROVE  TypeInv'
  BY <1>4, DeactivateType
<1>5. ASSUME NEW f \in File, NEW h \in Hash, IndexFile(f, h)
      PROVE  TypeInv'
  BY <1>5, IndexFileType
<1>6. ASSUME NEW c \in Coll, RemoveCollection(c)
      PROVE  TypeInv'
  BY <1>6, RemoveCollectionType
<1>7. CASE BeginCleanup
  BY <1>7, BeginCleanupType
<1>8. CASE EndCleanup
  BY <1>8, EndCleanupType
<1>9. CASE UNCHANGED vars
  <2>1. DocType' /\ VecType'
    BY <1>9 DEF vars, store, tables, TypeInv, DocType, VecType, Referenced
  <2>2. RunType'
    BY <1>9 DEF vars, runs, cleanup, TypeInv, RunType
  <2>3. FlagType'
    BY <1>9 DEF vars, runs, cleanup, TypeInv, FlagType
  <2> QED
    BY <2>1, <2>2, <2>3 DEF TypeInv
<1> QED
  BY <1>1, <1>2, <1>3, <1>4, <1>5, <1>6, <1>7, <1>8, <1>9 DEF Next

LEMMA SpecTypeInv == Spec => []TypeInv
<1>1. Init => TypeInv
  BY InitType
<1>2. TypeInv /\ [Next]_vars => TypeInv'
  BY NextType
<1> QED
  BY <1>1, <1>2, PTL DEF Spec

\* Whatever overlaps, a document has its body, and vectors have their body, in
\* a table that exists; a registered model has its table.
THEOREM EmbedTypeCorrect == Spec => []TypeOK
BY SpecTypeInv, TypeInvImpliesTypeOK, PTL

-----------------------------------------------------------------------------
(* No run passes a body over.                                              *)

LEMMA ScanCovers ==
  ASSUME TypeInv, NEW p \in Runner, Scan(p), NEW h \in due'[p]
  PROVE  h \in Vectors(TableOf(p))' \/ \E r \in pending'[p] : r[1] = h
<1> DEFINE C == scope[p] \cap live
<1>1. /\ due'[p] = Active(doc, C) /\ pending'[p] = Pending(model[p], C)
      /\ UNCHANGED <<vec, model>>
  BY DEF Scan, TypeInv, RunType, tables
<1>2. PICK f \in File : CollOf(f) \in C /\ doc[f] # None /\ doc[f].active /\ doc[f].hash = h
  BY <1>1 DEF Active
<1>3. CASE h \in Vectors(TableOf(p))
  BY <1>1, <1>3 DEF Vectors, TableOf
<1>4. CASE h \notin Vectors(TableOf(p))
  <2>1. <<h, Title(f, h)>> \in Pending(model[p], C)
    BY <1>2, <1>4 DEF Pending, TableOf
  <2> QED
    BY <1>1, <2>1
<1> QED
  BY <1>3, <1>4

\* A run that ends, or goes on without touching vectors, leaves the others be.
LEMMA EndCovers ==
  ASSUME TypeInv, Covered, NEW p \in Runner, Fail(p) \/ Finish(p), UNCHANGED vec
  PROVE  Covered'
<1> SUFFICES ASSUME NEW q \in Runner, NEW h \in due'[q]
             PROVE  h \in Vectors(TableOf(q))' \/ \E r \in pending'[q] : r[1] = h
  BY DEF Covered
<1>1. UNCHANGED <<vec, model>>
  BY DEF Fail, Finish, Stop
<1>2. h \in due[q]
  BY DEF Fail, Finish, TypeInv, RunType
<1>3. h \in Vectors(TableOf(q)) \/ \E r \in pending[q] : r[1] = h
  BY <1>2 DEF Covered
<1>4. q # p => pending'[q] = pending[q]
  BY DEF Fail, Finish, Stop, TypeInv, RunType
<1>5. q = p => Finish(p) /\ pending[q] = {}
  BY DEF Fail, Finish, TypeInv, RunType
<1> QED
  BY <1>1, <1>3, <1>4, <1>5 DEF Vectors, TableOf

\* One body gets its vectors and leaves the queue; the rest stays as it was.
LEMMA EmbedOneCovers ==
  ASSUME TypeInv, Covered, NEW p \in Runner, NEW r \in pending[p], EmbedOne(p, r)
  PROVE  Covered'
<1>1. CASE /\ vec' = [vec EXCEPT ![TableOf(p)][r[1]] = model[p]]
           /\ pending' = [pending EXCEPT ![p] = @ \ {r}]
           /\ UNCHANGED <<model, due>>
  <2>1. model[p] \in Model /\ model[p] # None /\ TableOf(p) \in Table /\ r[1] \in Hash
    BY EmbedAssumption, TableOfModel DEF TypeInv, RunType, TableOf
  <2>2. \A t \in Table, h \in Hash :
          vec'[t][h] = IF t = TableOf(p) /\ h = r[1] THEN model[p] ELSE vec[t][h]
    BY <1>1, <2>1 DEF TypeInv, VecType
  <2> SUFFICES ASSUME NEW q \in Runner, NEW h \in due'[q]
               PROVE  h \in Vectors(TableOf(q))' \/ \E s \in pending'[q] : s[1] = h
    BY DEF Covered
  <2>3. TableOf(q) \in Table /\ TableOf(q)' = TableOf(q) /\ h \in due[q] /\ h \in Hash
    BY <1>1, TableOfModel DEF TypeInv, RunType, TableOf
  <2>4. h \in Vectors(TableOf(q)) => h \in Vectors(TableOf(q))'
    BY <2>1, <2>2, <2>3 DEF Vectors
  <2>5. ASSUME NEW s \in pending[q], s[1] = h
        PROVE  h \in Vectors(TableOf(q))' \/ s \in pending'[q]
    <3>1. CASE s \in pending'[q]
      BY <3>1
    <3>2. CASE s \notin pending'[q]
      <4>1. q = p /\ s = r
        BY <1>1, <3>2 DEF TypeInv, RunType
      <4> QED
        BY <2>1, <2>2, <2>3, <2>5, <4>1 DEF Vectors
    <3> QED
      BY <3>1, <3>2
  <2> QED
    BY <2>3, <2>4, <2>5 DEF Covered
<1>2. CASE Fail(p) /\ UNCHANGED vec
  BY <1>2, EndCovers
<1> QED
  BY <1>1, <1>2 DEF EmbedOne

\* A command that deletes vectors takes them off what is due.
LEMMA LeavesCovers ==
  ASSUME TypeInv, Covered, NEW D, NEW V \in [Table -> [Hash -> Model \cup {None}]],
         Leaves(D, V)
  PROVE  Covered'
<1>1. PICK S : vec' = Cascade(V, S) /\ due' = DueStill(Cascade(V, S))
  BY DEF Leaves
<1> SUFFICES ASSUME NEW p \in Runner, NEW h \in due'[p]
             PROVE  h \in Vectors(TableOf(p))' \/ \E r \in pending'[p] : r[1] = h
  BY DEF Covered
<1>2. UNCHANGED <<model, pending>>
  BY DEF Leaves
<1>3. h \in due[p] /\ (vec[TableOf(p)][h] # None => vec'[TableOf(p)][h] # None)
  BY <1>1 DEF DueStill
<1>4. h \in Hash
  BY <1>3 DEF TypeInv, RunType
<1>5. h \in Vectors(TableOf(p)) \/ \E r \in pending[p] : r[1] = h
  BY <1>3 DEF Covered
<1> QED
  BY <1>2, <1>3, <1>4, <1>5 DEF Vectors, TableOf

LEMMA NextCovers ==
  ASSUME TypeInv, Covered, [Next]_vars
  PROVE  Covered'
<1>1. CASE UNCHANGED <<vec, model, pending, due>>
  BY <1>1 DEF Covered, Vectors, TableOf
<1>2. ASSUME NEW p \in Runner, NEW m \in Model, NEW C \in SUBSET Coll, Begin(p, m, C)
      PROVE  Covered'
  <2>1. \A q \in Runner : q # p => due'[q] = due[q] /\ model'[q] = model[q]
    BY <1>2 DEF Begin, TypeInv, RunType
  <2>2. due'[p] = {} /\ UNCHANGED <<vec, pending>>
    BY <1>2 DEF Begin, TypeInv, RunType, tables
  <2> QED
    BY <2>1, <2>2 DEF Covered, Vectors, TableOf
<1>3. ASSUME NEW p \in Runner, Step(p)
      PROVE  Covered'
  <2>1. CASE Probe(p)
    BY <1>1, <2>1 DEF Probe, tables
  <2>2. CASE Register(p)
    BY <1>1, <2>2, EndCovers DEF Register, tables
  <2>3. CASE Scan(p)
    <3>1. \A q \in Runner : q # p => due'[q] = due[q] /\ pending'[q] = pending[q]
      BY <2>3 DEF Scan, TypeInv, RunType
    <3>2. UNCHANGED <<vec, model>>
      BY <2>3 DEF Scan, tables
    <3>3. \A h \in due'[p] :
            h \in Vectors(TableOf(p))' \/ \E r \in pending'[p] : r[1] = h
      BY <2>3, ScanCovers
    <3> QED
      BY <3>1, <3>2, <3>3 DEF Covered, Vectors, TableOf
  <2>4. CASE Finish(p)
    BY <2>4, EndCovers DEF Finish, tables
  <2>5. ASSUME NEW r \in pending[p], EmbedOne(p, r)
        PROVE  Covered'
    BY <2>5, EmbedOneCovers
  <2> QED
    BY <1>3, <2>1, <2>2, <2>3, <2>4, <2>5 DEF Step
<1>4. ASSUME NEW p \in Runner, ServiceFails(p) \/ Killed(p)
      PROVE  Covered'
  BY <1>4, EndCovers DEF ServiceFails, Killed, tables
<1>5. ASSUME NEW f \in File, Deactivate(f) \/ \E h \in Hash : IndexFile(f, h)
      PROVE  Covered'
  BY <1>5, VecFewer, LeavesCovers DEF Deactivate, IndexFile
<1>6. ASSUME NEW c \in Coll, RemoveCollection(c)
      PROVE  Covered'
  BY <1>6, VecFewer, LeavesCovers DEF RemoveCollection
<1>7. CASE BeginCleanup
  BY <1>1, <1>7 DEF BeginCleanup, tables, runs
<1>8. CASE EndCleanup
  <2>1. [t \in Table |-> [h \in Hash |-> IF <<t, h>> \in victims THEN None ELSE vec[t][h]]]
          \in [Table -> [Hash -> Model \cup {None}]]
    BY DEF TypeInv, VecType
  <2> QED
    BY <1>8, <2>1, LeavesCovers DEF EndCleanup
<1>9. CASE UNCHANGED vars
  BY <1>1, <1>9 DEF vars, tables, runs
<1> QED
  BY <1>2, <1>3, <1>4, <1>5, <1>6, <1>7, <1>8, <1>9 DEF Next

\* Whatever other runs, other models and commands do meanwhile, a body that a
\* run's scan found active has vectors of its model or is still to come, unless
\* somebody deleted them: a run that ends well has passed nothing over.
THEOREM RunsPassNothingOver == Spec => []Covered
<1>1. Init => Covered
  BY DEF Init, Covered
<1>2. TypeInv /\ Covered /\ [Next]_vars => Covered'
  BY NextCovers
<1> QED
  BY <1>1, <1>2, SpecTypeInv, PTL DEF Spec

-----------------------------------------------------------------------------
(* The health report counts something exactly when a run would embed it.   *)

LEMMA HealthFromTypes ==
  ASSUME TypeInv, NEW m \in Model
  PROVE  NeedsEmbedding(m) = 0 <=> Pending(m, live) = {}
<1> DEFINE t == TableName[m]
           open == {f \in File : CollOf(f) \in live /\ doc[f] # None /\ doc[f].active}
           bodies == {doc[f].hash : f \in open}
<1>1. IsFiniteSet(open)
  BY EmbedAssumption, FS_Subset
<1>2. IsFiniteSet(bodies \ Vectors(t))
  <2>1. IsFiniteSet(bodies)
    <3> DEFINE body == [f \in open |-> doc[f].hash]
    <3>1. body \in Surjection(open, bodies)
      BY DEF Surjection
    <3> HIDE DEF open, bodies, body
    <3> QED
      BY <1>1, <3>1, FS_Surjection
  <2> QED
    BY <2>1, FS_Subset
<1>3. Pending(m, live) = {} <=> bodies \ Vectors(t) = {}
  BY DEF Pending
<1>4. CASE dim[t] = None
  <2>1. Vectors(t) = {}
    BY <1>4, TableOfModel DEF TypeInv, VecType, Vectors
  <2>2. bodies \ Vectors(t) = {} <=> open = {}
    BY <2>1
  <2>3. Cardinality(open) = 0 <=> open = {}
    BY <1>1, FS_EmptySet
  <2>4. NeedsEmbedding(m) = Cardinality(open)
    BY <1>4 DEF NeedsEmbedding
  <2> QED
    BY <1>3, <2>2, <2>3, <2>4
<1>5. CASE dim[t] # None
  <2>1. NeedsEmbedding(m) = Cardinality(bodies \ Vectors(t))
    BY <1>5 DEF NeedsEmbedding
  <2>2. Cardinality(bodies \ Vectors(t)) = 0 <=> bodies \ Vectors(t) = {}
    BY <1>2, FS_EmptySet
  <2> QED
    BY <1>3, <2>1, <2>2
<1> QED
  BY <1>4, <1>5

\* get_vector_index_health and the pending query never disagree on whether
\* there is anything to embed, whatever the table of the model has been through.
THEOREM HealthReportIsTrue == Spec => []HealthAgrees
<1>1. TypeInv => HealthAgrees
  BY HealthFromTypes DEF HealthAgrees
<1> QED
  BY <1>1, SpecTypeInv, PTL

-----------------------------------------------------------------------------
(* An undisturbed cleanup takes all vectors without an active document.    *)

\* Vectors are in tables of registered models only, where a run registers its
\* model before it embeds.
InRegisteredTable ==
  /\ \A p \in Runner : pc[p] \in {"scan", "embed"} => model[p] \in registered
  /\ \A t \in Table, h \in Hash :
       vec[t][h] # None => \E m \in registered : t = TableName[m]
\* Documents are of live collections.
InLiveCollection == \A f \in File : doc[f] # None => CollOf(f) \in live
\* What cleanup has found is still all there is to find.
VictimsAreAll ==
  cleaning /\ alone => \A t \in Table, h \in Hash :
    vec[t][h] # None /\ h \notin Active(doc, Coll) => <<t, h>> \in victims
ReclaimInv == TypeInv /\ InRegisteredTable /\ InLiveCollection /\ VictimsAreAll

LEMMA RegisteredTableKept ==
  ASSUME TypeInv, InRegisteredTable, [Next]_vars
  PROVE  InRegisteredTable'
<1>1. ASSUME registered \subseteq registered', UNCHANGED model,
             \A q \in Runner : pc'[q] \in {"scan", "embed"} =>
               pc[q] \in {"scan", "embed"} \/ model[q] \in registered',
             \A t \in Table, h \in Hash : vec'[t][h] # None =>
               vec[t][h] # None \/ \E m \in registered : t = TableName[m]
      PROVE  InRegisteredTable'
  BY <1>1 DEF InRegisteredTable
<1>2. ASSUME NEW p \in Runner, NEW m \in Model, NEW C \in SUBSET Coll, Begin(p, m, C)
      PROVE  InRegisteredTable'
  <2>1. /\ UNCHANGED <<registered, vec>> /\ pc'[p] = "probe"
        /\ \A q \in Runner : q # p => pc'[q] = pc[q] /\ model'[q] = model[q]
    BY <1>2 DEF Begin, tables, TypeInv, RunType
  <2> QED
    BY <2>1 DEF InRegisteredTable
<1>3. ASSUME NEW p \in Runner, Stop(p), UNCHANGED tables
      PROVE  InRegisteredTable'
  <2>1. UNCHANGED <<model, registered, vec>>
    BY <1>3 DEF Stop, tables
  <2>2. \A q \in Runner : pc'[q] \in {"scan", "embed"} => pc[q] \in {"scan", "embed"}
    BY <1>3 DEF Stop, TypeInv, RunType
  <2> QED
    BY <1>1, <2>1, <2>2
<1>4. ASSUME NEW p \in Runner, Step(p)
      PROVE  InRegisteredTable'
  <2>1. CASE Probe(p) \/ Scan(p)
    <3>1. UNCHANGED <<model, registered, vec>>
      BY <2>1 DEF Probe, Scan, tables
    <3>2. \A q \in Runner : pc'[q] \in {"scan", "embed"} => pc[q] \in {"scan", "embed"}
      BY <2>1 DEF Probe, Scan, TypeInv, RunType
    <3> QED
      BY <1>1, <3>1, <3>2
  <2>2. CASE Register(p)
    <3>1. CASE Fail(p) /\ UNCHANGED tables
      BY <1>3, <3>1 DEF Fail
    <3>2. CASE /\ registered' = registered \cup {model[p]}
               /\ pc' = [pc EXCEPT ![p] = "scan"] /\ UNCHANGED <<vec, model>>
      <4>1. \A q \in Runner : q # p => pc'[q] = pc[q]
        BY <3>2 DEF TypeInv, RunType
      <4> QED
        BY <1>1, <3>2, <4>1 DEF InRegisteredTable
    <3> QED
      BY <2>2, <3>1, <3>2 DEF Register
  <2>3. CASE Finish(p)
    BY <1>3, <2>3 DEF Finish
  <2>4. ASSUME NEW r \in pending[p], EmbedOne(p, r)
        PROVE  InRegisteredTable'
    <3>1. CASE Fail(p) /\ UNCHANGED vec
      BY <1>3, <2>4, <3>1 DEF Fail, EmbedOne, tables
    <3>2. CASE vec' = [vec EXCEPT ![TableOf(p)][r[1]] = model[p]] /\ UNCHANGED <<pc, model>>
      <4>1. \A t \in Table, h \in Hash : vec'[t][h] # None => vec[t][h] # None \/ t = TableOf(p)
        BY <3>2 DEF TypeInv, VecType
      <4>2. model[p] \in registered /\ UNCHANGED registered
        BY <2>4 DEF EmbedOne, InRegisteredTable
      <4> QED
        BY <1>1, <3>2, <4>1, <4>2 DEF TableOf
    <3> QED
      BY <2>4, <3>1, <3>2 DEF EmbedOne
  <2> QED
    BY <1>4, <2>1, <2>2, <2>3, <2>4 DEF Step
<1>5. ASSUME NEW p \in Runner, ServiceFails(p) \/ Killed(p)
      PROVE  InRegisteredTable'
  BY <1>3, <1>5 DEF ServiceFails, Killed, Fail
<1>6. ASSUME NEW D, NEW V \in [Table -> [Hash -> Model \cup {None}]], Fewer(V), Leaves(D, V)
      PROVE  InRegisteredTable'
  <2>1. UNCHANGED <<registered, pc, model>>
    BY <1>6 DEF Leaves
  <2>2. \A t \in Table, h \in Hash : vec'[t][h] # None => vec[t][h] # None
    BY <1>6 DEF Leaves, Cascade, Fewer
  <2> QED
    BY <1>1, <2>1, <2>2
<1>7. CASE \/ \E f \in File : Deactivate(f) \/ \E h \in Hash : IndexFile(f, h)
           \/ \E c \in Coll : RemoveCollection(c)
  BY <1>6, <1>7, VecFewer DEF Deactivate, IndexFile, RemoveCollection
<1>8. CASE EndCleanup
  <2> DEFINE V == [t \in Table |-> [h \in Hash |->
                     IF <<t, h>> \in victims THEN None ELSE vec[t][h]]]
  <2>1. V \in [Table -> [Hash -> Model \cup {None}]] /\ Fewer(V)
    BY DEF TypeInv, VecType, Fewer
  <2>2. PICK D : Leaves(D, V)
    BY <1>8 DEF EndCleanup
  <2> HIDE DEF V
  <2> QED
    BY <1>6, <2>1, <2>2
<1>9. CASE BeginCleanup \/ UNCHANGED vars
  BY <1>1, <1>9 DEF BeginCleanup, vars, runs, tables
<1> QED
  BY <1>2, <1>4, <1>5, <1>7, <1>8, <1>9 DEF Next

LEMMA LiveCollectionKept ==
  ASSUME TypeInv, InLiveCollection, [Next]_vars
  PROVE  InLiveCollection'
<1>1. CASE UNCHANGED store
  BY <1>1 DEF store, InLiveCollection
<1>2. ASSUME NEW f \in File, NEW h \in Hash, IndexFile(f, h)
      PROVE  InLiveCollection'
  BY <1>2 DEF IndexFile, Leaves, InLiveCollection, TypeInv, DocType
<1>3. ASSUME NEW f \in File, Deactivate(f)
      PROVE  InLiveCollection'
  BY <1>3 DEF Deactivate, Leaves, InLiveCollection, TypeInv, DocType
<1>4. ASSUME NEW c \in Coll, RemoveCollection(c)
      PROVE  InLiveCollection'
  BY <1>4 DEF RemoveCollection, Leaves, InLiveCollection
<1>5. CASE EndCleanup
  BY <1>5 DEF EndCleanup, Leaves, InLiveCollection
<1>6. ASSUME NEW p \in Runner, Step(p) \/ ServiceFails(p) \/ Killed(p)
      PROVE  UNCHANGED store
  BY <1>6 DEF Step, Probe, Register, Scan, Finish, EmbedOne, ServiceFails, Killed
<1>7. ASSUME NEW p \in Runner, NEW m \in Model, NEW C \in SUBSET Coll, Begin(p, m, C)
      PROVE  UNCHANGED store
  BY <1>7 DEF Begin
<1>8. CASE BeginCleanup \/ UNCHANGED vars
  BY <1>1, <1>8 DEF BeginCleanup, vars
<1> QED
  BY <1>1, <1>2, <1>3, <1>4, <1>5, <1>6, <1>7, <1>8 DEF Next

\* Nothing is added to what cleanup would have to delete, unless somebody
\* commits and it is not alone any more.
LEMMA VictimsKept ==
  ASSUME TypeInv, InRegisteredTable, VictimsAreAll, [Next]_vars
  PROVE  VictimsAreAll'
<1>1. CASE UNCHANGED <<cleaning, alone, victims, vec, doc>>
  BY <1>1 DEF VictimsAreAll, Active
<1>2. CASE alone' = FALSE
  BY <1>2 DEF VictimsAreAll
<1>3. CASE cleaning' = FALSE
  BY <1>3 DEF VictimsAreAll
<1>4. CASE BeginCleanup
  <2>1. victims' = Stale /\ UNCHANGED <<vec, doc>>
    BY <1>4 DEF BeginCleanup, tables, store
  <2>2. \A t \in Table, h \in Hash :
          vec[t][h] # None /\ h \notin Active(doc, Coll) => <<t, h>> \in Stale
    BY DEF Stale, Vectors, InRegisteredTable
  <2> QED
    BY <2>1, <2>2 DEF VictimsAreAll, Active
<1>5. ASSUME NEW p \in Runner, NEW m \in Model, NEW C \in SUBSET Coll, Begin(p, m, C)
      PROVE  VictimsAreAll'
  BY <1>1, <1>5 DEF Begin, store, tables, cleanup
<1>6. ASSUME NEW p \in Runner, Step(p)
      PROVE  VictimsAreAll'
  <2>1. CASE Probe(p) \/ Register(p) \/ Scan(p) \/ Finish(p)
    BY <1>1, <2>1 DEF Probe, Register, Scan, Finish, store, tables, cleanup
  <2>2. ASSUME NEW r \in pending[p], EmbedOne(p, r)
        PROVE  VictimsAreAll'
    BY <1>1, <1>2, <2>2 DEF EmbedOne, store
  <2> QED
    BY <1>6, <2>1, <2>2 DEF Step
<1>7. ASSUME NEW p \in Runner, ServiceFails(p) \/ Killed(p)
      PROVE  VictimsAreAll'
  BY <1>1, <1>7 DEF ServiceFails, Killed, store, tables, cleanup
<1>8. CASE \/ \E f \in File : Deactivate(f) \/ \E h \in Hash : IndexFile(f, h)
           \/ \E c \in Coll : RemoveCollection(c)
  BY <1>2, <1>8 DEF Deactivate, IndexFile, RemoveCollection
<1>9. CASE EndCleanup
  BY <1>3, <1>9 DEF EndCleanup
<1>10. CASE UNCHANGED vars
  BY <1>1, <1>10 DEF vars, store, tables, cleanup
<1> QED
  BY <1>4, <1>5, <1>6, <1>7, <1>8, <1>9, <1>10 DEF Next

LEMMA ReclaimStep ==
  ASSUME ReclaimInv, EndCleanup, alone, NEW t \in Table, NEW h \in Hash, vec'[t][h] # None
  PROVE  h \in Active(doc', live)
<1>1. vec[t][h] # None /\ <<t, h>> \notin victims
  BY DEF EndCleanup, Leaves, Cascade
<1>2. PICK f \in File : doc[f] # None /\ doc[f].active /\ doc[f].hash = h
  BY <1>1 DEF EndCleanup, ReclaimInv, VictimsAreAll, Active
<1>3. doc'[f] = doc[f] /\ live' = live
  BY <1>2 DEF EndCleanup, Leaves
<1>4. CollOf(f) \in live
  BY <1>2 DEF ReclaimInv, InLiveCollection
<1> QED
  BY <1>2, <1>3, <1>4 DEF Active

\* cleanup_orphaned_embeddings, when nobody else commits between its look and
\* its own commit, leaves vectors of active documents only, whatever models
\* are registered and whatever their tables hold.
THEOREM CleanupReclaims == Spec => SoloCleanupReclaims
<1>1. Init => ReclaimInv
  <2>1. Init => InRegisteredTable
    BY DEF Init, InRegisteredTable
  <2>2. Init => InLiveCollection
    BY EmbedAssumption DEF Init, InLiveCollection, CollOf
  <2>3. Init => VictimsAreAll
    BY DEF Init, VictimsAreAll
  <2> QED
    BY <2>1, <2>2, <2>3, InitType DEF ReclaimInv
<1>2. ReclaimInv /\ [Next]_vars => ReclaimInv'
  BY NextType, RegisteredTableKept, LiveCollectionKept, VictimsKept DEF ReclaimInv
<1>3. ReclaimInv /\ [Next]_vars =>
        [cleaning /\ ~cleaning' /\ alone =>
           \A t \in Table, h \in Hash :
             vec'[t][h] # None => h \in Active(doc', live)]_vars
  <2> SUFFICES ASSUME ReclaimInv, [Next]_vars, cleaning, ~cleaning', alone,
                      NEW t \in Table, NEW h \in Hash, vec'[t][h] # None
               PROVE  h \in Active(doc', live)
    OBVIOUS
  <2>1. EndCleanup
    <3>1. ASSUME NEW p \in Runner,
                 \/ \E m \in Model, C \in SUBSET Coll : Begin(p, m, C)
                 \/ Step(p) \/ ServiceFails(p) \/ Killed(p)
          PROVE  cleaning' = cleaning
      BY <3>1 DEF Begin, Step, Probe, Register, Scan, Finish, EmbedOne, ServiceFails,
         Killed, cleanup
    <3>2. CASE \/ \E f \in File : Deactivate(f) \/ \E b \in Hash : IndexFile(f, b)
               \/ \E c \in Coll : RemoveCollection(c)
      BY <3>2 DEF Deactivate, IndexFile, RemoveCollection
    <3>3. CASE BeginCleanup \/ UNCHANGED vars
      BY <3>3 DEF BeginCleanup, vars, cleanup
    <3> QED
      BY <3>1, <3>2, <3>3 DEF Next
  <2> QED
    BY <2>1, ReclaimStep
<1> QED
  BY <1>1, <1>2, <1>3, PTL DEF Spec, SoloCleanupReclaims
=============================================================================
