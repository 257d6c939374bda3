---------------------------- MODULE ReadersProofs ----------------------------
(***************************************************************************)
(* Proofs about the commands that read the index (Readers.tla), for any    *)
(* collections, trees, requests and searches, and any number of commits    *)
(* beside them.                                                            *)
(***************************************************************************)
EXTENDS Readers, FiniteSetTheorems, FunctionTheorems, SequenceTheorems, WellFoundedInduction,
        TLAPS

\* What a search vector is built from.
Entry == [name : Segment, hash : Hash]

\* TypeOK, by what its parts are about.
RowsType ==
  /\ name \in [Coll -> Segment \cup {None}]
  /\ doc \in [File -> Row \cup {None}] /\ content \subseteq Hash
  /\ \A f \in File : doc[f] # None => doc[f].hash \in content /\ name[CollOf(f)] # None
  /\ \A f \in File : vector[f] # None <=> doc[f] # None
  /\ \A f \in File : vector[f] \in Entry \cup {None}
  /\ embedded # None => embedded \subseteq content
SettingsType ==
  /\ default \subseteq Live /\ ctx \subseteq Live \X Prefix /\ global \in BOOLEAN
ReaderType ==
  /\ ask \in Asks \cup {None} /\ pc \in Location
  /\ pc = "scope" => ask \in Asks /\ ask.op \in {"search", "vsearch"}
  /\ scope \subseteq Segment /\ ids \subseteq Coll
HistoryType == quiet \in BOOLEAN /\ writes \in 0..MaxWrites
TypeInv == RowsType /\ SettingsType /\ ReaderType /\ HistoryType

LEMMA FileType == \A f \in File : CollOf(f) \in Coll
BY ReadersAssumption DEF CollOf

LEMMA TypeInvImpliesTypeOK == TypeInv => TypeOK
BY FileType DEF TypeInv, RowsType, SettingsType, ReaderType, HistoryType, TypeOK, Live

LEMMA InitType == Init => TypeInv
<1> SUFFICES ASSUME Init PROVE TypeInv
  OBVIOUS
<1>1. RowsType
  <2>1. PICK tree \in Tree :
          /\ doc = [f \in File |-> IF tree[f] = None THEN None
                                   ELSE [hash |-> tree[f], active |-> TRUE]]
          /\ content = {tree[f] : f \in File} \ {None}
          /\ vector = [f \in File |-> IF tree[f] = None THEN None
                                      ELSE [name |-> Born[CollOf(f)], hash |-> tree[f]]]
    BY DEF Init
  <2>2. \A f \in File : tree[f] # None => tree[f] \in Hash
    BY ReadersAssumption
  <2>3. \A f \in File, h \in Hash : /\ [name |-> Born[CollOf(f)], hash |-> h] # None
                                    /\ [name |-> Born[CollOf(f)], hash |-> h] \in Entry
                                    /\ [hash |-> h, active |-> TRUE] \in Row
                                    /\ [hash |-> h, active |-> TRUE] # None
    <3>1. /\ None \notin [name : Segment, hash : Hash] /\ None \notin Row
          /\ \A c \in Coll : Born[c] \in Segment
      BY ReadersAssumption
    <3>2. \A f \in File : Born[CollOf(f)] \in Segment
      BY <3>1, FileType
    <3>3. \A h \in Hash : [hash |-> h, active |-> TRUE] \in Row
      BY DEF Row
    <3>4. \A f \in File, h \in Hash :
            [name |-> Born[CollOf(f)], hash |-> h] \in [name : Segment, hash : Hash]
      BY <3>2
    <3> QED
      BY <3>1, <3>3, <3>4, Zenon DEF Entry
  <2>4. doc \in [File -> Row \cup {None}] /\ content \subseteq Hash
    BY <2>1, <2>2, <2>3
  <2>5. \A f \in File : /\ vector[f] # None <=> doc[f] # None
                        /\ vector[f] \in Entry \cup {None}
    BY <2>1, <2>2, <2>3
  <2>6. \A f \in File : doc[f] # None => doc[f].hash \in content
    BY <2>1
  <2>7. name \in [Coll -> Segment \cup {None}] /\ \A c \in Coll : name[c] # None
    BY ReadersAssumption DEF Init
  <2>8. embedded = None
    BY DEF Init
  <2> QED
    BY <2>4, <2>5, <2>6, <2>7, <2>8, FileType DEF RowsType
<1>2. SettingsType
  <2>1. \A c \in Coll : Born[c] # None
    BY ReadersAssumption
  <2>2. default = Coll /\ name = Born /\ ctx = {} /\ global = FALSE
    BY DEF Init
  <2> QED
    BY <2>1, <2>2 DEF SettingsType, Live
<1>3. ReaderType
  BY DEF Init, ReaderType, Location
<1>4. HistoryType
  BY ReadersAssumption DEF Init, HistoryType
<1> QED
  BY <1>1, <1>2, <1>3, <1>4 DEF TypeInv

-----------------------------------------------------------------------------
(* The writers keep documents, bodies, vectors and contexts together.      *)

\* A commit leaves the reader where it is.
LEMMA CommittedType ==
  ASSUME TypeInv, NEW lost, Committed(lost)
  PROVE  ReaderType' /\ HistoryType'
<1>1. ReaderType'
  BY DEF Committed, reader, TypeInv, ReaderType
<1>2. quiet' \in BOOLEAN
  BY Zenon DEF Committed
<1>3. writes' \in 0..MaxWrites
  BY ReadersAssumption DEF Committed, TypeInv, HistoryType
<1> QED
  BY <1>1, <1>2, <1>3 DEF HistoryType

LEMMA ReindexType ==
  ASSUME TypeInv, NEW c \in Coll, NEW tree \in Tree, Reindex(c, tree)
  PROVE  TypeInv'
<1> DEFINE Changed(f) == /\ CollOf(f) = c /\ tree[f] # None
                         /\ doc[f] # [hash |-> tree[f], active |-> TRUE]
<1>1. /\ name[c] # None /\ UNCHANGED <<name, default, ctx, global>>
      /\ doc' = [f \in File |->
           IF Changed(f) THEN [hash |-> tree[f], active |-> TRUE]
           ELSE IF CollOf(f) = c /\ tree[f] = None /\ doc[f] # None
                THEN [doc[f] EXCEPT !.active = FALSE] ELSE doc[f]]
      /\ vector' = [f \in File |-> IF Changed(f) THEN [name |-> name[c], hash |-> tree[f]]
                                   ELSE vector[f]]
      /\ content' = Referenced(doc')
      /\ embedded' = IF embedded = None THEN None ELSE embedded \cap content'
  BY DEF Reindex
<1>2. \A f \in File : tree[f] # None => tree[f] \in Hash
  BY ReadersAssumption
<1>3. \A h \in Hash : /\ [name |-> name[c], hash |-> h] # None
                      /\ [name |-> name[c], hash |-> h] \in Entry
                      /\ [hash |-> h, active |-> TRUE] \in Row
  BY <1>1, ReadersAssumption DEF Row, Entry, TypeInv, RowsType
<1>4. \A r \in Row : [r EXCEPT !.active = FALSE] \in Row /\ r # None
  BY ReadersAssumption DEF Row
<1>5. doc' \in [File -> Row \cup {None}]
  BY <1>1, <1>2, <1>3, <1>4 DEF TypeInv, RowsType
<1>6. \A f \in File : doc'[f] # None => doc[f] # None \/ Changed(f)
  BY <1>1
<1>7. \A f \in File : doc[f] # None \/ Changed(f) => doc'[f] # None
  BY <1>1, <1>2, <1>3, <1>4 DEF TypeInv, RowsType
<1>8. \A f \in File : vector'[f] # None <=> doc'[f] # None
  BY <1>1, <1>2, <1>3, <1>6, <1>7 DEF TypeInv, RowsType
<1>14. \A f \in File : vector'[f] \in Entry \cup {None}
  BY <1>1, <1>2, <1>3 DEF TypeInv, RowsType
<1>9. content' \subseteq Hash /\ \A f \in File : doc'[f] # None => doc'[f].hash \in content'
  BY <1>1, <1>5 DEF Referenced, Row
<1>10. \A f \in File : doc'[f] # None => name'[CollOf(f)] # None
  BY <1>1, <1>6 DEF TypeInv, RowsType
<1>11. RowsType'
  BY <1>1, <1>5, <1>8, <1>9, <1>10, <1>14 DEF TypeInv, RowsType
<1>12. SettingsType'
  BY <1>1 DEF TypeInv, SettingsType, Live
<1>13. ReaderType' /\ HistoryType'
  BY CommittedType DEF Reindex
<1> QED
  BY <1>11, <1>12, <1>13 DEF TypeInv

\* Documents go, and with the sweep the bodies and vectors nobody refers to.
LEMMA SweptType ==
  ASSUME TypeInv, Swept,
         doc' \in [File -> Row \cup {None}], name' \in [Coll -> Segment \cup {None}],
         \A f \in File : doc'[f] # None => doc'[f] = doc[f] /\ name'[CollOf(f)] # None,
         \A f \in File : vector'[f] # None <=> doc'[f] # None,
         \A f \in File : vector'[f] \in {vector[f], None}
  PROVE  RowsType'
<1>1. \A f \in File : doc'[f] # None => doc'[f].hash \in content \cap Referenced(doc')
  BY DEF TypeInv, RowsType, Referenced
<1>2. \A f \in File : vector'[f] \in Entry \cup {None}
  BY DEF TypeInv, RowsType
<1> QED
  BY <1>1, <1>2 DEF TypeInv, RowsType, Swept

LEMMA RemoveCollectionType ==
  ASSUME TypeInv, NEW c \in Coll, RemoveCollection(c)
  PROVE  TypeInv'
<1>1. /\ name' = [name EXCEPT ![c] = None] /\ default' = default \ {c}
      /\ doc' = [f \in File |-> IF CollOf(f) = c THEN None ELSE doc[f]]
      /\ vector' = [f \in File |-> IF CollOf(f) = c THEN None ELSE vector[f]]
      /\ ctx' = {x \in ctx : x[1] # c} /\ Swept /\ UNCHANGED global
  BY DEF RemoveCollection
<1>2. doc' \in [File -> Row \cup {None}] /\ name' \in [Coll -> Segment \cup {None}]
  BY <1>1 DEF TypeInv, RowsType
<1>3. \A f \in File : doc'[f] # None => doc'[f] = doc[f] /\ name'[CollOf(f)] # None
  BY <1>1, FileType DEF TypeInv, RowsType
<1>4. \A f \in File : vector'[f] # None <=> doc'[f] # None
  BY <1>1 DEF TypeInv, RowsType
<1>7. \A f \in File : vector'[f] \in {vector[f], None}
  BY <1>1
<1>5. RowsType'
  BY <1>1, <1>2, <1>3, <1>4, <1>7, SweptType
<1>6. SettingsType'
  BY <1>1 DEF TypeInv, RowsType, SettingsType, Live
<1> QED
  BY <1>5, <1>6, CommittedType DEF RemoveCollection, TypeInv

LEMMA CleanupType ==
  ASSUME TypeInv, Cleanup
  PROVE  TypeInv'
<1>1. /\ doc' = [f \in File |-> IF f \in Active THEN doc[f] ELSE None]
      /\ vector' = [f \in File |-> IF f \in Active THEN vector[f] ELSE None]
      /\ Swept /\ UNCHANGED <<name, default, ctx, global>>
  BY DEF Cleanup
<1>2. doc' \in [File -> Row \cup {None}] /\ name' \in [Coll -> Segment \cup {None}]
  BY <1>1 DEF TypeInv, RowsType
<1>3. \A f \in File : doc'[f] # None => doc'[f] = doc[f] /\ name'[CollOf(f)] # None
  BY <1>1 DEF TypeInv, RowsType
<1>4. \A f \in File : vector'[f] # None <=> doc'[f] # None
  BY <1>1 DEF TypeInv, RowsType
<1>7. \A f \in File : vector'[f] \in {vector[f], None}
  BY <1>1
<1>5. RowsType'
  BY <1>1, <1>2, <1>3, <1>4, <1>7, SweptType
<1>6. SettingsType'
  BY <1>1 DEF TypeInv, SettingsType, Live
<1> QED
  BY <1>5, <1>6, CommittedType DEF Cleanup, TypeInv

LEMMA RenameCollectionType ==
  ASSUME TypeInv, NEW c \in Coll, NEW n \in Names, RenameCollection(c, n)
  PROVE  TypeInv'
<1>1. /\ name' = [name EXCEPT ![c] = n]
      /\ UNCHANGED <<default, doc, content, vector, embedded, ctx, global>>
  BY DEF RenameCollection
<1>2. n \in Segment /\ n # None
  BY ReadersAssumption
<1>3. /\ name' \in [Coll -> Segment \cup {None}]
      /\ \A d \in Coll : name[d] # None => name'[d] # None
  BY <1>1, <1>2 DEF TypeInv, RowsType
<1>4. RowsType'
  BY <1>1, <1>3, FileType DEF TypeInv, RowsType
<1>5. SettingsType'
  BY <1>1, <1>3 DEF TypeInv, SettingsType, Live
<1> QED
  BY <1>4, <1>5, CommittedType DEF RenameCollection, TypeInv

LEMMA EmbedType ==
  ASSUME TypeInv, Embed
  PROVE  TypeInv'
<1>1. UNCHANGED <<name, default, doc, content, vector, ctx, global>>
  BY DEF Embed
<1>2. PICK S \in SUBSET {doc[f].hash : f \in Active} :
        embedded' = (IF embedded = None THEN {} ELSE embedded) \cup S
  BY DEF Embed
<1>3. S \subseteq content
  BY <1>2 DEF Active, TypeInv, RowsType
<1>4. RowsType'
  BY <1>1, <1>2, <1>3 DEF TypeInv, RowsType
<1>5. SettingsType'
  BY <1>1 DEF TypeInv, SettingsType, Live
<1> QED
  BY <1>4, <1>5, CommittedType DEF Embed, TypeInv

\* Settings and contexts leave the rows alone.
LEMMA SettingsChangeType ==
  ASSUME TypeInv,
         \/ \E c \in Coll : SetIncludeByDefault(c)
         \/ \E c \in Coll, x \in Prefix : AddContext(c, x) \/ RemoveContext(c, x)
         \/ SetGlobalContext
  PROVE  TypeInv'
<1>1. UNCHANGED <<name, doc, content, vector, embedded>> /\ Committed({})
  BY DEF SetIncludeByDefault, AddContext, RemoveContext, SetGlobalContext, ContextOnly
<1>2. RowsType'
  BY <1>1 DEF TypeInv, RowsType
<1>3. default' \subseteq Live' /\ ctx' \subseteq Live' \X Prefix
  <2>1. Live' = Live /\ default \subseteq Live /\ ctx \subseteq Live \X Prefix
    BY <1>1 DEF TypeInv, SettingsType, Live
  <2>2. ASSUME NEW c \in Coll, SetIncludeByDefault(c)
        PROVE  default' \subseteq Live' /\ ctx' \subseteq Live' \X Prefix
    BY <2>1, <2>2 DEF SetIncludeByDefault, Live
  <2>3. ASSUME NEW c \in Coll, NEW x \in Prefix, AddContext(c, x) \/ RemoveContext(c, x)
        PROVE  default' \subseteq Live' /\ ctx' \subseteq Live' \X Prefix
    <3>1. default' = default
      BY <2>3 DEF AddContext, RemoveContext, ContextOnly
    <3>2. ctx' \subseteq ctx \cup {<<c, x>>} /\ (ctx' \subseteq ctx \/ c \in Live)
      BY <2>3 DEF AddContext, RemoveContext, Live
    <3> QED
      BY <2>1, <3>1, <3>2
  <2>4. CASE SetGlobalContext
    BY <2>1, <2>4 DEF SetGlobalContext, ContextOnly
  <2> QED
    BY <2>2, <2>3, <2>4
<1>4. global' \in BOOLEAN
  <2>1. CASE SetGlobalContext
    BY <2>1, Zenon DEF SetGlobalContext
  <2>2. CASE UNCHANGED global
    BY <2>2 DEF TypeInv, SettingsType
  <2> QED
    BY <2>1, <2>2 DEF SetIncludeByDefault, AddContext, RemoveContext
<1> QED
  BY <1>1, <1>2, <1>3, <1>4, CommittedType DEF TypeInv, SettingsType

LEMMA WriteType ==
  ASSUME TypeInv, Write
  PROVE  TypeInv'
BY ReindexType, RemoveCollectionType, CleanupType, RenameCollectionType, EmbedType,
   SettingsChangeType DEF Write

-----------------------------------------------------------------------------
(* The readers change nothing but themselves.                              *)

LEMMA IndexUnchanged ==
  ASSUME TypeInv, UNCHANGED index
  PROVE  RowsType' /\ SettingsType'
BY DEF index, TypeInv, RowsType, SettingsType, Live

LEMMA AskType ==
  ASSUME TypeInv, NEW a \in Asks, Ask(a)
  PROVE  TypeInv'
<1>1. UNCHANGED <<index, scope, ids, writes>> /\ ask' = a /\ quiet' \in BOOLEAN
  BY DEF Ask
<1>2. pc' \in Location /\ (pc' = "scope" => a.op \in {"search", "vsearch"})
  BY DEF Ask, Goto, Search, Location
<1> QED
  BY <1>1, <1>2, IndexUnchanged DEF TypeInv, ReaderType, HistoryType

LEMMA LeaveType ==
  ASSUME TypeInv, Leave
  PROVE  TypeInv'
<1>1. /\ UNCHANGED <<index, writes>> /\ ask' = None /\ quiet' \in BOOLEAN
      /\ pc' = "idle" /\ scope' = {} /\ ids' = {}
  BY DEF Leave, Clear, Goto
<1> QED
  BY <1>1, IndexUnchanged DEF TypeInv, ReaderType, HistoryType, Location

LEMMA ResolveScopeType ==
  ASSUME TypeInv, ResolveScope
  PROVE  TypeInv'
<1>1. UNCHANGED <<index, ask, quiet, writes, ids>> /\ pc' = "ids"
  BY DEF ResolveScope, At, Goto
<1>2. scope' \subseteq Segment
  <2>1. ask.scope \subseteq Segment
    BY ReadersAssumption DEF ResolveScope, At, TypeInv, ReaderType
  <2>2. {name[c] : c \in default} \subseteq Segment
    BY DEF TypeInv, RowsType, SettingsType, Live
  <2> QED
    BY <2>1, <2>2 DEF ResolveScope
<1> QED
  BY <1>1, <1>2, IndexUnchanged DEF TypeInv, ReaderType, HistoryType, Location

\* No other statement of a reader touches its scope or begins another.
LEMMA StatementType ==
  ASSUME TypeInv, Statement
  PROVE  TypeInv'
<1> DEFINE Moves == /\ UNCHANGED <<index, ask, quiet, writes, scope>>
                    /\ ids' \subseteq Coll /\ pc' \in Location \ {"scope"}
<1>1. CASE Moves
  BY <1>1, IndexUnchanged DEF TypeInv, ReaderType, HistoryType
<1>2. CASE ResolveIds
  <2>1. ids' \subseteq Coll
    BY <1>2 DEF ResolveIds, Live
  <2>2. pc' \in Location \ {"scope"}
    BY <1>2 DEF ResolveIds, Goto, Location
  <2> QED
    BY <1>1, <1>2, <2>1, <2>2 DEF ResolveIds, At
<1>3. CASE ActiveDocumentRefs
  BY <1>1, <1>3 DEF ActiveDocumentRefs, At, Goto, Location, TypeInv, ReaderType
<1>4. CASE GlobalContext \/ GetContextForPath
  BY <1>1, <1>4 DEF GlobalContext, GetContextForPath, At, Improve, Finish, Goto, Location,
     TypeInv, ReaderType
<1>5. CASE DocumentBodyLength
  BY <1>1, <1>5 DEF DocumentBodyLength, At, Improve, Finish, Raise, Goto, Location,
     TypeInv, ReaderType
<1>6. CASE DocumentBody
  BY <1>1, <1>6 DEF DocumentBody, At, Improve, Finish, Raise, Goto, Location,
     TypeInv, ReaderType
<1>7. CASE ListFiles \/ EmbedQuery \/ SelectRows
  BY <1>1, <1>7 DEF ListFiles, EmbedQuery, SelectRows, At, Goto, Location,
     TypeInv, ReaderType
<1>8. CASE CollectionNamesById
  BY <1>1, <1>8 DEF CollectionNamesById, At, Raise, Goto, Location, TypeInv, ReaderType
<1>9. CASE ListCollections \/ VectorIndexHealth
  BY <1>1, <1>9 DEF ListCollections, VectorIndexHealth, At, Goto, Location,
     TypeInv, ReaderType
<1>10. CASE ListPrefixes
  BY <1>1, <1>10 DEF ListPrefixes, NextRow, Improve, At, Goto, Location, TypeInv, ReaderType
<1>11. CASE CheckPaths \/ CountDocuments
  BY <1>1, <1>11 DEF CheckPaths, CountDocuments, NextRow, At, Goto, Location,
     TypeInv, ReaderType
<1> QED
  BY <1>2, <1>3, <1>4, <1>5, <1>6, <1>7, <1>8, <1>9, <1>10, <1>11, ResolveScopeType
     DEF Statement

LEMMA NextType ==
  ASSUME TypeInv, [Next]_vars
  PROVE  TypeInv'
<1>1. CASE UNCHANGED vars
  BY <1>1, IndexUnchanged DEF vars, reader, TypeInv, ReaderType, HistoryType
<1>2. CASE Next
  BY <1>2, StatementType, LeaveType, WriteType, AskType DEF Next
<1> QED
  BY <1>1, <1>2

\* Whatever is committed between the statements of a reader, each of them finds
\* an index in one piece: an active or inactive document has its collection,
\* its body and a search vector, vectors have their body, and no context or
\* default outlives its collection.
THEOREM ReadersTypeCorrect == Spec => []TypeOK
<1>1. Init => TypeInv
  BY InitType
<1>2. TypeInv /\ [Next]_vars => TypeInv'
  BY NextType
<1>3. TypeInv => TypeOK
  BY TypeInvImpliesTypeOK
<1> QED
  BY <1>1, <1>2, <1>3, PTL DEF Spec

-----------------------------------------------------------------------------
(* Sequences: what is enumerated, cut and kept.                            *)

LEMMA ToSetOfSeq ==
  ASSUME NEW S, NEW s \in Seq(S)
  PROVE  /\ ToSet(s) = {s[i] : i \in 1..Len(s)} /\ ToSet(s) \subseteq S
         /\ Len(s) \in Nat /\ DOMAIN s = 1..Len(s)
BY DEF ToSet

LEMMA EnumerationFacts ==
  ASSUME NEW S, IsFiniteSet(S), NEW s \in Enumerations(S)
  PROVE  /\ s \in Seq(S) /\ DOMAIN s = 1..Len(s) /\ Len(s) = Cardinality(S)
         /\ ToSet(s) = S /\ s \in Bijection(1..Len(s), S)
<1> DEFINE n == Cardinality(S)
<1>1. n \in Nat
  BY FS_CardinalityType
<1>2. s \in Bijection(1..n, S)
  BY DEF Enumerations
<1> HIDE DEF n
<1>3. s \in [1..n -> S] /\ \A t \in S : \E i \in 1..n : s[i] = t
  BY <1>2 DEF Bijection, Injection, Surjection
<1>4. s \in Seq(S) /\ Len(s) = n /\ DOMAIN s = 1..n
  BY <1>1, <1>3
<1>5. ToSet(s) = S
  BY <1>3, <1>4 DEF ToSet
<1> QED
  BY <1>2, <1>4, <1>5 DEF n

LEMMA CutFacts ==
  ASSUME NEW S, NEW s \in Seq(S), NEW n \in Nat
  PROVE  /\ Cut(s, n) \in Seq(S)
         /\ Len(Cut(s, n)) = IF Len(s) < n THEN Len(s) ELSE n
         /\ \A i \in 1..Len(Cut(s, n)) : Cut(s, n)[i] = s[i]
         /\ Len(Cut(s, n)) <= Len(s)
<1> DEFINE m == IF Len(s) < n THEN Len(s) ELSE n
<1>1. m \in Nat /\ m <= Len(s) /\ m \in Int /\ 1 \in Int
  OBVIOUS
<1>2. \A i \in 1..m : s[i] \in S
  BY <1>1
<1> HIDE DEF m
<1>3. /\ SubSeq(s, 1, m) \in Seq(S)
      /\ Len(SubSeq(s, 1, m)) = IF 1 <= m THEN m - 1 + 1 ELSE 0
      /\ \A i \in 1..m - 1 + 1 : SubSeq(s, 1, m)[i] = s[1 + i - 1]
  BY <1>1, <1>2, SubSeqProperties
<1>4. Len(SubSeq(s, 1, m)) = m
  BY <1>1, <1>3
<1>5. \A i \in 1..m : SubSeq(s, 1, m)[i] = s[i]
  BY <1>1, <1>3
<1> QED
  BY <1>1, <1>3, <1>4, <1>5 DEF Cut, m

\* A subset of positions, in order: finite, and a sequence again.
LEMMA PositionsFacts ==
  ASSUME NEW S, NEW s \in Seq(S), NEW P \in SUBSET DOMAIN s, NEW k \in Ascending(P)
  PROVE  /\ [i \in DOMAIN k |-> s[k[i]]] \in Seq(S)
         /\ ToSet([i \in DOMAIN k |-> s[k[i]]]) = {s[i] : i \in P}
         /\ Len([i \in DOMAIN k |-> s[k[i]]]) = Len(k)
<1>1. IsFiniteSet(P)
  <2>1. IsFiniteSet(1..Len(s))
    BY FS_Interval
  <2> QED
    BY <2>1, FS_Subset
<1>2. k \in Enumerations(P)
  BY DEF Ascending
<1>3. k \in Seq(P) /\ DOMAIN k = 1..Len(k) /\ ToSet(k) = P
  BY <1>1, <1>2, EnumerationFacts
<1>4. Len(k) \in Nat
  BY <1>3
<1> DEFINE t == [i \in DOMAIN k |-> s[k[i]]]
<1>5. t \in [1..Len(k) -> S]
  BY <1>3
<1>6. t \in Seq(S) /\ Len(t) = Len(k) /\ DOMAIN t = DOMAIN k
  BY <1>3, <1>4, <1>5
<1>7. ToSet(t) = {s[i] : i \in P}
  BY <1>3, <1>6 DEF ToSet
<1> QED
  BY <1>6, <1>7

LEMMA TailFacts ==
  ASSUME NEW S, NEW s \in Seq(S), s # <<>>
  PROVE  /\ Head(s) \in S /\ Head(s) = s[1] /\ Head(s) \in ToSet(s)
         /\ Tail(s) \in Seq(S) /\ Len(Tail(s)) = Len(s) - 1 /\ Len(s) \in Nat \ {0}
         /\ ToSet(s) = {Head(s)} \cup ToSet(Tail(s))
<1>1. /\ Head(s) \in S /\ Head(s) = s[1] /\ Tail(s) \in Seq(S) /\ Len(Tail(s)) = Len(s) - 1
      /\ Len(s) \in Nat \ {0}
      /\ \A i \in 1..Len(Tail(s)) : Tail(s)[i] = s[i + 1]
  BY HeadTailProperties
<1>2. /\ ToSet(s) = {s[i] : i \in 1..Len(s)}
      /\ ToSet(Tail(s)) = {Tail(s)[i] : i \in 1..Len(Tail(s))}
  BY <1>1, ToSetOfSeq
<1>3. 1 \in 1..Len(s) /\ \A i \in 1..Len(Tail(s)) : i + 1 \in 1..Len(s)
  BY <1>1
<1>4. ToSet(s) \subseteq {Head(s)} \cup ToSet(Tail(s))
  <2> SUFFICES ASSUME NEW i \in 1..Len(s), i # 1
               PROVE  s[i] \in ToSet(Tail(s))
    BY <1>1, <1>2
  <2>1. i - 1 \in 1..Len(Tail(s)) /\ (i - 1) + 1 = i
    BY <1>1
  <2> QED
    BY <1>1, <1>2, <2>1
<1>5. {Head(s)} \cup ToSet(Tail(s)) \subseteq ToSet(s)
  BY <1>1, <1>2, <1>3
<1> QED
  BY <1>1, <1>4, <1>5

LEMMA AppendFacts ==
  ASSUME NEW S, NEW s \in Seq(S), NEW e \in S
  PROVE  /\ Append(s, e) \in Seq(S) /\ Len(Append(s, e)) = Len(s) + 1
         /\ ToSet(Append(s, e)) = ToSet(s) \cup {e}
<1>1. /\ Append(s, e) \in Seq(S) /\ Len(Append(s, e)) = Len(s) + 1 /\ Len(s) \in Nat
      /\ \A i \in 1..Len(s) : Append(s, e)[i] = s[i]
      /\ Append(s, e)[Len(s) + 1] = e
  BY AppendProperties
<1>2. /\ ToSet(s) = {s[i] : i \in 1..Len(s)}
      /\ ToSet(Append(s, e)) = {Append(s, e)[i] : i \in 1..Len(s) + 1}
  BY <1>1, ToSetOfSeq
<1>3. 1..Len(s) + 1 = 1..Len(s) \cup {Len(s) + 1}
  BY <1>1
<1> QED
  BY <1>1, <1>2, <1>3

\* A hit takes the place of the first one.
LEMMA ConsFacts ==
  ASSUME NEW S, NEW s \in Seq(S), s # <<>>, NEW e \in S
  PROVE  /\ <<e>> \o Tail(s) \in Seq(S) \ {<<>>} /\ Len(<<e>> \o Tail(s)) = Len(s)
         /\ Head(<<e>> \o Tail(s)) = e /\ Tail(<<e>> \o Tail(s)) = Tail(s)
         /\ ToSet(<<e>> \o Tail(s)) = {e} \cup ToSet(Tail(s))
<1> DEFINE t == <<e>> \o Tail(s)
<1>1. <<e>> \in Seq(S) /\ Len(<<e>>) = 1 /\ <<e>>[1] = e
  OBVIOUS
<1>2. Tail(s) \in Seq(S) /\ Len(Tail(s)) = Len(s) - 1 /\ Len(s) \in Nat \ {0}
  BY TailFacts
<1>3. /\ t \in Seq(S) /\ Len(t) = 1 + Len(Tail(s))
      /\ \A i \in 1..1 + Len(Tail(s)) : t[i] = IF i <= 1 THEN <<e>>[i] ELSE Tail(s)[i - 1]
  BY <1>1, <1>2, ConcatProperties
<1> HIDE DEF t
<1>4. Len(t) = Len(s) /\ t # <<>> /\ t[1] = e
  BY <1>1, <1>2, <1>3
<1>5. /\ Head(t) = t[1] /\ Tail(t) \in Seq(S) /\ Len(Tail(t)) = Len(t) - 1
      /\ ToSet(t) = {Head(t)} \cup ToSet(Tail(t))
      /\ \A i \in 1..Len(Tail(t)) : Tail(t)[i] = t[i + 1]
  BY <1>3, <1>4, TailFacts, HeadTailProperties
<1>6. Tail(t) = Tail(s)
  <2>1. \A i \in 1..Len(Tail(t)) : t[i + 1] = Tail(s)[i]
    <3> SUFFICES ASSUME NEW i \in 1..Len(Tail(t)) PROVE t[i + 1] = Tail(s)[i]
      OBVIOUS
    <3>1. i + 1 \in 1..1 + Len(Tail(s)) /\ ~(i + 1 <= 1) /\ (i + 1) - 1 = i
      BY <1>2, <1>4, <1>5
    <3> QED
      BY <1>3, <3>1
  <2>2. Len(Tail(t)) = Len(Tail(s))
    BY <1>2, <1>4, <1>5
  <2>3. \A i \in 1..Len(Tail(t)) : Tail(t)[i] = Tail(s)[i]
    BY <1>5, <2>1
  <2> QED
    BY <1>2, <1>5, <2>2, <2>3, SeqEqual
<1> QED
  BY <1>3, <1>4, <1>5, <1>6 DEF t

\* A search keeps nothing out of scope or below its score, and loses nothing
\* else unless it shows as much as it may.
LEMMA KeptFacts ==
  ASSUME NEW S, NEW s \in Seq(S), NEW t \in Kept(s)
  PROVE  /\ t \in Seq(S) /\ ToSet(t) \subseteq ToSet(s)
         /\ ask.op \notin Search => t = s
         /\ ask.op \in Search =>
              /\ \A h \in ToSet(t) : Passes(h)
              /\ \A h \in ToSet(s) : Passes(h) => h \in ToSet(t) \/ Len(t) = Limit
<1>1. CASE ask.op \notin Search
  BY <1>1 DEF Kept
<1>2. CASE ask.op \in Search
  <2>1. PICK u \in Filtered(s) : t = Cut(u, Limit)
    BY <1>2 DEF Kept
  <2>2. /\ u \in Seq(S) /\ ToSet(u) \subseteq ToSet(s)
        /\ \A h \in ToSet(u) : Passes(h)
        /\ \A h \in ToSet(s) : Passes(h) => h \in ToSet(u)
    <3> DEFINE P == {i \in DOMAIN s : Passes(s[i])}
    <3>1. PICK k \in Ascending(P) : u = [i \in DOMAIN k |-> s[k[i]]]
      BY <2>1 DEF Filtered
    <3>2. u \in Seq(S) /\ ToSet(u) = {s[i] : i \in P}
      BY <3>1, PositionsFacts
    <3> QED
      BY <3>2 DEF ToSet
  <2>3. Limit \in Nat
    BY ReadersAssumption
  <2>4. /\ t \in Seq(S) /\ Len(t) <= Len(u)
        /\ Len(t) = IF Len(u) < Limit THEN Len(u) ELSE Limit
        /\ \A i \in 1..Len(t) : t[i] = u[i]
    BY <2>1, <2>2, <2>3, CutFacts
  <2>5. Len(t) \in Nat /\ Len(u) \in Nat
    BY <2>2, <2>4
  <2>6. /\ ToSet(t) = {t[i] : i \in 1..Len(t)}
        /\ ToSet(u) = {u[i] : i \in 1..Len(u)}
    BY <2>2, <2>4, ToSetOfSeq
  <2>7. ToSet(t) \subseteq ToSet(u)
    BY <2>4, <2>5, <2>6
  <2>8. Len(t) = Limit \/ ToSet(t) = ToSet(u)
    BY <2>3, <2>4, <2>5, <2>6
  <2> QED
    BY <1>2, <2>2, <2>4, <2>7, <2>8
<1> QED
  BY <1>1, <1>2

-----------------------------------------------------------------------------
(* The way of a request.                                                   *)

\* The statements a request is made of.
Route(op) ==
  CASE op \in Search -> {"scope", "ids", "embed", "rows", "labels", "global", "context",
                         "done", "failed", "refused"}
    [] op = "check" -> {"collections", "prefixes", "paths", "done"}
    [] op = "status" -> {"collections", "paths", "ids", "health", "done"}
    [] op = "ls" -> {"ids", "files", "done", "missing"}
    [] op \in Lookups -> {"ids", "refs", "body", "global", "context", "done", "missing", "failed"}
    [] OTHER -> {"ids", "refs", "length", "body", "global", "context", "done", "failed"}

\* What it has gathered before it begins to look at it.
Flow ==
  /\ pc = "idle" => scope = {}
  /\ pc # "idle" => ask \in Asks /\ pc \in Route(ask.op)
  /\ pc # "idle" /\ ask.op \notin Search => scope = {}
  /\ pc \in {"idle", "scope", "ids", "collections", "prefixes", "paths"} => ids = {}
  /\ pc \in {"idle", "scope", "ids", "refs", "embed", "rows", "files", "collections", "done",
             "health", "missing", "refused"} => hits = <<>>
  /\ pc = "idle" \/ (pc \in {"scope", "ids", "refs", "embed", "rows", "labels", "files",
                             "missing", "refused"} /\ ask.op # "status") => answer = <<>>

\* What was true when a statement read it is in the request's past, and
\* what is not there any more is among what is gone.
Running == pc \notin Ended \cup {"idle"}
PastInv ==
  /\ past.names \subseteq Coll \X Segment
  /\ \A r \in past.rows : <<CollOf(r.file), r.name>> \in past.names
  /\ Running =>
       /\ Past.rows \subseteq past.rows /\ Past.names \subseteq past.names
       /\ Past.offered \subseteq past.offered
       /\ \A r \in past.rows : r.hash \in content \cup past.gone
       /\ \A e \in past.names : name[e[1]] # None \/ e[1] \in past.gone

LEMMA WriteCommits ==
  ASSUME TypeInv, Write
  PROVE  \E lost : /\ Committed(lost) /\ content \ content' \subseteq lost
                   /\ \A c \in Coll : name[c] # None => name'[c] # None \/ c \in lost
<1>1. ASSUME NEW c \in Coll, NEW tree \in Tree, Reindex(c, tree)
      PROVE  Committed(Lost) /\ name' = name
  BY <1>1 DEF Reindex
<1>2. ASSUME NEW c \in Coll, RemoveCollection(c)
      PROVE  Committed(Lost \cup {c}) /\ name' = [name EXCEPT ![c] = None]
  BY <1>2 DEF RemoveCollection
<1>3. ASSUME NEW c \in Coll, NEW n \in Names, RenameCollection(c, n)
      PROVE  Committed({}) /\ name' = [name EXCEPT ![c] = n] /\ n # None /\ content' = content
  BY <1>3, ReadersAssumption DEF RenameCollection
<1>4. ASSUME Cleanup
      PROVE  Committed(Lost) /\ name' = name
  BY <1>4 DEF Cleanup
<1>5. ASSUME \/ Embed \/ SetGlobalContext
             \/ \E c \in Coll : SetIncludeByDefault(c)
             \/ \E c \in Coll, x \in Prefix : AddContext(c, x) \/ RemoveContext(c, x)
      PROVE  Committed({}) /\ name' = name /\ content' = content
  BY <1>5 DEF Embed, SetGlobalContext, SetIncludeByDefault, AddContext, RemoveContext, ContextOnly
<1>6. name \in [Coll -> Segment \cup {None}]
  BY DEF TypeInv, RowsType
<1>7. CASE \E c \in Coll, tree \in Tree : Reindex(c, tree)
  BY <1>1, <1>7 DEF Lost
<1>8. CASE \E c \in Coll : RemoveCollection(c)
  <2>1. PICK c \in Coll : RemoveCollection(c)
    BY <1>8
  <2>2. Committed(Lost \cup {c}) /\ name' = [name EXCEPT ![c] = None]
    BY <1>2, <2>1
  <2> WITNESS Lost \cup {c}
  <2> QED
    BY <1>6, <2>2 DEF Lost
<1>9. CASE \E c \in Coll, n \in Names : RenameCollection(c, n)
  BY <1>3, <1>6, <1>9
<1>10. CASE Cleanup
  BY <1>4, <1>10 DEF Lost
<1> QED
  BY <1>5, <1>7, <1>8, <1>9, <1>10 DEF Write

\* Commits leave a request where it is; its past grows while it runs.
LEMMA WriteBeside ==
  ASSUME TypeInv, Write
  PROVE  /\ UNCHANGED reader /\ (pc # "idle" => ~quiet')
         /\ ~Running => UNCHANGED past
         /\ past.rows \subseteq past'.rows /\ past.names \subseteq past'.names
         /\ past.offered \subseteq past'.offered /\ past.gone \subseteq past'.gone
<1>1. PICK lost : Committed(lost)
  BY WriteCommits
<1>2. UNCHANGED reader /\ quiet' = (pc = "idle")
  BY <1>1 DEF Committed
<1>3. CASE ~Running
  BY <1>1, <1>2, <1>3 DEF Committed, Running
<1>4. CASE Running
  <2>1. past' = [rows |-> past.rows \cup Past'.rows, names |-> past.names \cup Past'.names,
                 offered |-> past.offered \cup Past'.offered, gone |-> past.gone \cup lost]
    BY <1>1, <1>4 DEF Committed, Running
  <2> QED
    BY <1>2, <1>4, <2>1
<1> QED
  BY <1>3, <1>4

LEMMA WriteKeepsPast ==
  ASSUME TypeInv, TypeInv', PastInv, Write
  PROVE  PastInv'
<1>1. PICK lost : /\ Committed(lost) /\ content \ content' \subseteq lost
                  /\ \A c \in Coll : name[c] # None => name'[c] # None \/ c \in lost
  BY WriteCommits
<1> DEFINE Goal == /\ Past'.rows \subseteq past'.rows /\ Past'.names \subseteq past'.names
                   /\ Past'.offered \subseteq past'.offered
                   /\ \A r \in past'.rows : r.hash \in content' \cup past'.gone
                   /\ \A x \in past'.names : name'[x[1]] # None \/ x[1] \in past'.gone
<1>2. Past'.names \subseteq Coll \X Segment
  BY DEF Past, Live, TypeInv, RowsType
<1>3. past'.names \subseteq Coll \X Segment
  BY <1>1, <1>2 DEF Committed, PastInv
<1>4. \A r \in past'.rows : <<CollOf(r.file), r.name>> \in past'.names
  <2>1. \A r \in Past'.rows : <<CollOf(r.file), r.name>> \in Past'.names
    BY FileType DEF Past, Active, Live, TypeInv, RowsType
  <2> QED
    BY <1>1, <2>1 DEF Committed, PastInv
<1> SUFFICES ASSUME Running' PROVE Goal
  BY <1>3, <1>4 DEF PastInv
<1>5. Running
  BY <1>1 DEF Committed, reader, Running
<1>6. past' = [rows |-> past.rows \cup Past'.rows, names |-> past.names \cup Past'.names,
               offered |-> past.offered \cup Past'.offered, gone |-> past.gone \cup lost]
  BY <1>1, <1>5 DEF Committed, Running
<1>7. \A r \in Past'.rows : r.hash \in content'
  BY DEF Past, Active, TypeInv, RowsType
<1>8. \A x \in Past'.names : name'[x[1]] # None
  BY DEF Past, Live
<1>9. \A r \in past.rows : r.hash \in content' \cup past'.gone
  BY <1>1, <1>5, <1>6 DEF PastInv
<1>10. \A x \in past.names : name'[x[1]] # None \/ x[1] \in past'.gone
  <2> SUFFICES ASSUME NEW x \in past.names PROVE name'[x[1]] # None \/ x[1] \in past'.gone
    OBVIOUS
  <2>1. name[x[1]] # None \/ x[1] \in past.gone
    BY <1>5 DEF PastInv
  <2>2. x[1] \in Coll
    BY DEF PastInv
  <2> QED
    BY <1>1, <1>6, <2>1, <2>2
<1> QED
  BY <1>6, <1>7, <1>8, <1>9, <1>10

LEMMA InitFlow == Init => Flow /\ PastInv
BY DEF Init, Flow, PastInv, Running, Never, Ended

LEMMA StatementFlow ==
  ASSUME TypeInv, Flow, Statement
  PROVE  Flow'
<1> DEFINE op == ask.op
<1>1. pc # "idle" /\ UNCHANGED <<index, ask, past, quiet, writes>> /\ ask \in Asks /\ pc \in Route(op)
  BY DEF Statement, ResolveScope, ResolveIds, ActiveDocumentRefs, GlobalContext,
     GetContextForPath, DocumentBodyLength, DocumentBody, ListFiles, EmbedQuery, SelectRows,
     CollectionNamesById, ListCollections, ListPrefixes, CheckPaths, CountDocuments,
     VectorIndexHealth, At, Flow
<1> USE DEF Route, Search, Lookups, Batch
<1>2. CASE ResolveScope \/ ResolveIds
  <2>1. CASE ResolveScope
    BY <1>1, <2>1 DEF ResolveScope, At, Goto, Flow
  <2>2. CASE ResolveIds
    <3>1. pc = "ids" /\ UNCHANGED <<scope, hits, answer>>
      BY <2>2 DEF ResolveIds, At
    <3>2. pc' \in IF op = "search" THEN {"rows", "done"} ELSE IF op = "vsearch" THEN {"embed", "done"}
                  ELSE IF op = "ls" THEN {"files", "missing"} ELSE IF op = "status" THEN {"health", "done"}
                  ELSE IF op \in Lookups THEN {"refs", "missing"} ELSE {"refs", "done"}
      BY <2>2 DEF ResolveIds, Goto
    <3> QED
      BY <1>1, <3>1, <3>2 DEF Flow
  <2> QED
    BY <1>2, <2>1, <2>2
<1>3. CASE ActiveDocumentRefs
  <2>1. /\ pc = "refs" /\ UNCHANGED <<scope, ids, answer>>
        /\ pc' = (IF hits' = <<>> THEN IF op \in Lookups THEN "missing" ELSE "done"
                  ELSE IF op \in Lookups THEN "body" ELSE IF op \in Batch THEN "global" ELSE "length")
    BY <1>3 DEF ActiveDocumentRefs, At, Goto
  <2> QED
    BY <1>1, <2>1 DEF Flow
<1>4. CASE GlobalContext \/ GetContextForPath \/ DocumentBodyLength \/ DocumentBody
  <2>1. /\ pc \in {"global", "context", "length", "body"} /\ UNCHANGED <<scope, ids>>
        /\ pc' = "done" => hits' = <<>>
    BY <1>4 DEF GlobalContext, GetContextForPath, DocumentBodyLength, DocumentBody, At, Goto,
       Improve, Finish, Raise
  <2>2. pc' \in CASE pc = "global" -> {"context"}
                  [] pc = "context" -> IF op \in Batch THEN {"length"} ELSE {"global", "done"}
                  [] pc = "length" -> IF op = "files" THEN {"failed", "length", "done"}
                                      ELSE {"failed", "global", "done", "body"}
                  [] OTHER -> IF op \in Lookups THEN {"failed", "global"}
                              ELSE {"failed", "global", "done"}
    BY <1>4 DEF GlobalContext, GetContextForPath, DocumentBodyLength, DocumentBody, At, Goto,
       Improve, Finish, Raise
  <2> QED
    BY <1>1, <2>1, <2>2 DEF Flow
<1>5. CASE ListFiles \/ EmbedQuery \/ VectorIndexHealth
  BY <1>1, <1>5 DEF ListFiles, EmbedQuery, VectorIndexHealth, At, Goto, Flow
<1>6. CASE SelectRows
  <2>1. /\ pc = "rows" /\ UNCHANGED <<scope, ids, answer>>
        /\ pc' = "labels" \/ (pc' = "done" /\ hits' = <<>>)
    <3>1. PICK s \in Ranked(ask.op, Rows(ask.op)) :
                 /\ hits' = [i \in DOMAIN Cut(s, Fetch) |-> Candidate(Cut(s, Fetch)[i])]
                 /\ pc' = IF Cut(s, Fetch) = <<>> THEN "done" ELSE "labels"
      BY <1>6 DEF SelectRows, Goto
    <3>2. CASE Cut(s, Fetch) = <<>>
      BY <1>6, <3>1, <3>2 DEF SelectRows, At
    <3> QED
      BY <1>6, <3>1, <3>2 DEF SelectRows, At
  <2> QED
    BY <1>1, <2>1 DEF Flow
<1>7. CASE CollectionNamesById
  BY <1>1, <1>7 DEF CollectionNamesById, At, Goto, Raise, Flow
<1>8. CASE ListCollections
  BY <1>1, <1>8 DEF ListCollections, At, Goto, Flow
<1>9. CASE ListPrefixes \/ CheckPaths \/ CountDocuments
  <2>1. /\ UNCHANGED <<scope, ids>>
        /\ \/ pc = "prefixes" /\ pc' \in {"prefixes", "paths", "done"}
           \/ pc = "paths" /\ op = "check" /\ pc' \in {"prefixes", "done"}
           \/ pc = "paths" /\ op = "status" /\ pc' \in {"paths", "ids"}
        /\ pc' \in {"ids", "done"} => hits' = <<>>
    BY <1>9 DEF ListPrefixes, CheckPaths, CountDocuments, At, Goto, NextRow, Improve
  <2> QED
    BY <1>1, <2>1 DEF Flow
<1> QED
  BY <1>2, <1>3, <1>4, <1>5, <1>6, <1>7, <1>8, <1>9 DEF Statement

LEMMA NextFlow ==
  ASSUME TypeInv, Flow, [Next]_vars
  PROVE  Flow'
<1>1. ASSUME NEW a \in Asks, Ask(a)
      PROVE  Flow'
  BY <1>1 DEF Ask, Goto, Flow, Route, Search, Lookups
<1>2. CASE Leave
  BY <1>2 DEF Leave, Clear, Goto, Flow
<1>3. CASE UNCHANGED reader
  BY <1>3 DEF reader, Flow
<1>4. CASE Write
  BY <1>3, <1>4, WriteBeside
<1> QED
  BY <1>1, <1>2, <1>3, <1>4, StatementFlow DEF Next, vars

\* A reader changes nothing of what its past is about.
LEMMA StatementKeepsPast ==
  ASSUME PastInv, Statement
  PROVE  PastInv' /\ UNCHANGED <<index, ask, past, quiet, writes>> /\ Running
<1>1. UNCHANGED <<index, ask, past, quiet, writes>> /\ Running
  BY DEF Statement, ResolveScope, ResolveIds, ActiveDocumentRefs, GlobalContext,
     GetContextForPath, DocumentBodyLength, DocumentBody, ListFiles, EmbedQuery, SelectRows,
     CollectionNamesById, ListCollections, ListPrefixes, CheckPaths, CountDocuments,
     VectorIndexHealth, At, Running, Ended
<1>2. Past' = Past
  BY <1>1 DEF Past, Active, Live, index
<1> QED
  BY <1>1, <1>2 DEF PastInv, index

LEMMA NextPast ==
  ASSUME TypeInv, TypeInv', PastInv, [Next]_vars
  PROVE  PastInv'
<1>1. ASSUME NEW a \in Asks, Ask(a)
      PROVE  PastInv'
  <2>1. past' = Past /\ UNCHANGED index /\ Past' = Past
    BY <1>1 DEF Ask, index, Past, Active, Live
  <2>2. Past.names \subseteq Coll \X Segment
    BY DEF Past, Live, TypeInv, RowsType
  <2>3. \A r \in Past.rows : r.hash \in content
    BY DEF Past, Active, TypeInv, RowsType
  <2>4. \A e \in Past.names : name[e[1]] # None
    BY DEF Past, Live
  <2>5. \A r \in Past.rows : <<CollOf(r.file), r.name>> \in Past.names
    BY FileType DEF Past, Active, Live, TypeInv, RowsType
  <2> QED
    BY <2>1, <2>2, <2>3, <2>4, <2>5 DEF PastInv, index
<1>2. CASE Leave
  BY <1>2 DEF Leave, Goto, Never, PastInv, Running
<1>3. CASE UNCHANGED vars
  BY <1>3 DEF vars, index, reader, PastInv, Running, Past, Active, Live
<1> QED
  BY <1>1, <1>2, <1>3, StatementKeepsPast, WriteKeepsPast DEF Next

HitType == [file : File, name : Segment \cup {None}, hash : Hash, body : BOOLEAN, score : Nat,
            ctx : [global : BOOLEAN, prefixes : SUBSET Prefix]]

\* Hits that were true, and those whose collection had the name they are
\* shown under.
TrueHit ==
  {h \in HitType :
     /\ \E r \in past.rows : /\ r.file = h.file /\ r.hash = h.hash
                             /\ ask.op \in Search \cup {"ls"} \/ r.name = h.name
     /\ ask.op \in Search => CollOf(h.file) \in ids}
NamedHit == {h \in TrueHit : <<CollOf(h.file), h.name>> \in past.names}

TruthInv ==
  /\ pc = "labels" => hits \in Seq(TrueHit) \ {<<>>}
  /\ pc \in {"body", "global", "context", "length"} => hits \in Seq(NamedHit) \ {<<>>}
  /\ pc # "idle" /\ ask.op \notin {"check", "status"} => answer \in Seq(NamedHit)
  /\ \A c \in ids : Wanted = {} \/ \E n \in Wanted : <<c, n>> \in past.names
  /\ pc \notin {"idle", "scope"} /\ ask.op \in Search /\ ask.scope = {} => scope \subseteq past.offered
  /\ pc = "done" /\ ask.op \in Search =>
       \A h \in ToSet(answer) : Cardinality(scope) = 1 \/ h.name \in scope
  /\ RaisesOnlyForTheDeleted

LEMMA HitUpdates ==
  ASSUME NEW h \in HitType, NEW b \in BOOLEAN, NEW P \in SUBSET Prefix, NEW n \in Segment
  PROVE  /\ [h EXCEPT !.ctx.global = b] \in HitType
         /\ [h EXCEPT !.ctx.prefixes = P] \in HitType
         /\ [h EXCEPT !.body = b] \in HitType
         /\ [h EXCEPT !.name = n] \in HitType
BY Zenon DEF HitType

LEMMA RefType ==
  ASSUME TypeInv, NEW f \in Active, NEW n \in Segment \cup {None}
  PROVE  Hit(f, n) \in HitType
<1>1. f \in File /\ doc[f].hash \in Hash
  BY DEF Active, TypeInv, RowsType
<1>2. NoContext \in [global : BOOLEAN, prefixes : SUBSET Prefix]
  BY Zenon DEF NoContext
<1>3. 0 \in Nat /\ FALSE \in BOOLEAN
  OBVIOUS
<1> QED
  BY <1>1, <1>2, <1>3, Zenon DEF Hit, HitType

LEMMA LeastOf ==
  ASSUME NEW T \in SUBSET Nat, T # {}
  PROVE  Min(T) \in T
<1> DEFINE R == OpToRel(<, Nat)
<1>1. IsWellFoundedOn(R, Nat)
  BY NatLessThanWellFounded
<1>2. \A m, n \in Nat : m < n => <<m, n>> \in R
  BY DEF OpToRel
<1> HIDE DEF R
<1>3. PICK n \in T : \A m \in T : ~(<<m, n>> \in R)
  BY <1>1, WFMin
<1>4. n \in Nat /\ \A m \in T : m \in Nat /\ ~(m < n)
  BY <1>2, <1>3
<1>5. \A m \in T : n <= m
  BY <1>4
<1> QED
  BY <1>3, <1>5 DEF Min

\* The score of a document is a number.
LEMMA ScoreType ==
  ASSUME TypeInv, NEW f \in Active, ask \in Asks, ask.op \in Search
  PROVE  Score(ask.op, f) \in Nat
<1>1. f \in File /\ doc[f] # None /\ doc[f].hash \in Hash
  BY DEF Active, TypeInv, RowsType
<1>2. CASE ask.op = "search"
  <2>1. ask.word \in Segment \cup {None}
    BY <1>2, ReadersAssumption
  <2>2. vector[f] \in [name : Segment, hash : Hash]
    BY <1>1 DEF TypeInv, RowsType, Entry
  <2>3. Rank \in [File \X [name : Segment, hash : Hash] \X (Segment \cup {None}) -> Nat]
    BY ReadersAssumption
  <2>4. Rank[f, vector[f], ask.word] \in Nat
    <3> DEFINE v == vector[f]
               w == ask.word
               V == [name : Segment, hash : Hash]
               W == Segment \cup {None}
    <3>1. f \in File /\ v \in V /\ w \in W /\ Rank \in [File \X V \X W -> Nat]
      BY <1>1, <2>1, <2>2, <2>3
    <3> HIDE DEF v, w, V, W
    <3>2. <<f, v, w>> \in File \X V \X W
      BY <3>1
    <3>3. Rank[f, v, w] \in Nat
      BY <3>1, <3>2
    <3> QED
      BY <3>3 DEF v, w
  <2>5. Score(ask.op, f) = Rank[f, vector[f], ask.word]
    BY <1>2, Zenon DEF Score
  <2> QED
    BY <2>4, <2>5, Zenon
<1>3. CASE ask.op # "search"
  <2>1. Chunks \in Seq(Hash) /\ Hash \subseteq ToSet(Chunks) /\ Closeness \in [DOMAIN Chunks -> Nat]
    BY ReadersAssumption
  <2> DEFINE T == {i \in DOMAIN Chunks : Chunks[i] = doc[f].hash}
  <2>2. T # {} /\ T \in SUBSET Nat
    BY <1>1, <2>1 DEF ToSet
  <2>3. Distance(f) \in T
    BY <2>2, LeastOf DEF Distance
  <2>4. Closeness[Distance(f)] \in Nat
    BY <2>1, <2>3
  <2>5. Score(ask.op, f) = Closeness[Distance(f)]
    BY <1>3, Zenon DEF Score
  <2> QED
    BY <2>4, <2>5, Zenon
<1> QED
  BY <1>2, <1>3

\* What is read now is in the past of the request.
LEMMA RefIsTrue ==
  ASSUME TypeInv, PastInv, Running, NEW f \in Active
  PROVE  /\ [file |-> f, name |-> name[CollOf(f)], hash |-> doc[f].hash] \in past.rows
         /\ CollOf(f) \in Live /\ name[CollOf(f)] \in Segment
         /\ <<CollOf(f), name[CollOf(f)]>> \in past.names
<1>1. CollOf(f) \in Coll /\ f \in File /\ name[CollOf(f)] # None
  BY FileType DEF Active, TypeInv, RowsType
<1>2. name[CollOf(f)] \in Segment
  BY <1>1 DEF TypeInv, RowsType
<1> QED
  BY <1>1, <1>2 DEF PastInv, Past, Live

LEMMA RefsAreHits ==
  ASSUME TypeInv, PastInv, Running
  PROVE  Refs \subseteq NamedHit
<1> SUFFICES ASSUME NEW f \in ShownRows(doc), CollOf(f) \in ids
             PROVE  Hit(f, name[CollOf(f)]) \in NamedHit
  BY DEF Refs
<1>1. f \in Active
  BY DEF Active, ShownRows
<1>2. /\ Hit(f, name[CollOf(f)]) \in HitType
      /\ [file |-> f, name |-> name[CollOf(f)], hash |-> doc[f].hash] \in past.rows
      /\ <<CollOf(f), name[CollOf(f)]>> \in past.names
  BY <1>1, RefIsTrue, RefType
<1> HIDE DEF Hit
<1>3. /\ Hit(f, name[CollOf(f)]).file = f /\ Hit(f, name[CollOf(f)]).hash = doc[f].hash
      /\ Hit(f, name[CollOf(f)]).name = name[CollOf(f)]
  BY DEF Hit
<1> QED
  BY <1>2, <1>3 DEF NamedHit, TrueHit

LEMMA FiniteRows ==
  /\ IsFiniteSet(Active) /\ \A C : IsFiniteSet({f \in ShownRows(doc) : CollOf(f) \in C})
BY ReadersAssumption, FS_Subset DEF Active, ShownRows

LEMMA FiniteRefs == IsFiniteSet(Refs)
<1> DEFINE S == {f \in ShownRows(doc) : CollOf(f) \in ids}
           F == [f \in S |-> Hit(f, name[CollOf(f)])]
<1>1. Refs = {F[e] : e \in S} /\ F \in [S -> Refs]
  BY DEF Refs
<1>2. IsFiniteSet(S)
  BY FiniteRows
<1> HIDE DEF S, F
<1>3. F \in Surjection(S, Refs)
  BY <1>1 DEF Surjection
<1> QED
  BY <1>2, <1>3, FS_Surjection

LEMMA FoundOneFacts ==
  ASSUME NEW R, NEW q, NEW t \in FoundOne(R, q)
  PROVE  LET meant == IF LooksLikeDocid(q) THEN WithDocid(R, q) ELSE Named(R, q) IN
         /\ meant \subseteq R
         /\ \/ meant = {} /\ t = <<>>
            \/ \E r \in meant : t = <<r>>
BY DEF FoundOne, First, WithDocid, Named

LEMMA FoundEachFacts ==
  ASSUME NEW R, NEW items \in Seq([virtual : BOOLEAN, path : Seq(Segment)]),
         NEW t \in FoundEach(R, items)
  PROVE  /\ t \in Seq(R)
         /\ \A i \in 1..Len(items) : Named(R, items[i]) # {} =>
              \E r \in ToSet(t) : r \in Named(R, items[i])
<1> DEFINE found == {i \in DOMAIN items : Named(R, items[i]) # {}}
<1>1. /\ t \in [1..Cardinality(found) -> R]
      /\ \E s \in Ascending(found) : \A j \in DOMAIN s : t[j] \in First(Named(R, items[s[j]]))
  BY DEF FoundEach
<1>2. DOMAIN items = 1..Len(items) /\ Len(items) \in Nat
  OBVIOUS
<1>3. IsFiniteSet(found)
  <2>1. IsFiniteSet(1..Len(items))
    BY <1>2, FS_Interval
  <2> QED
    BY <1>2, <2>1, FS_Subset
<1>4. PICK s \in Ascending(found) : \A j \in DOMAIN s : t[j] \in First(Named(R, items[s[j]]))
  BY <1>1
<1>5. s \in Enumerations(found)
  BY DEF Ascending
<1>6. \A i \in 1..Len(items) : Named(R, items[i]) # {} => i \in found
  BY <1>2
<1> HIDE DEF found
<1>7. DOMAIN s = 1..Len(s) /\ Len(s) = Cardinality(found) /\ ToSet(s) = found /\ Len(s) \in Nat
  BY <1>3, <1>5, EnumerationFacts
<1>8. t \in Seq(R) /\ DOMAIN t = DOMAIN s
  BY <1>1, <1>7
<1>9. ASSUME NEW i \in 1..Len(items), Named(R, items[i]) # {}
      PROVE  \E r \in ToSet(t) : r \in Named(R, items[i])
  <2>1. PICK j \in DOMAIN s : s[j] = i
    BY <1>6, <1>7, <1>9 DEF ToSet
  <2> QED
    BY <1>4, <1>8, <2>1 DEF ToSet, First
<1> QED
  BY <1>8, <1>9

LEMMA FoundAllFacts ==
  ASSUME NEW R, IsFiniteSet(R), NEW pattern, NEW t \in FoundAll(R, pattern)
  PROVE  /\ t \in Seq(R) /\ ToSet(t) = {r \in R : Matches(r, pattern)}
         /\ t \in Bijection(1..Len(t), ToSet(t))
<1> DEFINE S == {r \in R : Matches(r, pattern)}
<1>1. t \in Enumerations(S)
  BY DEF FoundAll, ByKey
<1>2. IsFiniteSet(S)
  BY FS_Subset
<1>3. t \in Seq(S) /\ ToSet(t) = S /\ t \in Bijection(1..Len(t), S)
  BY <1>1, <1>2, EnumerationFacts
<1> QED
  BY <1>3, SeqMonotonic

LEMMA FoundFacts ==
  ASSUME NEW R, IsFiniteSet(R), NEW t \in Found(R), ask \in Asks
  PROVE  t \in Seq(R)
<1>1. CASE ask.op \in Lookups
  <2>1. t \in FoundOne(R, Lookup(ask))
    BY <1>1 DEF Found, Lookups
  <2>2. t = <<>> \/ \E r \in R : t = <<r>>
    BY <2>1, FoundOneFacts
  <2>3. <<>> \in Seq(R) /\ \A r \in R : <<r>> \in Seq(R)
    OBVIOUS
  <2> QED
    BY <2>2, <2>3
<1>2. CASE ask.op = "list"
  <2>1. ask.items \in Seq([virtual : BOOLEAN, path : Seq(Segment)])
    BY <1>2, ReadersAssumption
  <2>2. t \in FoundEach(R, ask.items)
    BY <1>2 DEF Found, Lookups
  <2> QED
    BY <2>1, <2>2, FoundEachFacts
<1>3. CASE ask.op \notin Lookups /\ ask.op # "list"
  BY <1>3, FoundAllFacts DEF Found
<1> QED
  BY <1>1, <1>2, <1>3

\* What a statement adds to a hit does not change what it is a hit of.
LEMMA HitImproved ==
  ASSUME TypeInv, NEW h \in NamedHit
  PROVE  /\ h \in HitType
         /\ [h EXCEPT !.ctx.global = global] \in NamedHit
         /\ [h EXCEPT !.ctx.prefixes = Inheriting(h.file)] \in NamedHit
         /\ [h EXCEPT !.body = TRUE] \in NamedHit
         /\ \A b : /\ LET g == [h EXCEPT !.ctx.global = b] IN
                     g.file = h.file /\ g.name = h.name /\ g.hash = h.hash /\ g.body = h.body
                     /\ g.score = h.score
                  /\ LET e == [h EXCEPT !.ctx.prefixes = b] IN
                     e.file = h.file /\ e.name = h.name /\ e.hash = h.hash /\ e.body = h.body
                     /\ e.score = h.score
                  /\ LET k == [h EXCEPT !.body = b] IN
                     k.file = h.file /\ k.name = h.name /\ k.hash = h.hash /\ k.body = b
                     /\ k.score = h.score
<1>1. h \in HitType
  BY DEF NamedHit, TrueHit
<1>2. \A g \in HitType : g.file = h.file /\ g.name = h.name /\ g.hash = h.hash => g \in NamedHit
  BY DEF NamedHit, TrueHit
<1>3. global \in BOOLEAN /\ Inheriting(h.file) \in SUBSET Prefix /\ TRUE \in BOOLEAN
  BY DEF TypeInv, SettingsType, Inheriting
<1>4. /\ [h EXCEPT !.ctx.global = global] \in HitType
      /\ [h EXCEPT !.ctx.prefixes = Inheriting(h.file)] \in HitType
      /\ [h EXCEPT !.body = TRUE] \in HitType
  BY <1>1, <1>3, Zenon DEF HitType
<1>5. ASSUME NEW b
      PROVE  /\ LET g == [h EXCEPT !.ctx.global = b] IN
                g.file = h.file /\ g.name = h.name /\ g.hash = h.hash /\ g.body = h.body
                /\ g.score = h.score
             /\ LET e == [h EXCEPT !.ctx.prefixes = b] IN
                e.file = h.file /\ e.name = h.name /\ e.hash = h.hash /\ e.body = h.body
                /\ e.score = h.score
             /\ LET k == [h EXCEPT !.body = b] IN
                k.file = h.file /\ k.name = h.name /\ k.hash = h.hash /\ k.body = b
                /\ k.score = h.score
  BY <1>1 DEF HitType
<1> QED
  BY <1>1, <1>2, <1>4, <1>5

\* The global context is all that a hit gets of it.
LEMMA WithGlobal ==
  ASSUME TypeInv
  PROVE  \A h \in NamedHit :
           /\ [h EXCEPT !.ctx.global = global] \in NamedHit
           /\ [h EXCEPT !.ctx.global = global].file = h.file
           /\ [h EXCEPT !.ctx.global = global].hash = h.hash
           /\ [h EXCEPT !.ctx.global = global].name = h.name
           /\ [h EXCEPT !.ctx.global = global].body = h.body
           /\ [h EXCEPT !.ctx.global = global].score = h.score
<1> TAKE h \in NamedHit
<1>1. [h EXCEPT !.ctx.global = global] \in NamedHit
  BY HitImproved, Zenon
<1>2. h \in HitType
  BY HitImproved, Zenon
<1>3. /\ [h EXCEPT !.ctx.global = global].file = h.file
      /\ [h EXCEPT !.ctx.global = global].hash = h.hash
      /\ [h EXCEPT !.ctx.global = global].name = h.name
      /\ [h EXCEPT !.ctx.global = global].body = h.body
      /\ [h EXCEPT !.ctx.global = global].score = h.score
  BY <1>2 DEF HitType
<1> QED
  BY <1>1, <1>3, Zenon

LEMMA FinishFacts ==
  ASSUME NEW S, hits \in Seq(S) \ {<<>>}, answer \in Seq(S), NEW h \in S, NEW again,
         Finish(h, again)
  PROVE  /\ hits' = Tail(hits) /\ hits' \in Seq(S) /\ answer' \in Seq(S)
         /\ UNCHANGED <<scope, ids>>
         /\ IF hits' = <<>> THEN pc' = "done" /\ answer' \in Kept(Append(answer, h))
            ELSE pc' = again /\ answer' = Append(answer, h)
<1>1. Append(answer, h) \in Seq(S)
  OBVIOUS
<1>2. hits' = Tail(hits) /\ Tail(hits) \in Seq(S)
  BY TailFacts DEF Finish
<1>3. \A t \in Kept(Append(answer, h)) : t \in Seq(S)
  BY <1>1, KeptFacts
<1> QED
  BY <1>1, <1>2, <1>3 DEF Finish, Goto

LEMMA ImproveFacts ==
  ASSUME NEW S, hits \in Seq(S) \ {<<>>}, NEW h \in S, NEW next, Improve(h, next)
  PROVE  /\ hits' \in Seq(S) \ {<<>>} /\ pc' = next /\ UNCHANGED <<scope, ids, answer>>
         /\ ToSet(hits') = {h} \cup ToSet(Tail(hits)) /\ Len(hits') = Len(hits)
         /\ Head(hits') = h /\ Tail(hits') = Tail(hits)
BY ConsFacts DEF Improve, Goto

LEMMA TruthKept ==
  ASSUME TruthInv, UNCHANGED <<ask, past, scope, ids>>, pc \notin {"idle", "scope"},
         pc' # "idle",
         pc' = "labels" => hits' \in Seq(TrueHit) \ {<<>>},
         pc' \in {"body", "global", "context", "length"} => hits' \in Seq(NamedHit) \ {<<>>},
         ask.op \notin {"check", "status"} => answer' \in Seq(NamedHit),
         pc' = "done" /\ ask.op \in Search =>
           \A h \in ToSet(answer') : Cardinality(scope) = 1 \/ h.name \in scope,
         RaisesOnlyForTheDeleted'
  PROVE  TruthInv'
<1>1. TrueHit' = TrueHit /\ Wanted' = Wanted
  BY DEF TrueHit, Wanted
<1>2. NamedHit' = NamedHit
  BY <1>1 DEF NamedHit
<1> QED
  BY <1>1, <1>2 DEF TruthInv

\* A hit is answered, and what is kept of a search is in scope.
LEMMA TruthFinished ==
  ASSUME TypeInv, TruthInv, pc \in {"body", "context", "length"},
         ask.op \notin {"check", "status"}, UNCHANGED <<ask, past>>,
         NEW h \in NamedHit, NEW again \in {"global", "length"}, Finish(h, again)
  PROVE  TruthInv'
<1>1. hits \in Seq(NamedHit) \ {<<>>} /\ answer \in Seq(NamedHit)
  BY DEF TruthInv
<1>2. /\ hits' \in Seq(NamedHit) /\ answer' \in Seq(NamedHit) /\ UNCHANGED <<scope, ids>>
      /\ IF hits' = <<>> THEN pc' = "done" /\ answer' \in Kept(Append(answer, h))
         ELSE pc' = again /\ answer' = Append(answer, h)
  BY <1>1, FinishFacts
<1>3. Append(answer, h) \in Seq(NamedHit)
  BY <1>1
<1>4. pc' = "done" /\ ask.op \in Search =>
        \A g \in ToSet(answer') : Cardinality(scope) = 1 \/ g.name \in scope
  <2>1. pc' = "done" /\ ask.op \in Search => \A g \in ToSet(answer') : Passes(g) \/ hits' # <<>>
    BY <1>2, <1>3, KeptFacts
  <2>2. hits' # <<>> => pc' # "done"
    BY <1>2
  <2> QED
    BY <2>1, <2>2 DEF Passes, InScope
<1>5. pc' \in {"done", "global", "length"}
  BY <1>2
<1>6. RaisesOnlyForTheDeleted'
  BY <1>5 DEF RaisesOnlyForTheDeleted
<1> QED
  BY <1>2, <1>4, <1>5, <1>6, TruthKept

LEMMA TruthImproved ==
  ASSUME TypeInv, TruthInv, pc \in {"body", "global", "context", "length"},
         ask.op \notin {"check", "status"}, UNCHANGED <<ask, past>>,
         NEW h \in NamedHit, NEW next \in {"body", "global", "context", "length"},
         Improve(h, next)
  PROVE  TruthInv'
<1>1. hits \in Seq(NamedHit) \ {<<>>} /\ answer \in Seq(NamedHit)
  BY DEF TruthInv
<1>2. hits' \in Seq(NamedHit) \ {<<>>} /\ pc' = next /\ UNCHANGED <<scope, ids, answer>>
  BY <1>1, ImproveFacts
<1>3. RaisesOnlyForTheDeleted'
  BY <1>2 DEF RaisesOnlyForTheDeleted
<1> QED
  BY <1>1, <1>2, <1>3, TruthKept

\* A body that is not there any more was when its row was read.
LEMMA TruthRaised ==
  ASSUME TypeInv, PastInv, TruthInv, Running, pc \in {"body", "length"},
         ask.op \notin {"check", "status"}, UNCHANGED <<ask, past>>,
         BodyGone(Head(hits)), Raise
  PROVE  TruthInv'
<1>1. hits \in Seq(NamedHit) \ {<<>>} /\ answer \in Seq(NamedHit)
  BY DEF TruthInv
<1>2. pc' = "failed" /\ UNCHANGED <<scope, ids, hits, answer>>
  BY DEF Raise, Goto
<1>3. Head(hits) \in NamedHit /\ Head(hits) \in ToSet(hits)
  BY <1>1, TailFacts
<1>4. Head(hits).hash \in past.gone
  BY <1>3 DEF NamedHit, TrueHit, PastInv, BodyGone
<1>5. RaisesOnlyForTheDeleted'
  BY <1>2, <1>3, <1>4 DEF RaisesOnlyForTheDeleted
<1> QED
  BY <1>1, <1>2, <1>5, TruthKept

\* The requests a statement belongs to.
LEMMA WhoseStatement ==
  ASSUME Flow
  PROVE  /\ pc \in {"scope", "rows", "embed", "labels"} => ask.op \in Search
         /\ pc = "files" => ask.op = "ls"
         /\ pc \in {"refs", "body", "global", "context", "length"} =>
              ask.op \notin {"check", "status", "ls"}
         /\ pc \in {"refs", "length"} => ask.op \notin Search
         /\ pc = "length" => ask.op \notin Lookups
         /\ pc \in {"collections", "paths"} => ask.op \in {"check", "status"}
         /\ pc = "prefixes" => ask.op = "check"
         /\ pc = "health" => ask.op = "status"
BY DEF Flow, Route, Search, Lookups

LEMMA ResolvedTruth ==
  ASSUME TypeInv, Flow, PastInv, TruthInv, Running, ResolveScope \/ ResolveIds
  PROVE  TruthInv'
<1>1. CASE ResolveScope
  <2>1. /\ pc = "scope" /\ UNCHANGED <<index, ask, past, ids, hits, answer>> /\ pc' = "ids"
        /\ scope' = IF ask.scope # {} THEN ask.scope ELSE {name[c] : c \in default}
    BY <1>1 DEF ResolveScope, At, Goto
  <2>2. ids = {} /\ ask.op \in Search
    BY <2>1, WhoseStatement DEF Flow
  <2>3. ask.scope = {} => scope' \subseteq past.offered
    BY <2>1 DEF PastInv, Past
  <2>4. NamedHit' = NamedHit /\ answer \in Seq(NamedHit)
    BY <2>1, <2>2 DEF TruthInv, NamedHit, TrueHit, Search
  <2> QED
    BY <2>1, <2>2, <2>3, <2>4 DEF TruthInv, RaisesOnlyForTheDeleted
<1>2. CASE ResolveIds
  <2>1. /\ pc = "ids" /\ UNCHANGED <<index, ask, past, scope, hits, answer>>
        /\ ids' = {c \in Live : Wanted = {} \/ name[c] \in Wanted}
        /\ pc' \in {"rows", "embed", "files", "health", "refs", "missing", "done"}
    BY <1>2 DEF ResolveIds, At, Goto
  <2>2. Wanted' = Wanted
    BY <2>1 DEF Wanted
  <2>3. \A c \in ids' : Wanted = {} \/ \E n \in Wanted : <<c, n>> \in past.names
    BY <2>1 DEF PastInv, Past
  <2>4. hits = <<>> /\ (ask.op # "status" => answer = <<>>) /\ pc # "idle"
    BY <2>1 DEF Flow
  <2>5. <<>> \in Seq(NamedHit') /\ ToSet(<<>>) = {}
    BY DEF ToSet
  <2>6. ask.op # "status" => answer' = <<>>
    BY <2>1, <2>4
  <2>7. ask.op \in Search => ask.op # "status"
    BY DEF Search
  <2> QED
    BY <2>1, <2>2, <2>3, <2>4, <2>5, <2>6, <2>7 DEF TruthInv, RaisesOnlyForTheDeleted
<1> QED
  BY <1>1, <1>2

LEMMA RefsTruth ==
  ASSUME TypeInv, Flow, PastInv, TruthInv, Running, ActiveDocumentRefs
  PROVE  TruthInv'
<1>1. /\ pc = "refs" /\ UNCHANGED <<ask, past, scope, ids, answer>> /\ hits' \in Found(Refs)
      /\ pc' \in {"missing", "done"} \/ (pc' \in {"body", "global", "length"} /\ hits' # <<>>)
  BY DEF ActiveDocumentRefs, At, Goto
<1>2. ask \in Asks /\ ask.op \notin Search /\ ask.op \notin {"check", "status"}
  BY <1>1, WhoseStatement DEF Flow
<1>3. hits' \in Seq(Refs)
  BY <1>1, <1>2, FiniteRefs, FoundFacts
<1>4. hits' \in Seq(NamedHit)
  BY <1>3, RefsAreHits, SeqMonotonic
<1>5. answer' \in Seq(NamedHit)
  BY <1>1, <1>2 DEF TruthInv
<1>6. RaisesOnlyForTheDeleted'
  BY <1>1 DEF RaisesOnlyForTheDeleted
<1> QED
  BY <1>1, <1>2, <1>4, <1>5, <1>6, TruthKept

\* `ls` shows the rows it reads under the name it was given.
LEMMA ListedTruth ==
  ASSUME TypeInv, Flow, PastInv, TruthInv, Running, ListFiles
  PROVE  TruthInv'
<1> DEFINE S == {g \in ShownRows(doc) : CollOf(g) \in ids /\ Covers(ask.prefix, PathOf(g))}
           H == {Hit(f, ask.coll) : f \in S}
<1>1. /\ pc = "files" /\ UNCHANGED <<ask, past, scope, ids, hits>> /\ pc' = "done"
      /\ answer' \in Enumerations(H)
  BY DEF ListFiles, At, Goto
<1>2. ask.op = "ls" /\ Wanted = {ask.coll}
  BY <1>1, WhoseStatement DEF Wanted
<1>3. IsFiniteSet(H)
  <2> DEFINE F == [f \in S |-> Hit(f, ask.coll)]
  <2>1. F \in Surjection(S, H)
    BY DEF Surjection
  <2>2. S \subseteq Active
    BY DEF ShownRows, Active
  <2>3. IsFiniteSet(S)
    BY <2>2, FiniteRows, FS_Subset
  <2> QED
    BY <2>1, <2>3, FS_Surjection
<1>4. H \subseteq NamedHit
  <2> SUFFICES ASSUME NEW f \in S PROVE Hit(f, ask.coll) \in NamedHit
    OBVIOUS
  <2>1. f \in Active /\ CollOf(f) \in ids
    BY DEF Active, ShownRows
  <2>2. <<CollOf(f), ask.coll>> \in past.names
    BY <1>2, <2>1 DEF TruthInv
  <2>3. ask.coll \in Segment
    BY <2>2 DEF PastInv
  <2>4. /\ Hit(f, ask.coll) \in HitType
        /\ [file |-> f, name |-> name[CollOf(f)], hash |-> doc[f].hash] \in past.rows
    BY <2>1, <2>3, RefType, RefIsTrue
  <2> HIDE DEF S
  <2>5. /\ Hit(f, ask.coll).file = f /\ Hit(f, ask.coll).hash = doc[f].hash
        /\ Hit(f, ask.coll).name = ask.coll
    BY DEF Hit
  <2> QED
    BY <1>2, <2>2, <2>4, <2>5 DEF NamedHit, TrueHit, Search
<1> HIDE DEF S, H
<1>5. answer' \in Seq(NamedHit)
  BY <1>1, <1>3, <1>4, EnumerationFacts, SeqMonotonic
<1>6. RaisesOnlyForTheDeleted'
  BY <1>1 DEF RaisesOnlyForTheDeleted
<1> QED
  BY <1>1, <1>2, <1>5, <1>6, TruthKept DEF Search

\* A search reads the best of the rows in its collections.
LEMMA RowsFacts ==
  ASSUME TypeInv, SelectRows
  PROVE  \E s \in Ranked(ask.op, Rows(ask.op)) :
           /\ s \in Seq(Rows(ask.op)) /\ ToSet(s) = Rows(ask.op) /\ Rows(ask.op) \subseteq Active
           /\ Len(s) = Cardinality(Rows(ask.op)) /\ s \in Bijection(1..Len(s), Rows(ask.op))
           /\ DOMAIN hits' = 1..Len(Cut(s, Fetch)) /\ Len(hits') = Len(Cut(s, Fetch))
           /\ hits' \in Seq({Candidate(f) : f \in Rows(ask.op)})
           /\ \A i \in 1..Len(Cut(s, Fetch)) :
                /\ hits'[i] = Candidate(s[i])
                /\ s[i] \in Rows(ask.op)
           /\ IF hits' = <<>> THEN pc' = "done" ELSE pc' = "labels"
<1> DEFINE R == Rows(ask.op)
<1>1. PICK s \in Ranked(ask.op, R) :
             /\ hits' = [i \in DOMAIN Cut(s, Fetch) |-> Candidate(Cut(s, Fetch)[i])]
             /\ pc' = IF Cut(s, Fetch) = <<>> THEN "done" ELSE "labels"
  BY DEF SelectRows, Goto
<1>2. R \subseteq Active /\ IsFiniteSet(R)
  <2>1. R \subseteq Active
    BY DEF Rows, Active, ShownRows
  <2> QED
    BY <2>1, FiniteRows, FS_Subset
<1>3. s \in Enumerations(R)
  BY <1>1 DEF Ranked
<1> HIDE DEF R
<1>4. /\ s \in Seq(R) /\ ToSet(s) = R /\ Len(s) = Cardinality(R) /\ s \in Bijection(1..Len(s), R)
  BY <1>2, <1>3, EnumerationFacts
<1>5. Fetch \in Nat
  BY ReadersAssumption
<1> DEFINE best == Cut(s, Fetch)
           G(f) == Candidate(f)
<1>6. /\ best \in Seq(R) /\ Len(best) \in Nat /\ DOMAIN best = 1..Len(best)
      /\ \A i \in 1..Len(best) : best[i] = s[i] /\ best[i] \in R
  <2>1. /\ best \in Seq(R) /\ \A i \in 1..Len(best) : best[i] = s[i]
    BY <1>4, <1>5, CutFacts
  <2> HIDE DEF best
  <2> QED
    BY <2>1
<1>7. hits' = [i \in DOMAIN best |-> G(best[i])]
  BY <1>1
<1> HIDE DEF best, G
<1>8. /\ DOMAIN hits' = 1..Len(best) /\ \A i \in 1..Len(best) : hits'[i] = G(s[i]) /\ s[i] \in R
  BY <1>6, <1>7
<1>9. hits' \in [1..Len(best) -> {G(f) : f \in R}]
  BY <1>6, <1>7, <1>8
<1>10. hits' \in Seq({G(f) : f \in R}) /\ Len(hits') = Len(best)
  BY <1>6, <1>9
<1>11. hits' = <<>> <=> best = <<>>
  BY <1>6, <1>10
<1> QED
  BY <1>1, <1>2, <1>4, <1>8, <1>10, <1>11 DEF best, G, R

LEMMA RowsTruth ==
  ASSUME TypeInv, Flow, PastInv, TruthInv, Running, SelectRows
  PROVE  TruthInv'
<1>1. /\ pc = "rows" /\ UNCHANGED <<ask, past, scope, ids, answer>>
  BY DEF SelectRows, At, Goto
<1>2. ask.op \in Search /\ ask.op \notin {"check", "status"} /\ answer = <<>>
  BY <1>1, WhoseStatement DEF Search, Flow
<1> DEFINE G(f) == Candidate(f)
<1>3. /\ hits' \in Seq({G(f) : f \in Rows(ask.op)})
      /\ IF hits' = <<>> THEN pc' = "done" ELSE pc' = "labels"
  BY RowsFacts
<1>4. {G(f) : f \in Rows(ask.op)} \subseteq TrueHit
  <2> SUFFICES ASSUME NEW f \in Rows(ask.op) PROVE G(f) \in TrueHit
    OBVIOUS
  <2>1. f \in Active /\ CollOf(f) \in ids
    BY DEF Rows, Active, ShownRows
  <2>2. /\ Hit(f, None) \in HitType
        /\ [file |-> f, name |-> name[CollOf(f)], hash |-> doc[f].hash] \in past.rows
    BY <2>1, RefType, RefIsTrue
  <2>6. Score(ask.op, f) \in Nat /\ TRUE \in BOOLEAN
    BY <1>1, <1>2, <2>1, ScoreType DEF Flow
  <2>3. G(f) \in HitType
    BY <2>2, <2>6, Zenon DEF HitType, Candidate
  <2>4. Hit(f, None).file = f /\ Hit(f, None).hash = doc[f].hash
    BY DEF Hit
  <2>5. G(f).file = f /\ G(f).hash = doc[f].hash
    BY <2>2, <2>4 DEF HitType, Candidate
  <2> HIDE DEF G
  <2> QED
    BY <1>2, <2>1, <2>2, <2>3, <2>5 DEF TrueHit
<1> HIDE DEF G
<1>5. hits' \in Seq(TrueHit)
  BY <1>3, <1>4, SeqMonotonic
<1>6. answer' = <<>> /\ <<>> \in Seq(NamedHit) /\ ToSet(<<>>) = {}
  BY <1>1, <1>2 DEF ToSet
<1>7. RaisesOnlyForTheDeleted'
  BY <1>3 DEF RaisesOnlyForTheDeleted
<1> QED
  BY <1>1, <1>2, <1>3, <1>5, <1>6, <1>7, TruthKept

\* A collection that is not there any more was when its rows were read.
LEMMA LabelsTruth ==
  ASSUME TypeInv, Flow, PastInv, TruthInv, Running, CollectionNamesById
  PROVE  TruthInv'
<1>1. pc = "labels" /\ UNCHANGED <<index, ask, past, scope, ids, answer>>
  BY DEF CollectionNamesById, At, Goto, Raise
<1>2. ask.op \in Search /\ ask.op \notin {"check", "status"}
  BY <1>1, WhoseStatement DEF Search
<1>3. hits \in Seq(TrueHit) \ {<<>>} /\ answer \in Seq(NamedHit)
  BY <1>1, <1>2 DEF TruthInv
<1>4. \A h \in ToSet(hits) : h \in TrueHit
  BY <1>3, ToSetOfSeq
<1>5. CASE \E h \in ToSet(hits) : name[CollOf(h.file)] = None
  <2>1. PICK h \in ToSet(hits) : name[CollOf(h.file)] = None
    BY <1>5
  <2>2. pc' = "failed" /\ UNCHANGED hits
    BY <1>5 DEF CollectionNamesById, Raise, Goto
  <2>3. PICK r \in past.rows : r.file = h.file
    BY <1>4 DEF TrueHit
  <2>4. <<CollOf(h.file), r.name>> \in past.names
    BY <2>3 DEF PastInv
  <2>5. CollOf(h.file) \in past.gone
    BY <2>1, <2>4 DEF PastInv
  <2>6. RaisesOnlyForTheDeleted'
    BY <1>1, <2>2, <2>5 DEF RaisesOnlyForTheDeleted
  <2> QED
    BY <1>1, <1>2, <1>3, <2>2, <2>6, TruthKept
<1>6. CASE ~\E h \in ToSet(hits) : name[CollOf(h.file)] = None
  <2>1. /\ hits' = [i \in DOMAIN hits |-> [hits[i] EXCEPT !.name = name[CollOf(hits[i].file)]]]
        /\ pc' = "global"
    BY <1>6 DEF CollectionNamesById, Goto
  <2>2. \A i \in DOMAIN hits : [hits[i] EXCEPT !.name = name[CollOf(hits[i].file)]] \in NamedHit
    <3> SUFFICES ASSUME NEW i \in DOMAIN hits
                 PROVE  [hits[i] EXCEPT !.name = name[CollOf(hits[i].file)]] \in NamedHit
      OBVIOUS
    <3> DEFINE h == hits[i]
               n == name[CollOf(h.file)]
               g == [h EXCEPT !.name = n]
    <3>1. h \in TrueHit /\ n # None /\ h \in HitType
      BY <1>4, <1>6 DEF ToSet, TrueHit
    <3>2. CollOf(h.file) \in Coll
      BY <3>1, FileType DEF HitType
    <3>3. n \in Segment /\ <<CollOf(h.file), n>> \in past.names
      BY <3>1, <3>2 DEF TypeInv, RowsType, PastInv, Past, Live
    <3> HIDE DEF h, n
    <3>4. g \in HitType
      BY <3>1, <3>3, Zenon DEF HitType
    <3>5. g.file = h.file /\ g.hash = h.hash /\ g.name = n
      BY <3>1 DEF HitType
    <3> HIDE DEF g
    <3>6. g \in TrueHit
      BY <1>2, <3>1, <3>4, <3>5 DEF TrueHit
    <3>7. g \in NamedHit
      BY <3>3, <3>5, <3>6 DEF NamedHit
    <3> QED
      BY <3>7 DEF g, h, n
  <2>3. DOMAIN hits = 1..Len(hits) /\ Len(hits) \in Nat \ {0}
    BY <1>3, TailFacts
  <2>4. hits' \in [1..Len(hits) -> NamedHit]
    BY <2>1, <2>2, <2>3
  <2>5. hits' \in Seq(NamedHit) \ {<<>>}
    BY <2>3, <2>4
  <2>6. RaisesOnlyForTheDeleted'
    BY <2>1 DEF RaisesOnlyForTheDeleted
  <2> QED
    BY <1>1, <1>2, <1>3, <2>1, <2>5, <2>6, TruthKept
<1> QED
  BY <1>5, <1>6

LEMMA StatementTruth ==
  ASSUME TypeInv, Flow, PastInv, TruthInv, Statement
  PROVE  TruthInv'
<1>1. Running /\ UNCHANGED <<ask, past>>
  BY StatementKeepsPast
<1>2. ASSUME pc \in {"body", "global", "context", "length"}
      PROVE  /\ Head(hits) \in NamedHit /\ ask.op \notin {"check", "status"}
             /\ [Head(hits) EXCEPT !.ctx.global = global] \in NamedHit
             /\ [Head(hits) EXCEPT !.ctx.prefixes = Inheriting(Head(hits).file)] \in NamedHit
             /\ [Head(hits) EXCEPT !.body = TRUE] \in NamedHit
  <2>1. hits \in Seq(NamedHit) \ {<<>>} /\ ask.op \notin {"check", "status"}
    BY <1>2, WhoseStatement DEF TruthInv
  <2>2. Head(hits) \in NamedHit
    BY <2>1, TailFacts
  <2> QED
    BY <2>1, <2>2, HitImproved
<1>3. CASE GlobalContext
  BY <1>1, <1>2, <1>3, TruthImproved DEF GlobalContext, At
<1>4. CASE GetContextForPath
  BY <1>1, <1>2, <1>4, TruthImproved, TruthFinished DEF GetContextForPath, At
<1>5. CASE DocumentBodyLength
  BY <1>1, <1>2, <1>5, TruthImproved, TruthFinished, TruthRaised DEF DocumentBodyLength, At
<1>6. CASE DocumentBody
  <2>1. pc = "body" /\ (BodyGone([Head(hits) EXCEPT !.body = TRUE]) => BodyGone(Head(hits)))
    <3>1. pc = "body"
      BY <1>6 DEF DocumentBody, At
    <3>2. Head(hits) \in HitType
      BY <1>2, <3>1 DEF NamedHit, TrueHit
    <3> QED
      BY <3>1, <3>2 DEF BodyGone, HitType
  <2> QED
    BY <1>1, <1>2, <1>6, <2>1, TruthImproved, TruthFinished, TruthRaised DEF DocumentBody
<1>7. CASE EmbedQuery
  <2>1. /\ pc = "embed" /\ UNCHANGED <<scope, ids, hits, answer>>
        /\ pc' \in {"done", "rows", "refused"}
    BY <1>7 DEF EmbedQuery, At, Goto
  <2>2. answer = <<>> /\ ask.op \notin {"check", "status"}
    BY <2>1, WhoseStatement DEF Flow, Search
  <2>3. answer' = <<>> /\ <<>> \in Seq(NamedHit) /\ ToSet(<<>>) = {}
    BY <2>1, <2>2 DEF ToSet
  <2>4. RaisesOnlyForTheDeleted'
    BY <2>1 DEF RaisesOnlyForTheDeleted
  <2> QED
    BY <1>1, <2>1, <2>2, <2>3, <2>4, TruthKept
<1>8. CASE ListCollections \/ ListPrefixes \/ CheckPaths \/ CountDocuments \/ VectorIndexHealth
  <2>1. /\ pc \in {"collections", "prefixes", "paths", "health"} /\ UNCHANGED <<scope, ids>>
        /\ pc' \in {"done", "ids", "paths", "prefixes"}
    BY <1>8 DEF ListCollections, ListPrefixes, CheckPaths, CountDocuments, VectorIndexHealth,
       NextRow, Improve, At, Goto
  <2>2. ask.op \in {"check", "status"} /\ ask.op \notin Search
    BY <2>1, WhoseStatement DEF Search
  <2>3. RaisesOnlyForTheDeleted'
    BY <2>1 DEF RaisesOnlyForTheDeleted
  <2> QED
    BY <1>1, <2>1, <2>2, <2>3, TruthKept
<1> QED
  BY <1>1, <1>3, <1>4, <1>5, <1>6, <1>7, <1>8, ResolvedTruth, RefsTruth, ListedTruth, RowsTruth,
     LabelsTruth DEF Statement

LEMMA WriteTruth ==
  ASSUME TypeInv, TruthInv, Write
  PROVE  TruthInv'
<1>1. /\ UNCHANGED <<ask, pc, scope, ids, hits, answer>>
      /\ past.rows \subseteq past'.rows /\ past.names \subseteq past'.names
      /\ past.offered \subseteq past'.offered /\ past.gone \subseteq past'.gone
  BY WriteBeside DEF reader
<1>2. TrueHit \subseteq TrueHit'
  BY <1>1 DEF TrueHit
<1>3. NamedHit \subseteq NamedHit'
  BY <1>1, <1>2 DEF NamedHit
<1>4. \A s \in Seq(TrueHit) : s \in Seq(TrueHit')
  BY <1>2, SeqMonotonic
<1>5. \A s \in Seq(NamedHit) : s \in Seq(NamedHit')
  BY <1>3, SeqMonotonic
<1>6. Wanted' = Wanted
  BY <1>1 DEF Wanted
<1> QED
  BY <1>1, <1>4, <1>5, <1>6 DEF TruthInv, RaisesOnlyForTheDeleted

LEMMA NextTruth ==
  ASSUME TypeInv, Flow, PastInv, TruthInv, [Next]_vars
  PROVE  TruthInv'
<1>1. ASSUME NEW a \in Asks, Ask(a)
      PROVE  TruthInv'
  <2>1. /\ UNCHANGED <<ids, answer>> /\ pc' \in {"scope", "collections", "ids"}
        /\ ask' = a /\ pc = "idle" /\ (pc' # "scope" => a.op \notin Search)
    BY <1>1 DEF Ask, Goto, Search
  <2>2. ids' = {} /\ answer' = <<>>
    BY <2>1 DEF Flow
  <2> QED
    BY <2>1, <2>2 DEF TruthInv, RaisesOnlyForTheDeleted
<1>2. CASE Leave
  BY <1>2 DEF Leave, Clear, Goto, TruthInv, RaisesOnlyForTheDeleted
<1>3. CASE UNCHANGED vars
  <2>1. UNCHANGED <<ask, pc, scope, ids, hits, answer, past>>
    BY <1>3 DEF vars, reader
  <2>2. TrueHit' = TrueHit /\ Wanted' = Wanted
    BY <2>1 DEF TrueHit, Wanted
  <2>3. NamedHit' = NamedHit
    BY <2>1, <2>2 DEF NamedHit
  <2> QED
    BY <2>1, <2>2, <2>3 DEF TruthInv, RaisesOnlyForTheDeleted
<1> QED
  BY <1>1, <1>2, <1>3, StatementTruth, WriteTruth DEF Next

\* What is true of every request, whatever is committed beside it.
BesideInv == TypeInv /\ Flow /\ PastInv /\ TruthInv

LEMMA BesideInvHolds == Spec => []BesideInv
<1>1. Init => BesideInv
  BY InitType, InitFlow DEF Init, TruthInv, RaisesOnlyForTheDeleted, BesideInv
<1>2. BesideInv /\ [Next]_vars => BesideInv'
  BY NextType, NextFlow, NextPast, NextTruth DEF BesideInv
<1> QED
  BY <1>1, <1>2, PTL DEF Spec

\* Whatever is committed between its statements, a reader shows only what was
\* true at some time since its request began: an active document with that
\* body at that path, in a collection that had the name it is shown under.
THEOREM ReadersAnswerWasTrue == Spec => []AnswerWasTrue
<1>1. BesideInv => AnswerWasTrue
  <2> SUFFICES ASSUME BesideInv, pc = "done",
                      ask.op \in Search \cup Lookups \cup Batch \cup {"files", "ls"},
                      NEW h \in ToSet(answer)
               PROVE  /\ <<CollOf(h.file), h.name>> \in past.names
                      /\ \E r \in past.rows : /\ r.file = h.file /\ r.hash = h.hash
                                              /\ ask.op \in Search \cup {"ls"} \/ r.name = h.name
    BY DEF AnswerWasTrue
  <2>1. answer \in Seq(NamedHit)
    BY DEF BesideInv, TruthInv, Search, Lookups, Batch
  <2>2. h \in NamedHit
    BY <2>1, ToSetOfSeq
  <2> QED
    BY <2>2 DEF NamedHit, TrueHit
<1> QED
  BY <1>1, BesideInvHolds, PTL

\* Whatever is renamed or excluded between its statements, a search shows no
\* document of a collection that never had a name it was asked for, and none of
\* a collection that was not searched by default if it was asked for none.
THEOREM ReadersScopeKept == Spec => []ScopeKept
<1>1. BesideInv => ScopeKept
  <2> SUFFICES ASSUME BesideInv, pc = "done", ask.op \in Search, NEW h \in ToSet(answer)
               PROVE  \E n \in scope : /\ <<CollOf(h.file), n>> \in past.names
                                       /\ ask.scope = {} => n \in past.offered
    BY DEF ScopeKept
  <2>1. answer \in Seq(NamedHit) /\ (Cardinality(scope) = 1 \/ h.name \in scope)
    BY DEF BesideInv, TruthInv, Search
  <2>2. h \in NamedHit
    BY <2>1, ToSetOfSeq
  <2>3. <<CollOf(h.file), h.name>> \in past.names /\ CollOf(h.file) \in ids
    BY <2>2 DEF NamedHit, TrueHit
  <2>4. ask.scope = {} => scope \subseteq past.offered
    BY DEF BesideInv, TruthInv
  <2>5. CASE h.name \in scope
    BY <2>3, <2>4, <2>5
  <2>6. CASE Cardinality(scope) = 1
    <3>1. Wanted = scope
      BY <2>6 DEF Wanted, Search
    <3>2. Wanted # {}
      BY <2>6, <3>1, FS_EmptySet
    <3> QED
      BY <2>3, <2>4, <3>1, <3>2 DEF BesideInv, TruthInv
  <2> QED
    BY <2>1, <2>5, <2>6
<1> QED
  BY <1>1, BesideInvHolds, PTL

\* A reader fails only if the body it was about to read, or the collection of
\* a document it had found, has been deleted since it began.
THEOREM ReadersRaisesOnlyForTheDeleted == Spec => []RaisesOnlyForTheDeleted
<1>1. BesideInv => RaisesOnlyForTheDeleted
  BY DEF BesideInv, TruthInv
<1> QED
  BY <1>1, BesideInvHolds, PTL

-----------------------------------------------------------------------------
(* A request nothing interferes with.                                      *)

\* Two collections never have one name, and the statements of a request are
\* restricted to the collections that were wanted.
NamesDiffer == \A c, d \in Live : name[c] = name[d] => c = d
Resolved == pc \notin {"idle", "scope", "ids", "collections", "prefixes", "paths", "failed"}
IdsInv ==
  quiet /\ Resolved /\ ask.op # "check" => ids = {c \in Live : Wanted = {} \/ name[c] \in Wanted}

\* The documents a lookup means, and how far it is with one of them.
Meant ==
  LET q == Lookup(ask)
      exact == {f \in Active : PathOf(f) = q.path} IN
  IF LooksLikeDocid(q) THEN {f \in Active : Docid[doc[f].hash] = q.path[1]}
  ELSE IF q.virtual THEN {f \in Active : Shown(f) = q.path}
  ELSE IF exact # {} THEN exact
  ELSE {f \in Active : IsSuffix(q.path, Shown(f))}
Ref(f) == Hit(f, name[CollOf(f)])
LookupInv ==
  quiet /\ pc # "idle" /\ ask.op \in Lookups =>
    /\ pc = "missing" => Meant = {}
    /\ pc \in {"body", "global", "context", "done"} => \E f \in Meant :
         /\ pc = "body" => hits = <<Ref(f)>>
         /\ pc = "global" => hits = <<[Ref(f) EXCEPT !.body = TRUE]>>
         /\ pc = "context" => hits = <<[Ref(f) EXCEPT !.body = TRUE, !.ctx.global = global]>>
         /\ IF pc = "done" THEN answer = <<[Ref(f) EXCEPT !.body = TRUE, !.ctx = Inherited(f)]>>
            ELSE answer = <<>>

LEMMA WriteKeepsNames ==
  ASSUME TypeInv, NamesDiffer, Write
  PROVE  NamesDiffer'
<1>1. ASSUME NEW c \in Coll, NEW n \in Names, RenameCollection(c, n)
      PROVE  NamesDiffer'
  <2>1. /\ name' = [name EXCEPT ![c] = n] /\ \A d \in Coll : name[d] # n
        /\ name \in [Coll -> Segment \cup {None}] /\ name[c] # None
    BY <1>1 DEF RenameCollection, TypeInv, RowsType
  <2> QED
    BY <2>1 DEF NamesDiffer, Live
<1>2. ASSUME NEW c \in Coll, RemoveCollection(c)
      PROVE  NamesDiffer'
  <2>1. /\ name' = [name EXCEPT ![c] = None] /\ name \in [Coll -> Segment \cup {None}]
    BY <1>2 DEF RemoveCollection, TypeInv, RowsType
  <2> QED
    BY <2>1 DEF NamesDiffer, Live
<1>3. CASE name' = name
  BY <1>3 DEF NamesDiffer, Live
<1> QED
  BY <1>1, <1>2, <1>3 DEF Write, Reindex, SetIncludeByDefault, AddContext, RemoveContext,
     ContextOnly, Cleanup, Embed, SetGlobalContext

LEMMA NextNames ==
  ASSUME TypeInv, NamesDiffer, [Next]_vars
  PROVE  NamesDiffer'
<1>1. CASE UNCHANGED index
  BY <1>1 DEF index, NamesDiffer, Live
<1>2. CASE Statement
  BY <1>1, <1>2 DEF Statement, ResolveScope, ResolveIds, ActiveDocumentRefs, GlobalContext,
     GetContextForPath, DocumentBodyLength, DocumentBody, ListFiles, EmbedQuery, SelectRows,
     CollectionNamesById, ListCollections, ListPrefixes, CheckPaths, CountDocuments,
     VectorIndexHealth, At
<1> QED
  BY <1>1, <1>2, WriteKeepsNames DEF Next, Leave, Ask, vars

LEMMA InitNames == Init => NamesDiffer
BY ReadersAssumption DEF Init, NamesDiffer, Live, IsInjective

\* Where a request is says which statement comes next.
LEMMA StatementAt ==
  ASSUME Statement
  PROVE  /\ pc = "scope" => ResolveScope
         /\ pc = "ids" => ResolveIds
         /\ pc = "refs" => ActiveDocumentRefs
         /\ pc = "global" => GlobalContext
         /\ pc = "context" => GetContextForPath
         /\ pc = "length" => DocumentBodyLength
         /\ pc = "body" => DocumentBody
         /\ pc = "files" => ListFiles
         /\ pc = "embed" => EmbedQuery
         /\ pc = "rows" => SelectRows
         /\ pc = "labels" => CollectionNamesById
         /\ pc = "collections" => ListCollections
         /\ pc = "prefixes" => ListPrefixes
         /\ pc = "paths" /\ ask.op = "check" => CheckPaths
BY DEF Statement, ResolveScope, ResolveIds, ActiveDocumentRefs, GlobalContext,
   GetContextForPath, DocumentBodyLength, DocumentBody, ListFiles, EmbedQuery, SelectRows,
   CollectionNamesById, ListCollections, ListPrefixes, CheckPaths, CountDocuments,
   VectorIndexHealth, At

\* Each statement reads the index the request found.
LEMMA StatementReads ==
  ASSUME PastInv, Statement
  PROVE  /\ UNCHANGED <<index, ask, past, quiet, writes>> /\ Active' = Active /\ Live' = Live
         /\ \A f \in File : Shown(f)' = Shown(f) /\ Inherited(f)' = Inherited(f)
         /\ \A f \in File, n \in Segment \cup {None} : Hit(f, n)' = Hit(f, n)
         /\ Running
<1>1. UNCHANGED <<index, ask, past, quiet, writes>> /\ Running
  BY StatementKeepsPast
<1> QED
  BY <1>1 DEF index, Active, Live, Shown, Inherited, Inheriting, Hit

LEMMA StatementIds ==
  ASSUME TypeInv, Flow, PastInv, IdsInv, Statement
  PROVE  IdsInv'
<1>1. UNCHANGED <<index, ask, past, quiet>> /\ Live' = Live
  BY StatementReads
<1>2. CASE ResolveScope
  BY <1>2 DEF ResolveScope, Goto, IdsInv, Resolved
<1>3. CASE ResolveIds
  BY <1>1, <1>3 DEF ResolveIds, At, IdsInv, Wanted, index
<1>4. CASE ~ResolveScope /\ ~ResolveIds
  <2>1. UNCHANGED <<scope, ids>> /\ (ask.op # "check" /\ Resolved' => Resolved)
    <3> USE DEF At, Goto, Resolved
    <3>1. CASE ListPrefixes \/ CheckPaths \/ CountDocuments \/ ListCollections
      <4>1. pc = "prefixes" => ask.op = "check"
        BY WhoseStatement
      <4>2. pc = "collections" /\ ask.op # "check" => ask.op = "status"
        BY WhoseStatement
      <4> QED
        BY <3>1, <4>1, <4>2 DEF ListPrefixes, CheckPaths, CountDocuments, ListCollections,
           NextRow, Improve
    <3>2. CASE ActiveDocumentRefs \/ ListFiles \/ EmbedQuery \/ SelectRows \/ VectorIndexHealth
      BY <3>2 DEF ActiveDocumentRefs, ListFiles, EmbedQuery, SelectRows, VectorIndexHealth
    <3>3. CASE GlobalContext \/ GetContextForPath
      BY <3>3 DEF GlobalContext, GetContextForPath, Improve, Finish
    <3>4. CASE DocumentBodyLength \/ DocumentBody
      BY <3>4 DEF DocumentBodyLength, DocumentBody, Improve, Finish, Raise
    <3>5. CASE CollectionNamesById
      BY <3>5 DEF CollectionNamesById, Raise
    <3> QED
      BY <1>4, <3>1, <3>2, <3>3, <3>4, <3>5 DEF Statement
  <2>2. Wanted' = Wanted
    BY <1>1, <2>1 DEF Wanted
  <2> QED
    BY <1>1, <2>1, <2>2 DEF IdsInv, index
<1> QED
  BY <1>2, <1>3, <1>4

\* A request something interfered with is promised nothing, and one that has
\* just begun has read nothing.
LEMMA QuietEnds ==
  ASSUME TypeInv, Write
  PROVE  UNCHANGED reader /\ (quiet' => pc = "idle")
BY WriteBeside, Zenon

LEMMA NextIds ==
  ASSUME TypeInv, Flow, PastInv, IdsInv, [Next]_vars
  PROVE  IdsInv'
<1>1. ASSUME NEW a \in Asks, Ask(a)
      PROVE  IdsInv'
  BY <1>1 DEF Ask, Goto, IdsInv, Resolved, Search
<1>2. CASE Leave
  BY <1>2 DEF Leave, Goto, IdsInv, Resolved
<1>3. CASE UNCHANGED vars
  BY <1>3 DEF vars, reader, index, IdsInv, Resolved, Wanted, Live
<1>4. CASE Write
  BY <1>4, QuietEnds DEF reader, IdsInv, Resolved
<1> QED
  BY <1>1, <1>2, <1>3, <1>4, StatementIds DEF Next

LEMMA HitFilled ==
  ASSUME NEW f, NEW n, NEW h, NEW b, NEW c, NEW d, NEW t, NEW r, NEW z,
         r = [file |-> f, name |-> n, hash |-> h, ctx |-> c, body |-> b, score |-> z]
  PROVE  /\ r.file = f /\ r.ctx = c
         /\ [r EXCEPT !.ctx = d]
              = [file |-> f, name |-> n, hash |-> h, ctx |-> d, body |-> b, score |-> z]
         /\ [r EXCEPT !.body = t]
              = [file |-> f, name |-> n, hash |-> h, ctx |-> c, body |-> t, score |-> z]
OBVIOUS

\* A reference, with its body and its contexts.
LEMMA RefFilled ==
  ASSUME NEW f
  PROVE  /\ [Ref(f) EXCEPT !.body = TRUE, !.ctx.global = global].file = f
         /\ [[Ref(f) EXCEPT !.body = TRUE, !.ctx.global = global]
               EXCEPT !.ctx.prefixes = Inheriting(f)]
            = [Ref(f) EXCEPT !.body = TRUE, !.ctx = Inherited(f)]
<1> DEFINE yes == TRUE
           no == FALSE
           z == 0
           n == name[CollOf(f)]
           h == doc[f].hash
           g == global
           P == Inheriting(f)
           r == Ref(f)
           s == [r EXCEPT !.body = yes]
           c == [global |-> g, prefixes |-> {}]
           d == [global |-> g, prefixes |-> P]
           t == [s EXCEPT !.ctx = c]
<1>1. r = [file |-> f, name |-> n, hash |-> h, ctx |-> [global |-> no, prefixes |-> {}],
           body |-> no, score |-> z]
  BY DEF Ref, Hit, NoContext
<1> HIDE DEF yes, no, z, n, h, g, P, r, s, c, d, t
<1>2. s = [file |-> f, name |-> n, hash |-> h, ctx |-> [global |-> no, prefixes |-> {}],
           body |-> yes, score |-> z]
  BY <1>1, HitFilled DEF s
<1>3. [r EXCEPT !.body = yes, !.ctx.global = g] = [s EXCEPT !.ctx.global = g]
  BY DEF s
<1>4. [s EXCEPT !.ctx.global = g] = t
  <2>1. [s EXCEPT !.ctx.global = g] = [s EXCEPT !.ctx = [s.ctx EXCEPT !.global = g]]
    OBVIOUS
  <2>2. [s.ctx EXCEPT !.global = g] = c
    BY <1>2, HitFilled DEF c
  <2> QED
    BY <2>1, <2>2 DEF t
<1>5. t = [file |-> f, name |-> n, hash |-> h, ctx |-> c, body |-> yes, score |-> z]
  BY <1>2, HitFilled DEF t
<1>6. [t EXCEPT !.ctx.prefixes = P] = [t EXCEPT !.ctx = [t.ctx EXCEPT !.prefixes = P]]
  OBVIOUS
<1>7. [t.ctx EXCEPT !.prefixes = P] = d
  BY <1>5 DEF c, d
<1>8. [t EXCEPT !.ctx = d] = [s EXCEPT !.ctx = d]
  BY <1>2, <1>5, HitFilled
<1>9. [s EXCEPT !.ctx = d] = [r EXCEPT !.body = yes, !.ctx = d]
  BY DEF s
<1>10. [r EXCEPT !.body = yes, !.ctx.global = g] = t
  BY <1>3, <1>4
<1>11. t.file = f
  BY <1>5
<1>12. [t EXCEPT !.ctx.prefixes = P] = [r EXCEPT !.body = yes, !.ctx = d]
  BY <1>6, <1>7, <1>8, <1>9
<1>13. d = Inherited(f)
  BY DEF d, g, P, Inherited
<1> USE DEF yes, g, P, r
<1> QED
  BY <1>10, <1>11, <1>12, <1>13, Zenon

LEMMA SingleFacts ==
  ASSUME NEW r, NEW h
  PROVE  /\ Head(<<r>>) = r /\ Tail(<<r>>) = <<>> /\ <<h>> \o Tail(<<r>>) = <<h>>
         /\ Append(<<>>, h) = <<h>>
<1>1. <<r>> \in Seq({r, h}) /\ <<r>> # <<>> /\ Len(<<r>>) = 1
  OBVIOUS
<1>2. Tail(<<r>>) \in Seq({r, h}) /\ Len(Tail(<<r>>)) = 0
  BY <1>1, TailFacts
<1>3. Tail(<<r>>) = <<>>
  BY <1>2
<1> QED
  BY <1>3

LEMMA RefsOfActive ==
  ASSUME TypeInv, ids = Live
  PROVE  Refs = {Ref(f) : f \in Active}
<1>1. \A f \in File : f \in Active <=> f \in ShownRows(doc) /\ CollOf(f) \in ids
  BY FileType DEF Active, ShownRows, Live, TypeInv, RowsType
<1>2. Active \subseteq File /\ ShownRows(doc) \subseteq File
  BY DEF Active, ShownRows
<1> QED
  BY <1>1, <1>2 DEF Refs, Ref

\* What a lookup finds among the rows is the reference to a document it meant.
LEMMA LookupFinds ==
  ASSUME TypeInv, ids = Live, ask.op \in Lookups, NEW t \in Found(Refs)
  PROVE  \/ t = <<>> /\ Meant = {}
         \/ \E f \in Meant : t = <<Ref(f)>>
<1> DEFINE q == Lookup(ask)
           M == IF LooksLikeDocid(q) THEN WithDocid(Refs, q) ELSE Named(Refs, q)
<1>1. t \in FoundOne(Refs, q)
  BY DEF Found, Lookups
<1>2. (M = {} /\ t = <<>>) \/ \E r \in M : t = <<r>>
  BY <1>1, FoundOneFacts
<1>3. Refs = {Ref(f) : f \in Active}
  BY RefsOfActive
<1>4. \A f \in File : Ref(f).file = f /\ Ref(f).hash = doc[f].hash /\ Key(Ref(f)) = Shown(f)
  BY DEF Ref, Hit, Key, Shown
<1>5. Active \subseteq File
  BY DEF Active
<1>6. M = {Ref(f) : f \in Meant}
  <2> HIDE DEF Ref, Key, Shown, Refs
  <2>1. CASE LooksLikeDocid(q)
    BY <1>3, <1>4, <1>5, <2>1 DEF WithDocid, Meant
  <2>2. CASE ~LooksLikeDocid(q) /\ q.virtual
    BY <1>3, <1>4, <1>5, <2>2 DEF Named, Meant
  <2>3. CASE ~LooksLikeDocid(q) /\ ~q.virtual
    <3> DEFINE E == {r \in Refs : PathOf(r.file) = q.path}
               F == {f \in Active : PathOf(f) = q.path}
    <3>1. E = {Ref(f) : f \in F}
      BY <1>3, <1>4, <1>5
    <3>2. {r \in Refs : IsSuffix(q.path, Key(r))}
          = {Ref(f) : f \in {g \in Active : IsSuffix(q.path, Shown(g))}}
      BY <1>3, <1>4, <1>5
    <3>3. E = {} <=> F = {}
      BY <3>1
    <3>4. Named(Refs, q) = IF E # {} THEN E ELSE {r \in Refs : IsSuffix(q.path, Key(r))}
      BY <2>3 DEF Named
    <3>5. Meant = IF F # {} THEN F ELSE {f \in Active : IsSuffix(q.path, Shown(f))}
      BY <2>3 DEF Meant
    <3> HIDE DEF E, F, q
    <3> QED
      BY <2>3, <3>1, <3>2, <3>3, <3>4, <3>5
  <2> QED
    BY <2>1, <2>2, <2>3
<1> HIDE DEF M
<1> QED
  BY <1>2, <1>6

LEMMA MeantKept ==
  ASSUME UNCHANGED <<index, ask>>
  PROVE  /\ Meant' = Meant /\ Meant \subseteq Active /\ Active \subseteq File
         /\ \A f : Ref(f)' = Ref(f) /\ Inherited(f)' = Inherited(f)
<1>1. Active \subseteq File
  BY DEF Active
<1>2. /\ doc' = doc /\ Lookup(ask)' = Lookup(ask) /\ Active' = Active
      /\ \A f : Shown(f)' = Shown(f)
  BY DEF index, Lookup, Active, Shown
<1>3. \A f : Ref(f)' = Ref(f) /\ Inherited(f)' = Inherited(f)
  BY DEF Ref, Hit, Inherited, Inheriting, index
<1>4. {f \in Active : PathOf(f) = Lookup(ask).path}' = {f \in Active : PathOf(f) = Lookup(ask).path}
  BY <1>2
<1>5. {f \in Active : IsSuffix(Lookup(ask).path, Shown(f))}'
      = {f \in Active : IsSuffix(Lookup(ask).path, Shown(f))}
  BY <1>2
<1> QED
  BY <1>1, <1>2, <1>3, <1>4, <1>5 DEF Meant, LooksLikeDocid

LEMMA StatementLookup ==
  ASSUME TypeInv, Flow, PastInv, IdsInv, LookupInv, Statement, quiet, ask.op \in Lookups
  PROVE  LookupInv'
<1>1. /\ UNCHANGED <<index, ask, past, quiet>> /\ Active' = Active /\ Live' = Live
      /\ \A f \in File : Shown(f)' = Shown(f) /\ Inherited(f)' = Inherited(f)
      /\ pc # "idle"
  BY StatementReads DEF Running
<1>2. Meant' = Meant /\ Meant \subseteq Active /\ Active \subseteq File
  BY <1>1, MeantKept
<1>3. \A f \in File : Ref(f)' = Ref(f)
  BY <1>1, MeantKept
<1>4. /\ pc \in {"ids", "refs", "body", "global", "context"} /\ ask.op \notin Search \cup Batch
      /\ ask.op # "files"
  <2>1. pc \in Route(ask.op) /\ pc \notin Ended /\ ask.op \notin Search \cup Batch /\ ask.op # "files"
    BY <1>1, StatementReads DEF Flow, Lookups, Search, Batch, Running
  <2> QED
    BY <2>1 DEF Route, Lookups, Search, Ended
<1>5. Wanted = {}
  BY <1>1, <1>4, FS_EmptySet DEF Flow, Wanted, Lookups
<1>6. CASE pc = "ids"
  <2>1. ResolveIds
    BY <1>6, StatementAt
  <2>2. ids' = Live
    BY <1>5, <2>1 DEF ResolveIds
  <2>3. pc' = IF Live # {} THEN "refs" ELSE "missing"
    BY <1>4, <2>1, <2>2 DEF ResolveIds, Goto, Lookups
  <2>4. Live = {} => Active = {}
    BY FileType DEF Active, Live, TypeInv, RowsType
  <2> QED
    BY <1>2, <2>3, <2>4 DEF LookupInv
<1>7. CASE pc = "refs"
  <2>1. ActiveDocumentRefs
    BY <1>7, StatementAt
  <2>2. /\ hits' \in Found(Refs) /\ pc' = IF hits' = <<>> THEN "missing" ELSE "body"
        /\ answer' = <<>>
    BY <1>4, <1>7, <2>1, WhoseStatement DEF ActiveDocumentRefs, Goto, Lookups, Flow
  <2>3. ids = Live
    BY <1>5, <1>7 DEF IdsInv, Resolved, Lookups
  <2>4. (hits' = <<>> /\ Meant = {}) \/ \E f \in Meant : hits' = <<Ref(f)>>
    BY <2>2, <2>3, LookupFinds
  <2>5. ASSUME NEW f \in Meant, hits' = <<Ref(f)>>
        PROVE  LookupInv'
    <3>1. Ref(f)' = Ref(f) /\ pc' = "body" /\ f \in Meant'
      BY <1>2, <1>3, <2>2, <2>5
    <3> QED
      BY <2>2, <2>5, <3>1 DEF LookupInv
  <2>6. CASE hits' = <<>> /\ Meant = {}
    BY <1>2, <2>2, <2>6 DEF LookupInv
  <2> QED
    BY <2>4, <2>5, <2>6
<1>8. CASE pc = "body"
  <2>1. DocumentBody
    BY <1>8, StatementAt
  <2>2. PICK f \in Meant : hits = <<Ref(f)>>
    BY <1>8 DEF LookupInv
  <2>3. /\ pc' = "failed" \/ pc' = "global"
        /\ pc' = "global" =>
             hits' = <<[Head(hits) EXCEPT !.body = TRUE]>> \o Tail(hits) /\ answer' = answer
    BY <2>1 DEF DocumentBody, Improve, Raise, Goto
  <2>4. pc' = "global" => hits' = <<[Ref(f) EXCEPT !.body = TRUE]>>
    BY <2>2, <2>3, SingleFacts
  <2>5. Ref(f)' = Ref(f) /\ f \in Meant' /\ answer = <<>>
    BY <1>2, <1>3, <1>8 DEF LookupInv
  <2> QED
    BY <2>3, <2>4, <2>5 DEF LookupInv
<1>9. CASE pc = "global"
  <2>1. GlobalContext
    BY <1>9, StatementAt
  <2>2. PICK f \in Meant : hits = <<[Ref(f) EXCEPT !.body = TRUE]>>
    BY <1>9 DEF LookupInv
  <2>3. /\ pc' = "context" /\ answer' = answer
        /\ hits' = <<[Head(hits) EXCEPT !.ctx.global = global]>> \o Tail(hits)
    BY <2>1 DEF GlobalContext, Improve, Goto
  <2>4. hits' = <<[Ref(f) EXCEPT !.body = TRUE, !.ctx.global = global]>>
    BY <2>2, <2>3, SingleFacts
  <2>5. Ref(f)' = Ref(f) /\ f \in Meant' /\ answer = <<>> /\ global' = global
    BY <1>1, <1>2, <1>3, <1>9 DEF LookupInv, index
  <2> QED
    BY <2>3, <2>4, <2>5 DEF LookupInv
<1>10. CASE pc = "context"
  <2>1. GetContextForPath
    BY <1>10, StatementAt
  <2>2. PICK f \in Meant :
          hits = <<[Ref(f) EXCEPT !.body = TRUE, !.ctx.global = global]>>
    BY <1>10 DEF LookupInv
  <2> DEFINE g == [Head(hits) EXCEPT !.ctx.prefixes = Inheriting(Head(hits).file)]
  <2>3. Finish(g, "global")
    BY <1>4, <2>1 DEF GetContextForPath
  <2>4. Head(hits) = [Ref(f) EXCEPT !.body = TRUE, !.ctx.global = global] /\ Tail(hits) = <<>>
    BY <2>2, SingleFacts
  <2>5. g = [Ref(f) EXCEPT !.body = TRUE, !.ctx = Inherited(f)]
    <3>1. Head(hits).file = f
      BY <2>4, RefFilled
    <3>2. g = [[Ref(f) EXCEPT !.body = TRUE, !.ctx.global = global]
                 EXCEPT !.ctx.prefixes = Inheriting(f)]
      BY <2>4, <3>1
    <3> QED
      BY <3>2, RefFilled
  <2> HIDE DEF g
  <2>6. answer = <<>>
    BY <1>10 DEF LookupInv
  <2>7. pc' = "done" /\ answer' \in Kept(Append(answer, g))
    BY <2>3, <2>4 DEF Finish, Goto
  <2>8. answer' = <<g>>
    BY <1>4, <2>6, <2>7, SingleFacts DEF Kept
  <2>9. Ref(f)' = Ref(f) /\ f \in Meant' /\ Inherited(f)' = Inherited(f)
    BY <1>1, <1>2, <1>3
  <2> QED
    BY <2>5, <2>7, <2>8, <2>9 DEF LookupInv
<1> QED
  BY <1>4, <1>6, <1>7, <1>8, <1>9, <1>10

LEMMA NextLookup ==
  ASSUME TypeInv, Flow, PastInv, IdsInv, LookupInv, [Next]_vars
  PROVE  LookupInv'
<1>1. ASSUME NEW a \in Asks, Ask(a)
      PROVE  LookupInv'
  BY <1>1 DEF Ask, Goto, LookupInv, Search
<1>2. CASE Leave
  BY <1>2 DEF Leave, Goto, LookupInv
<1>3. CASE UNCHANGED vars
  <2>1. UNCHANGED <<pc, hits, answer, quiet, global>> /\ UNCHANGED <<index, ask>>
    BY <1>3 DEF vars, reader, index
  <2> QED
    BY <2>1, MeantKept DEF LookupInv
<1>4. CASE Write
  BY <1>4, QuietEnds DEF reader, LookupInv
<1>5. CASE Statement
  <2>1. UNCHANGED <<ask, quiet>>
    BY <1>5, StatementReads
  <2>2. CASE quiet /\ ask.op \in Lookups
    BY <1>5, <2>2, StatementLookup
  <2>3. CASE ~(quiet /\ ask.op \in Lookups)
    BY <2>1, <2>3 DEF LookupInv
  <2> QED
    BY <2>2, <2>3
<1> QED
  BY <1>1, <1>2, <1>3, <1>4, <1>5 DEF Next

\* What is true of a request nothing interferes with, whatever it asks for.
QuietInv == BesideInv /\ NamesDiffer /\ IdsInv

LEMMA QuietInvHolds == Spec => []QuietInv
<1>1. Init => NamesDiffer /\ IdsInv
  BY InitNames DEF Init, IdsInv, Resolved
<1>2. BesideInv /\ NamesDiffer /\ IdsInv /\ [Next]_vars => NamesDiffer' /\ IdsInv'
  BY NextNames, NextIds DEF BesideInv
<1> QED
  BY <1>1, <1>2, BesideInvHolds, PTL DEF Spec, QuietInv

\* A lookup nothing interferes with answers with a document it meant, its body
\* and its contexts, and is told there is none only if there is none.
THEOREM ReadersLookupExact == Spec => []LookupExact
<1>1. Init => LookupInv
  BY DEF Init, LookupInv
<1>2. QuietInv /\ LookupInv /\ [Next]_vars => LookupInv'
  BY NextLookup DEF QuietInv, BesideInv
<1>3. LookupInv => LookupExact
  BY DEF LookupInv, LookupExact, Undisturbed, Meant, Ref
<1> QED
  BY <1>1, <1>2, <1>3, QuietInvHolds, PTL DEF Spec

-----------------------------------------------------------------------------
(* Batches: what is in hand, answered so far and still to come.            *)

InHand == Files(answer) \cup Files(hits)

\* A body is shown unless it is too large.
BodiesInv ==
  pc # "idle" /\ ask.op \in Batch =>
    /\ \A h \in ToSet(answer) : h.body = (h.hash \notin Huge)
    /\ \A h \in ToSet(hits) : h.body = FALSE
    /\ pc = "body" => Head(hits).hash \notin Huge

\* Nothing that matched is lost or shown twice.
Gathered ==
  /\ ask.op \in {"glob", "files"} =>
       /\ InHand = {f \in Active : Matches(Ref(f), ask.pattern)}
       /\ Len(answer) + Len(hits) = Cardinality(InHand)
  /\ ask.op = "list" => \A i \in 1..Len(ask.items) : \A f \in Active :
       ask.items[i].virtual /\ ask.items[i].path = Shown(f) => f \in InHand
MembersInv ==
  quiet => /\ pc \in {"body", "global", "context", "length", "done"} => Gathered
           /\ pc = "done" /\ ask.op = "ls" =>
                Files(answer) = {f \in Active : name[CollOf(f)] = ask.coll
                                                /\ Covers(ask.prefix, PathOf(f))}

LEMMA FilesImproved ==
  ASSUME NEW S, NEW s \in Seq(S), s # <<>>, NEW e \in S, e.file = Head(s).file
  PROVE  Files(<<e>> \o Tail(s)) = Files(s)
<1>1. ToSet(s) = {Head(s)} \cup ToSet(Tail(s))
  BY TailFacts
<1>2. ToSet(<<e>> \o Tail(s)) = {e} \cup ToSet(Tail(s))
  BY ConsFacts
<1> QED
  BY <1>1, <1>2 DEF Files

LEMMA FilesFinished ==
  ASSUME NEW S, NEW s \in Seq(S), s # <<>>, NEW e \in S, e.file = Head(s).file, NEW t \in Seq(S)
  PROVE  Files(Append(t, e)) \cup Files(Tail(s)) = Files(t) \cup Files(s)
<1>1. ToSet(s) = {Head(s)} \cup ToSet(Tail(s))
  BY TailFacts
<1>2. ToSet(Append(t, e)) = ToSet(t) \cup {e}
  BY AppendFacts
<1> QED
  BY <1>1, <1>2 DEF Files

\* A statement between the first and the last passes one hit on.
LEMMA HitPassed ==
  ASSUME TypeInv, Flow, TruthInv, Statement, pc \in {"body", "global", "context", "length"},
         pc' # "failed"
  PROVE  \E h \in NamedHit :
           /\ h.file = Head(hits).file /\ h.hash = Head(hits).hash /\ h.name = Head(hits).name
           /\ h.score = Head(hits).score
           /\ IF pc = "body" THEN h.body = TRUE ELSE h.body = Head(hits).body
           /\ \/ Improve(h, pc')
              \/ \E again \in {"global", "length"} : Finish(h, again)
<1>1. hits \in Seq(NamedHit) \ {<<>>}
  BY DEF TruthInv
<1>2. Head(hits) \in NamedHit
  BY <1>1, TailFacts
<1>3. GlobalContext \/ GetContextForPath \/ DocumentBodyLength \/ DocumentBody
  BY StatementAt
<1>4. CASE GlobalContext
  <2> DEFINE g == [Head(hits) EXCEPT !.ctx.global = global]
  <2>1. /\ g \in NamedHit /\ g.file = Head(hits).file /\ g.hash = Head(hits).hash
        /\ g.name = Head(hits).name /\ g.body = Head(hits).body /\ g.score = Head(hits).score
    BY <1>2, WithGlobal, Zenon
  <2>2. Improve(g, "context") /\ pc = "global"
    BY <1>4 DEF GlobalContext, At
  <2>3. pc' = "context"
    BY <2>2 DEF Improve, Goto
  <2> QED
    BY <2>1, <2>2, <2>3
<1>5. CASE GetContextForPath
  <2> DEFINE g == [Head(hits) EXCEPT !.ctx.prefixes = Inheriting(Head(hits).file)]
  <2>1. /\ g \in NamedHit /\ g.file = Head(hits).file /\ g.hash = Head(hits).hash
        /\ g.name = Head(hits).name /\ g.body = Head(hits).body /\ g.score = Head(hits).score
    BY <1>2, HitImproved
  <2>2. (Improve(g, "length") \/ Finish(g, "global")) /\ pc = "context"
    BY <1>5 DEF GetContextForPath, At
  <2> HIDE DEF g
  <2>3. Improve(g, "length") => Improve(g, pc')
    BY DEF Improve, Goto
  <2> QED
    BY <2>1, <2>2, <2>3
<1>6. CASE DocumentBodyLength
  <2>1. pc = "length" /\ (Raise \/ Improve(Head(hits), "body")
                          \/ \E again \in {"global", "length"} : Finish(Head(hits), again))
    BY <1>6 DEF DocumentBodyLength, At
  <2>2. ~Raise /\ (Improve(Head(hits), "body") => Improve(Head(hits), pc'))
    BY DEF Raise, Goto, Improve
  <2> QED
    BY <1>2, <2>1, <2>2
<1>7. CASE DocumentBody
  <2> DEFINE g == [Head(hits) EXCEPT !.body = TRUE]
  <2>1. /\ g \in NamedHit /\ g.file = Head(hits).file /\ g.hash = Head(hits).hash
        /\ g.name = Head(hits).name /\ g.body = TRUE /\ g.score = Head(hits).score
    BY <1>2, HitImproved
  <2>2. (Raise \/ Improve(g, "global") \/ Finish(g, "global")) /\ pc = "body"
    BY <1>7 DEF DocumentBody, At
  <2> HIDE DEF g
  <2>3. ~Raise /\ (Improve(g, "global") => Improve(g, pc'))
    BY DEF Raise, Goto, Improve
  <2> QED
    BY <2>1, <2>2, <2>3
<1> QED
  BY <1>3, <1>4, <1>5, <1>6, <1>7

\* Passing a hit on loses nothing of a batch.
LEMMA HandKept ==
  ASSUME TypeInv, Flow, TruthInv, Statement, pc \in {"body", "global", "context", "length"},
         ask.op \notin Search
  PROVE  InHand' = InHand /\ Len(answer)' + Len(hits)' = Len(answer) + Len(hits)
<1>1. hits \in Seq(NamedHit) \ {<<>>} /\ answer \in Seq(NamedHit)
  BY WhoseStatement DEF TruthInv
<1>2. CASE pc' = "failed"
  <2>1. UNCHANGED <<hits, answer>>
    <3>1. GlobalContext \/ GetContextForPath \/ DocumentBodyLength \/ DocumentBody
      BY StatementAt
    <3> QED
      BY <1>2, <3>1 DEF GlobalContext, GetContextForPath, DocumentBodyLength, DocumentBody, Improve,
         Finish, Goto, Raise
  <2> QED
    BY <2>1 DEF InHand, Files
<1>3. CASE pc' # "failed"
  <2>1. PICK h \in NamedHit :
           /\ h.file = Head(hits).file
           /\ Improve(h, pc') \/ \E again \in {"global", "length"} : Finish(h, again)
    BY <1>3, HitPassed
  <2>2. Len(answer) \in Nat /\ Len(hits) \in Nat \ {0}
    BY <1>1, TailFacts
  <2>3. CASE Improve(h, pc')
    <3>1. hits' = <<h>> \o Tail(hits) /\ answer' = answer /\ Len(hits') = Len(hits)
      BY <1>1, <2>3, ImproveFacts DEF Improve
    <3> QED
      BY <1>1, <2>1, <3>1, FilesImproved DEF InHand
  <2>4. ASSUME NEW again, Finish(h, again)
        PROVE  InHand' = InHand /\ Len(answer)' + Len(hits)' = Len(answer) + Len(hits)
    <3>1. hits' = Tail(hits) /\ answer' = Append(answer, h)
      BY <1>1, <2>4, FinishFacts DEF Kept
    <3>2. Len(hits') = Len(hits) - 1 /\ Len(answer') = Len(answer) + 1
      BY <1>1, <3>1, TailFacts, AppendFacts
    <3>3. Files(Append(answer, h)) \cup Files(Tail(hits)) = Files(answer) \cup Files(hits)
      BY <1>1, <2>1, FilesFinished
    <3>4. Files(answer)' = Files(answer') /\ Files(hits)' = Files(hits')
      BY DEF Files
    <3> QED
      BY <2>2, <3>1, <3>2, <3>3, <3>4 DEF InHand
  <2> QED
    BY <2>1, <2>3, <2>4
<1> QED
  BY <1>2, <1>3

LEMMA BodiesImproved ==
  ASSUME BodiesInv, ask.op \in Batch, UNCHANGED ask, pc # "idle", hits \in Seq(NamedHit) \ {<<>>},
         NEW h \in NamedHit, h.body = FALSE, NEW next, Improve(h, next),
         next = "body" => h.hash \notin Huge
  PROVE  BodiesInv'
<1>1. /\ UNCHANGED answer /\ ToSet(hits') = {h} \cup ToSet(Tail(hits)) /\ Head(hits') = h
      /\ pc' = next
  BY ImproveFacts
<1>2. ToSet(Tail(hits)) \subseteq ToSet(hits)
  BY TailFacts
<1> QED
  BY <1>1, <1>2 DEF BodiesInv

LEMMA BodiesFinished ==
  ASSUME BodiesInv, ask.op \in Batch, UNCHANGED ask, pc # "idle", hits \in Seq(NamedHit) \ {<<>>},
         answer \in Seq(NamedHit), NEW h \in NamedHit, h.body = (h.hash \notin Huge),
         Finish(h, "global")
  PROVE  BodiesInv'
<1>1. ask.op \notin Search
  BY DEF Batch, Search
<1>2. hits' = Tail(hits) /\ answer' = Append(answer, h) /\ pc' # "body"
  BY <1>1, FinishFacts DEF Kept
<1>3. ToSet(Tail(hits)) \subseteq ToSet(hits) /\ ToSet(answer') = ToSet(answer) \cup {h}
  BY <1>2, TailFacts, AppendFacts
<1>4. \A g \in ToSet(answer) : g.body = (g.hash \notin Huge)
  BY DEF BodiesInv
<1>5. \A g \in ToSet(answer') : g.body = (g.hash \notin Huge)
  BY <1>3, <1>4
<1> QED
  BY <1>2, <1>3, <1>5 DEF BodiesInv

LEMMA BodiesSame ==
  ASSUME BodiesInv, pc # "idle", UNCHANGED <<ask, hits, answer>>, pc' # "body"
  PROVE  BodiesInv'
BY DEF BodiesInv

LEMMA StatementBodies ==
  ASSUME TypeInv, Flow, PastInv, TruthInv, BodiesInv, Statement
  PROVE  BodiesInv'
<1>1. UNCHANGED ask /\ pc # "idle" /\ Running
  BY StatementReads DEF Running
<1> SUFFICES ASSUME ask.op \in Batch PROVE BodiesInv'
  BY <1>1 DEF BodiesInv
<1>2. ask.op \notin Search \cup Lookups \cup {"files", "ls", "check", "status"} /\ ask \in Asks
  BY <1>1 DEF Batch, Search, Lookups, Flow
<1>3. /\ \A h \in ToSet(answer) : h.body = (h.hash \notin Huge)
      /\ \A h \in ToSet(hits) : h.body = FALSE
      /\ pc = "body" => Head(hits).hash \notin Huge
  BY <1>1 DEF BodiesInv
<1>4. pc \in {"ids", "refs", "length", "body", "global", "context"}
  BY <1>1, <1>2 DEF Flow, Route, Running, Ended
<1>5. CASE pc = "ids"
  <2>1. UNCHANGED <<hits, answer>> /\ pc' # "body"
    BY <1>2, <1>5, StatementAt DEF ResolveIds, Goto
  <2> QED
    BY <1>1, <2>1, BodiesSame
<1>6. CASE pc = "refs"
  <2>1. hits' \in Found(Refs) /\ UNCHANGED answer /\ pc' # "body"
    BY <1>2, <1>6, StatementAt DEF ActiveDocumentRefs, Goto
  <2>2. hits' \in Seq(Refs)
    BY <1>2, <2>1, FiniteRefs, FoundFacts
  <2>3. \A r \in Refs : r.body = FALSE
    BY DEF Refs, Hit
  <2>4. \A h \in ToSet(hits') : h.body = FALSE
    BY <2>2, <2>3, ToSetOfSeq
  <2> QED
    BY <1>1, <1>3, <2>1, <2>4 DEF BodiesInv
<1>7. CASE pc \in {"length", "body", "global", "context"}
  <2>1. hits \in Seq(NamedHit) \ {<<>>} /\ answer \in Seq(NamedHit)
    BY <1>2, <1>7 DEF TruthInv
  <2>2. Head(hits) \in ToSet(hits) /\ Head(hits) \in NamedHit
    BY <2>1, TailFacts
  <2>3. Head(hits).body = FALSE
    BY <1>3, <2>2
  <2>4. CASE pc = "global"
    <3> DEFINE h == [Head(hits) EXCEPT !.ctx.global = global]
    <3>1. h \in NamedHit /\ h.body = Head(hits).body
      BY <2>2, HitImproved
    <3>2. Improve(h, "context")
      BY <2>4, StatementAt DEF GlobalContext
    <3> HIDE DEF h
    <3> QED
      BY <1>1, <2>1, <2>3, <3>1, <3>2, BodiesImproved
  <2>5. CASE pc = "context"
    <3> DEFINE h == [Head(hits) EXCEPT !.ctx.prefixes = Inheriting(Head(hits).file)]
    <3>1. h \in NamedHit /\ h.body = Head(hits).body
      BY <2>2, HitImproved
    <3>2. Improve(h, "length")
      BY <2>5, StatementAt DEF GetContextForPath
    <3> HIDE DEF h
    <3> QED
      BY <1>1, <2>1, <2>3, <3>1, <3>2, BodiesImproved
  <2>6. CASE pc = "length"
    <3>1. DocumentBodyLength /\ ask.op # "files"
      BY <1>2, <2>6, StatementAt
    <3>2. CASE Raise
      BY <1>1, <3>2, BodiesSame DEF Raise, Goto
    <3>3. CASE Head(hits).hash \in Huge /\ Finish(Head(hits), "global")
      BY <1>1, <2>1, <2>2, <2>3, <3>3, BodiesFinished
    <3>4. CASE Head(hits).hash \notin Huge /\ Improve(Head(hits), "body")
      BY <1>1, <2>1, <2>2, <2>3, <3>4, BodiesImproved
    <3> QED
      BY <3>1, <3>2, <3>3, <3>4 DEF DocumentBodyLength
  <2>7. CASE pc = "body"
    <3> DEFINE h == [Head(hits) EXCEPT !.body = TRUE]
    <3>1. h \in NamedHit /\ h.body = TRUE /\ h.hash = Head(hits).hash
      BY <2>2, HitImproved
    <3>2. Raise \/ Finish(h, "global")
      BY <1>2, <2>7, StatementAt DEF DocumentBody
    <3>3. h.body = (h.hash \notin Huge)
      BY <1>3, <2>7, <3>1
    <3> HIDE DEF h
    <3>4. CASE Raise
      BY <1>1, <3>4, BodiesSame DEF Raise, Goto
    <3> QED
      BY <1>1, <2>1, <3>1, <3>2, <3>3, <3>4, BodiesFinished
  <2> QED
    BY <1>7, <2>4, <2>5, <2>6, <2>7
<1> QED
  BY <1>4, <1>5, <1>6, <1>7

LEMMA GatheredKept ==
  ASSUME Gathered, UNCHANGED <<index, ask>>, InHand' = InHand,
         Len(answer)' + Len(hits)' = Len(answer) + Len(hits)
  PROVE  Gathered'
<1>1. /\ Active' = Active /\ Active \subseteq File
      /\ \A f : Ref(f)' = Ref(f)
  BY MeantKept DEF index, Active
<1>2. \A f : Shown(f)' = Shown(f)
  BY DEF Shown, index
<1> QED
  BY <1>1, <1>2 DEF Gathered

\* The path a document is shown under tells it from every other.
LEMMA ShownDiffer ==
  ASSUME TypeInv, NamesDiffer, NEW f \in Active, NEW g \in Active, Shown(f) = Shown(g)
  PROVE  f = g
<1>1. /\ f \in File /\ g \in File /\ CollOf(f) \in Live /\ CollOf(g) \in Live
      /\ PathOf(f) \in Seq(Segment) /\ PathOf(g) \in Seq(Segment)
      /\ name[CollOf(f)] \in Segment /\ name[CollOf(g)] \in Segment
  BY FileType, ReadersAssumption DEF Active, Live, TypeInv, RowsType, CollOf, PathOf
<1> DEFINE n == name[CollOf(f)]
           m == name[CollOf(g)]
           p == PathOf(f)
           q == PathOf(g)
<1> HIDE DEF n, m, p, q
<1>2. /\ n \in Segment /\ m \in Segment /\ p \in Seq(Segment) /\ q \in Seq(Segment)
      /\ <<n>> \o p = <<m>> \o q
  BY <1>1 DEF n, m, p, q, Shown
<1>3. <<n>> \in Seq(Segment) /\ <<m>> \in Seq(Segment) /\ Len(<<n>>) = 1 /\ Len(<<m>>) = 1
      /\ <<n>>[1] = n /\ <<m>>[1] = m
  BY <1>2
<1>4. /\ Len(<<n>> \o p) = 1 + Len(p) /\ Len(<<m>> \o q) = 1 + Len(q)
      /\ \A i \in 1..1 + Len(p) : (<<n>> \o p)[i] = IF i <= 1 THEN <<n>>[i] ELSE p[i - 1]
      /\ \A i \in 1..1 + Len(q) : (<<m>> \o q)[i] = IF i <= 1 THEN <<m>>[i] ELSE q[i - 1]
      /\ Len(p) \in Nat /\ Len(q) \in Nat
  BY <1>2, <1>3, ConcatProperties
<1>5. Len(p) = Len(q)
  BY <1>2, <1>4
<1>6. n = m
  BY <1>2, <1>3, <1>4
<1>7. \A i \in 1..Len(p) : p[i] = q[i]
  <2> SUFFICES ASSUME NEW i \in 1..Len(p) PROVE p[i] = q[i]
    OBVIOUS
  <2>1. i + 1 \in 1..1 + Len(p) /\ ~(i + 1 <= 1) /\ (i + 1) - 1 = i
    BY <1>4
  <2>2. (<<n>> \o p)[i + 1] = p[i] /\ (<<m>> \o q)[i + 1] = q[i]
    BY <1>4, <1>5, <2>1
  <2> QED
    BY <1>2, <2>2
<1>8. p = q
  BY <1>2, <1>5, <1>7, SeqEqual
<1>9. CollOf(f) = CollOf(g)
  BY <1>1, <1>6 DEF NamesDiffer, n, m
<1>10. \A h \in File : h = <<CollOf(h), PathOf(h)>>
  BY ReadersAssumption DEF CollOf, PathOf
<1>11. PathOf(f) = PathOf(g)
  BY <1>8 DEF p, q
<1> QED
  BY <1>1, <1>9, <1>10, <1>11

LEMMA GatheredAtFirst ==
  ASSUME TypeInv, NamesDiffer, ids = Live, ask \in Asks, ask.op \in {"list", "glob", "files"},
         answer = <<>>, answer' = <<>>, hits' \in Found(Refs), UNCHANGED <<index, ask>>
  PROVE  Gathered'
<1> DEFINE Matched == {f \in Active : Matches(Ref(f), ask.pattern)}
<1>1. Refs = {Ref(f) : f \in Active}
  BY RefsOfActive
<1>2. \A f \in File : Ref(f).file = f /\ Key(Ref(f)) = Shown(f)
  BY DEF Ref, Hit, Key, Shown
<1>3. Active \subseteq File /\ Active' = Active /\ \A f : Ref(f)' = Ref(f) /\ Shown(f)' = Shown(f)
  BY MeantKept DEF Active, index, Shown
<1>4. InHand' = Files(hits') /\ Len(answer') = 0
  BY DEF InHand, Files, ToSet
<1>5. ASSUME ask.op \in {"glob", "files"}
      PROVE  Files(hits') = Matched /\ Len(hits') = Cardinality(Files(hits'))
  <2>1. hits' \in FoundAll(Refs, ask.pattern)
    BY <1>5 DEF Found, Lookups
  <2>2. /\ hits' \in Seq(Refs) /\ ToSet(hits') = {r \in Refs : Matches(r, ask.pattern)}
        /\ hits' \in Bijection(1..Len(hits'), ToSet(hits'))
    BY <2>1, FiniteRefs, FoundAllFacts
  <2>3. Files(hits') = Matched
    BY <1>1, <1>2, <1>3, <2>2 DEF Files
  <2> DEFINE n == Len(hits')
             F == [i \in 1..n |-> hits'[i].file]
             T == ToSet(hits')
  <2>4. n \in Nat
    BY <2>2
  <2>5. Files(hits') = {r.file : r \in T}
    BY DEF Files
  <2>6. /\ \A i \in 1..n : hits'[i] \in T
        /\ \A r \in T : \E i \in 1..n : hits'[i] = r
        /\ \A i, j \in 1..n : hits'[i] = hits'[j] => i = j
    BY <2>2 DEF Bijection, Injection, Surjection, IsInjective
  <2>7. \A r, s \in T : r.file = s.file => r = s
    BY <1>1, <1>2, <1>3, <2>2
  <2> HIDE DEF n, T
  <2>8. F \in Bijection(1..n, Files(hits'))
    <3>1. F \in [1..n -> Files(hits')]
      BY <2>5, <2>6
    <3>2. \A i, j \in 1..n : F[i] = F[j] => i = j
      BY <2>6, <2>7
    <3>3. \A f \in Files(hits') : \E i \in 1..n : F[i] = f
      BY <2>5, <2>6
    <3> QED
      BY <3>1, <3>2, <3>3 DEF Bijection, Injection, Surjection, IsInjective
  <2>9. Cardinality(Files(hits')) = n
    <3>1. ExistsBijection(1..n, Files(hits'))
      BY <2>8 DEF ExistsBijection
    <3> QED
      BY <2>4, <3>1, FS_CountingElements
  <2> QED
    BY <2>3, <2>9 DEF n
<1>6. ASSUME ask.op = "list", NEW i \in 1..Len(ask.items), NEW f \in Active,
             ask.items[i].virtual, ask.items[i].path = Shown(f)
      PROVE  f \in Files(hits')
  <2>1. ask.items \in Seq([virtual : BOOLEAN, path : Seq(Segment)])
    BY <1>6, ReadersAssumption
  <2>2. hits' \in FoundEach(Refs, ask.items)
    BY <1>6 DEF Found, Lookups
  <2>3. Ref(f) \in Named(Refs, ask.items[i])
    BY <1>1, <1>2, <1>3, <1>6 DEF Named
  <2>4. PICK r \in ToSet(hits') : r \in Named(Refs, ask.items[i])
    BY <2>1, <2>2, <2>3, FoundEachFacts
  <2>5. r \in Refs /\ Key(r) = Shown(f)
    BY <1>6, <2>4 DEF Named
  <2>6. PICK g \in Active : r = Ref(g)
    BY <1>1, <2>5
  <2>7. g = f
    BY <1>2, <1>3, <2>5, <2>6, ShownDiffer
  <2> QED
    BY <1>2, <1>3, <2>4, <2>6, <2>7 DEF Files
<1>7. Len(hits') = Cardinality(Files(hits')) =>
        Len(answer') + Len(hits') = Cardinality(Files(hits'))
  <2>1. IsFiniteSet(Refs)
    BY FiniteRefs
  <2>2. hits' \in Seq(Refs)
    BY <2>1, FoundFacts
  <2>3. Len(hits') \in Nat
    BY <2>2
  <2> QED
    BY <1>4, <2>3
<1> QED
  BY <1>3, <1>4, <1>5, <1>6, <1>7 DEF Gathered

LEMMA StatementMembers ==
  ASSUME TypeInv, Flow, PastInv, TruthInv, NamesDiffer, IdsInv, MembersInv, Statement, quiet,
         ask.op \in {"list", "glob", "files", "ls"}
  PROVE  MembersInv'
<1>1. UNCHANGED <<index, ask>> /\ pc # "idle" /\ Running
  BY StatementReads DEF Running
<1>2. ask.op \notin Search \cup Lookups \cup {"check", "status"} /\ ask \in Asks
  BY <1>1 DEF Search, Lookups, Flow
<1>3. /\ pc \in {"ids", "refs", "length", "body", "global", "context", "files"}
      /\ pc \in {"refs", "length", "body", "global", "context"} => ask.op # "ls"
      /\ pc = "files" => ask.op = "ls"
  BY <1>1, <1>2, WhoseStatement DEF Flow, Route, Running, Ended
<1>4. Wanted = IF ask.op = "ls" THEN {ask.coll} ELSE {}
  BY <1>1, <1>2, FS_EmptySet DEF Flow, Wanted
<1>5. UNCHANGED quiet /\ Active' = Active /\ Active \subseteq File
  BY StatementReads DEF Active
<1>6. CASE pc = "ids"
  <2>1. /\ ids' = {c \in Live : Wanted = {} \/ name[c] \in Wanted} /\ UNCHANGED <<hits, answer>>
        /\ pc' \in {"refs", "files", "missing"} \/ (pc' = "done" /\ ids' = {} /\ ask.op # "ls")
    BY <1>2, <1>6, StatementAt DEF ResolveIds, Goto
  <2>2. hits = <<>> /\ answer = <<>>
    BY <1>2, <1>6 DEF Flow
  <2>3. CASE pc' = "done"
    <3>1. Live = {}
      BY <1>4, <2>1, <2>3
    <3>2. Active = {}
      BY <3>1, FileType DEF Active, Live, TypeInv, RowsType
    <3>3. InHand' = {} /\ Len(answer') = 0 /\ Len(hits') = 0
      BY <2>1, <2>2 DEF InHand, Files, ToSet
    <3>4. Cardinality(InHand') = 0
      BY <3>3, FS_EmptySet
    <3>5. Gathered'
      BY <1>5, <3>2, <3>3, <3>4 DEF Gathered
    <3> QED
      BY <1>1, <2>1, <2>3, <3>5 DEF MembersInv
  <2> QED
    BY <2>1, <2>3 DEF MembersInv
<1>7. CASE pc = "refs"
  <2>1. hits' \in Found(Refs) /\ UNCHANGED answer
    BY <1>7, StatementAt DEF ActiveDocumentRefs
  <2>2. ids = Live /\ answer = <<>> /\ ask.op # "ls"
    BY <1>2, <1>3, <1>4, <1>7 DEF IdsInv, Resolved, Flow
  <2>3. Gathered'
    BY <1>1, <1>2, <2>1, <2>2, GatheredAtFirst
  <2> QED
    BY <1>1, <2>2, <2>3 DEF MembersInv
<1>8. CASE pc \in {"length", "body", "global", "context"}
  <2>1. Gathered /\ ask.op # "ls"
    BY <1>3, <1>8 DEF MembersInv
  <2>2. Gathered'
    BY <1>1, <1>2, <1>8, <2>1, HandKept, GatheredKept
  <2> QED
    BY <1>1, <2>1, <2>2 DEF MembersInv
<1>9. CASE pc = "files"
  <2> DEFINE S == {g \in ShownRows(doc) : CollOf(g) \in ids /\ Covers(ask.prefix, PathOf(g))}
             H == {Hit(f, ask.coll) : f \in S}
  <2>1. answer' \in Enumerations(H)
    BY <1>9, StatementAt DEF ListFiles
  <2>2. S = {f \in Active : name[CollOf(f)] = ask.coll /\ Covers(ask.prefix, PathOf(f))}
    <3>1. ids = {c \in Live : name[c] = ask.coll}
      BY <1>3, <1>4, <1>9 DEF IdsInv, Resolved
    <3>2. \A f \in Active : CollOf(f) \in Live
      BY FileType DEF Active, Live, TypeInv, RowsType
    <3> QED
      BY <3>1, <3>2 DEF ShownRows, Active
  <2>3. IsFiniteSet(S)
    BY <2>2, FiniteRows, FS_Subset
  <2>4. \A f : Hit(f, ask.coll).file = f
    BY DEF Hit
  <2> HIDE DEF S
  <2>5. IsFiniteSet(H)
    <3> DEFINE F == [f \in S |-> Hit(f, ask.coll)]
    <3>1. F \in Surjection(S, H)
      BY DEF Surjection
    <3> QED
      BY <2>3, <3>1, FS_Surjection
  <2>6. ToSet(answer') = H
    <3> HIDE DEF H
    <3> QED
      BY <2>1, <2>5, EnumerationFacts
  <2>7. Files(answer') = S
    BY <2>4, <2>6 DEF Files
  <2>8. /\ UNCHANGED <<doc, name, ask>> /\ Files(answer)' = Files(answer') /\ ask.op = "ls"
    BY <1>1, <1>3, <1>9 DEF index, Files
  <2>9. \A f : (name[CollOf(f)] = ask.coll /\ Covers(ask.prefix, PathOf(f)))'
               = (name[CollOf(f)] = ask.coll /\ Covers(ask.prefix, PathOf(f)))
    BY <2>8 DEF Covers
  <2>10. Gathered'
    BY <2>8 DEF Gathered
  <2> QED
    BY <1>5, <2>2, <2>7, <2>8, <2>9, <2>10 DEF MembersInv
<1> QED
  BY <1>3, <1>6, <1>7, <1>8, <1>9

LEMMA NextBatch ==
  ASSUME TypeInv, Flow, PastInv, TruthInv, NamesDiffer, IdsInv, BodiesInv, MembersInv,
         [Next]_vars
  PROVE  BodiesInv' /\ MembersInv'
<1>1. ASSUME NEW a \in Asks, Ask(a)
      PROVE  BodiesInv' /\ MembersInv'
  <2>1. /\ UNCHANGED <<hits, answer>> /\ pc' \in {"scope", "collections", "ids"} /\ pc = "idle"
    BY <1>1 DEF Ask, Goto, Search
  <2>2. hits' = <<>> /\ answer' = <<>>
    BY <2>1 DEF Flow
  <2>3. ToSet(hits') = {} /\ ToSet(answer') = {}
    BY <2>2 DEF ToSet
  <2> QED
    BY <2>1, <2>3 DEF BodiesInv, MembersInv
<1>2. CASE Leave
  BY <1>2 DEF Leave, Goto, BodiesInv, MembersInv
<1>3. CASE UNCHANGED vars
  <2>1. UNCHANGED <<pc, hits, answer, quiet>> /\ UNCHANGED <<index, ask>>
    BY <1>3 DEF vars, reader
  <2>2. InHand' = InHand /\ Files(answer)' = Files(answer) /\ Active' = Active
    BY <2>1 DEF InHand, Files, Active, index
  <2>3. Gathered => Gathered'
    BY <2>1, <2>2, GatheredKept
  <2>4. UNCHANGED name
    BY <2>1 DEF index
  <2> QED
    BY <2>1, <2>2, <2>3, <2>4 DEF BodiesInv, MembersInv
<1>4. CASE Write
  BY <1>4, QuietEnds DEF reader, BodiesInv, MembersInv
<1>5. CASE Statement
  <2>1. UNCHANGED <<ask, quiet>> /\ pc # "idle" /\ Running
    BY <1>5, StatementReads DEF Running
  <2>2. CASE quiet /\ ask.op \in {"list", "glob", "files", "ls"}
    BY <1>5, <2>2, StatementBodies, StatementMembers
  <2>3. CASE ~(quiet /\ ask.op \in {"list", "glob", "files", "ls"})
    BY <1>5, <2>1, <2>3, StatementBodies DEF MembersInv, Gathered
  <2> QED
    BY <2>2, <2>3
<1> QED
  BY <1>1, <1>2, <1>3, <1>4, <1>5 DEF Next

\* A batch nothing interferes with has every document that matched, once, with
\* exactly the bodies that are not too large, and a listing every document
\* below its path.
THEOREM ReadersFetchExact == Spec => []FetchExact
<1>1. Init => BodiesInv /\ MembersInv
  BY DEF Init, BodiesInv, MembersInv
<1>2. QuietInv /\ BodiesInv /\ MembersInv /\ [Next]_vars => BodiesInv' /\ MembersInv'
  BY NextBatch DEF QuietInv, BesideInv
<1>3. QuietInv /\ BodiesInv /\ MembersInv => FetchExact
  <2> SUFFICES ASSUME QuietInv, BodiesInv, MembersInv, Undisturbed PROVE FetchExact
    BY DEF FetchExact
  <2>1. /\ quiet /\ pc \in {"done", "missing"} /\ pc \in Route(ask.op) /\ hits = <<>>
    BY DEF Undisturbed, QuietInv, BesideInv, Flow
  <2>2. pc = "missing" => ask.op \in Lookups \cup {"ls"}
    BY <2>1 DEF Route, Search, Lookups
  <2>3. ask.op \in {"glob", "files", "list"} => Gathered
    BY <2>1, <2>2 DEF MembersInv, Lookups
  <2>4. InHand = Files(answer) /\ Len(hits) = 0
    BY <2>1 DEF InHand, Files, ToSet
  <2>5. ask.op \in {"glob", "files"} =>
          /\ Files(answer) = {f \in Active : Matches(Hit(f, name[CollOf(f)]), ask.pattern)}
          /\ Len(answer) = Cardinality(Files(answer))
    <3>1. ask.op \in {"glob", "files"} => Len(answer) \in Nat
      BY <2>1 DEF QuietInv, BesideInv, TruthInv
    <3> QED
      BY <2>3, <2>4, <3>1 DEF Gathered, Ref
  <2>6. ask.op = "list" => \A i \in 1..Len(ask.items) : \A f \in Active :
          ask.items[i].virtual /\ ask.items[i].path = Shown(f) => f \in Files(answer)
    BY <2>3, <2>4 DEF Gathered
  <2>7. ask.op \in Batch => \A h \in ToSet(answer) : h.body = (h.hash \notin Huge)
    BY <2>1 DEF BodiesInv
  <2> QED
    BY <2>1, <2>5, <2>6, <2>7 DEF FetchExact, MembersInv
<1> QED
  BY <1>1, <1>2, <1>3, QuietInvHolds, PTL DEF Spec

-----------------------------------------------------------------------------
(* Searches: what the database ranked, and what is left of it.             *)

\* A row that is not in hand did not fit, is not in scope, or scores too low.
RankedInv ==
  quiet /\ pc # "idle" /\ ask.op \in Search =>
    /\ pc = "embed" => ask.op = "vsearch"
    /\ pc \in {"rows", "labels", "global", "context"} /\ ask.op = "vsearch" => embedded # None
    /\ pc \in {"labels", "global", "context", "done"} =>
         \/ ask.op = "vsearch" /\ embedded = None /\ answer = <<>>
         \/ /\ ask.op = "vsearch" => embedded # None
            /\ InHand \subseteq Rows(ask.op)
            /\ \A f \in Rows(ask.op) \ InHand :
                 \/ Cardinality(Rows(ask.op)) > Fetch
                 \/ pc = "done" /\ \/ Len(answer) = Limit \/ name[CollOf(f)] \notin scope
                                    \/ ~(Score(ask.op, f) >= ask.min)
    /\ pc \in {"labels", "global", "context", "done"} =>
         \A h \in ToSet(answer) \cup ToSet(hits) : h.score = Score(ask.op, h.file)
    /\ pc \in {"global", "context", "done"} =>
         \A h \in ToSet(answer) \cup ToSet(hits) : h.name = name[CollOf(h.file)]
    /\ pc = "done" => \A h \in ToSet(answer) : h.score >= ask.min

LEMMA RowsKept ==
  ASSUME UNCHANGED <<index, ask, ids>>
  PROVE  /\ Rows(ask.op)' = Rows(ask.op) /\ Rows(ask.op) \subseteq Active
         /\ \A f : Score(ask.op, f)' = Score(ask.op, f)
<1>1. ShownRows(doc)' = ShownRows(doc) /\ Pool' = Pool
  BY DEF index, ShownRows, Pool
<1>2. \A f : HasWord(f)' = HasWord(f) /\ Near(f)' = Near(f)
  BY <1>1 DEF HasWord, Near, index
<1>3. Rows(ask.op)' = {f \in ShownRows(doc) : /\ CollOf(f) \in ids
                                            /\ IF ask.op = "search" THEN HasWord(f)' ELSE Near(f)'}
  BY <1>1 DEF Rows
<1>4. \A f : Score(ask.op, f)' = Score(ask.op, f)
  BY DEF Score, Distance, index
<1> QED
  BY <1>2, <1>3, <1>4 DEF Rows, ShownRows, Active

\* The best of the rows are taken: the others only if there are too many.
LEMMA RankedAtFirst ==
  ASSUME TypeInv, Flow, RankedInv, SelectRows, quiet
  PROVE  RankedInv'
<1> DEFINE R == Rows(ask.op)
<1>1. /\ pc = "rows" /\ UNCHANGED <<index, ask, quiet, scope, ids, answer>>
  BY DEF SelectRows, At
<1>2. ask.op \in Search /\ answer = <<>>
  BY <1>1, WhoseStatement DEF Flow, Search
<1>3. Rows(ask.op)' = R /\ \A f : Score(ask.op, f)' = Score(ask.op, f)
  BY <1>1, RowsKept
<1>4. PICK s \in Ranked(ask.op, R) :
           /\ s \in Seq(R) /\ ToSet(s) = R /\ R \subseteq Active
           /\ Len(s) = Cardinality(R) /\ s \in Bijection(1..Len(s), R)
           /\ DOMAIN hits' = 1..Len(Cut(s, Fetch)) /\ Len(hits') = Len(Cut(s, Fetch))
           /\ hits' \in Seq({Candidate(f) : f \in R})
           /\ \A i \in 1..Len(Cut(s, Fetch)) : hits'[i] = Candidate(s[i]) /\ s[i] \in R
           /\ IF hits' = <<>> THEN pc' = "done" ELSE pc' = "labels"
  BY RowsFacts
<1> DEFINE n == Len(Cut(s, Fetch))
<1>5. Fetch \in Nat /\ Len(s) \in Nat /\ n = IF Len(s) < Fetch THEN Len(s) ELSE Fetch
  <2>1. Fetch \in Nat
    BY ReadersAssumption
  <2>2. s \in Seq(R)
    BY <1>4
  <2> HIDE DEF R
  <2> QED
    BY <2>1, <2>2, CutFacts
<1>6. \A i \in 1..n : hits'[i].file = s[i] /\ hits'[i].score = Score(ask.op, s[i])
  <2>1. \A f : Candidate(f).file = f /\ Candidate(f).score = Score(ask.op, f)
    BY DEF Hit, Candidate
  <2> QED
    BY <1>4, <2>1
<1> HIDE DEF R, n
<1>7. Files(hits') = {s[i] : i \in 1..n}
  <2>1. ToSet(hits') = {hits'[i] : i \in 1..n}
    BY <1>4 DEF ToSet, n
  <2> QED
    BY <1>6, <2>1 DEF Files
<1>13. \A h \in ToSet(hits') : h.score = Score(ask.op, h.file)
  BY <1>4, <1>6 DEF ToSet, n
<1>8. InHand' = Files(hits') /\ ToSet(answer') = {}
  BY <1>1, <1>2 DEF InHand, Files, ToSet
<1>9. InHand' \subseteq R
  BY <1>4, <1>7, <1>8 DEF n
<1>10. \A f \in R \ InHand' : Cardinality(R) > Fetch
  <2> SUFFICES ASSUME NEW f \in R \ InHand' PROVE Cardinality(R) > Fetch
    OBVIOUS
  <2>1. PICK i \in 1..Len(s) : s[i] = f
    BY <1>4, ToSetOfSeq
  <2>2. i \notin 1..n
    BY <1>7, <1>8, <2>1
  <2> QED
    BY <1>4, <1>5, <2>1, <2>2
<1>11. pc' = "labels" \/ (pc' = "done" /\ ToSet(hits') = {} /\ ToSet(answer') = {})
  BY <1>1, <1>2, <1>4 DEF ToSet
<1>12. ask.op = "vsearch" => embedded # None
  BY <1>1, <1>2 DEF RankedInv
<1> QED
  BY <1>1, <1>2, <1>3, <1>8, <1>9, <1>10, <1>11, <1>12, <1>13 DEF RankedInv, R, index

\* The first statement after the rows puts names to them.
LEMMA RankedLabelled ==
  ASSUME TypeInv, Flow, TruthInv, RankedInv, CollectionNamesById, quiet
  PROVE  RankedInv'
<1>1. pc = "labels" /\ UNCHANGED <<index, ask, quiet, scope, ids, answer>>
  BY DEF CollectionNamesById, At, Goto, Raise
<1>2. ask.op \in Search /\ answer = <<>>
  BY <1>1, WhoseStatement DEF Flow, Search
<1>3. CASE pc' = "failed"
  BY <1>3 DEF RankedInv
<1>4. CASE pc' # "failed"
  <2>1. /\ hits' = [i \in DOMAIN hits |-> [hits[i] EXCEPT !.name = name[CollOf(hits[i].file)]]]
        /\ pc' = "global"
    BY <1>4 DEF CollectionNamesById, Goto, Raise
  <2>2. hits \in Seq(TrueHit)
    BY <1>1 DEF TruthInv
  <2>3. \A i \in DOMAIN hits : hits[i] \in HitType
    BY <2>2 DEF TrueHit
  <2>4. \A h \in HitType : \A n : /\ [h EXCEPT !.name = n].file = h.file
                                 /\ [h EXCEPT !.name = n].name = n
                                 /\ [h EXCEPT !.name = n].score = h.score
    BY DEF HitType
  <2>5. DOMAIN hits' = DOMAIN hits
    BY <2>1
  <2>6. ASSUME NEW i \in DOMAIN hits
        PROVE  /\ hits'[i].file = hits[i].file /\ hits'[i].name = name[CollOf(hits[i].file)]
               /\ hits'[i].score = hits[i].score
    BY <2>1, <2>3, <2>4
  <2>7. Files(hits') = Files(hits)
    BY <2>5, <2>6 DEF Files, ToSet
  <2>8. \A h \in ToSet(hits') : h.name = name[CollOf(h.file)]
    BY <2>5, <2>6 DEF ToSet
  <2>9. InHand' = InHand
    BY <1>1, <2>7 DEF InHand, Files
  <2>11. \A h \in ToSet(hits) : h.score = Score(ask.op, h.file)
    BY <1>1, <1>2 DEF RankedInv
  <2>12. \A h \in ToSet(hits') : h.score = Score(ask.op, h.file)
    BY <2>5, <2>6, <2>11 DEF ToSet
  <2>10. /\ Rows(ask.op)' = Rows(ask.op) /\ ToSet(answer') = {}
         /\ \A f : Score(ask.op, f)' = Score(ask.op, f)
    BY <1>1, <1>2, RowsKept DEF ToSet
  <2> QED
    BY <1>1, <1>2, <2>1, <2>8, <2>9, <2>10, <2>12 DEF RankedInv, index
<1> QED
  BY <1>3, <1>4

\* A hit carries the name its collection has, and the score it was ranked by.
Told(h) == h.name = name[CollOf(h.file)] /\ h.score = Score(ask.op, h.file)

LEMMA RankedPassed ==
  ASSUME TypeInv, Flow, PastInv, TruthInv, RankedInv, Statement, quiet, ask.op \in Search,
         pc \in {"global", "context"}
  PROVE  RankedInv'
<1> DEFINE R == Rows(ask.op)
<1>1. UNCHANGED <<index, ask, quiet>> /\ ask.op \notin {"check", "status"}
  BY StatementReads DEF Search
<1>2. hits \in Seq(NamedHit) \ {<<>>} /\ answer \in Seq(NamedHit)
  BY <1>1 DEF TruthInv
<1>3. pc' \notin {"failed", "embed"}
  BY StatementAt DEF GlobalContext, GetContextForPath, Improve, Finish, Goto
<1>4. PICK h \in NamedHit :
         /\ h.file = Head(hits).file /\ h.hash = Head(hits).hash /\ h.name = Head(hits).name
         /\ h.score = Head(hits).score
         /\ Improve(h, pc') \/ \E again \in {"global", "length"} : Finish(h, again)
  BY <1>3, HitPassed
<1>5. UNCHANGED <<scope, ids>>
  BY <1>4 DEF Improve, Finish
<1>6. /\ Rows(ask.op)' = R /\ name' = name /\ embedded' = embedded
      /\ \A f : Score(ask.op, f)' = Score(ask.op, f)
  BY <1>1, <1>5, RowsKept DEF index
<1>7. /\ ask.op = "vsearch" => embedded # None
      /\ InHand \subseteq R
      /\ \A f \in R \ InHand : Cardinality(R) > Fetch
      /\ \A g \in ToSet(answer) \cup ToSet(hits) : Told(g)
  BY DEF RankedInv, Told
<1>8. Told(h)
  <2>1. Head(hits) \in ToSet(hits)
    BY <1>2, TailFacts
  <2> QED
    BY <1>4, <1>7, <2>1 DEF Told
<1>9. ToSet(Tail(hits)) \subseteq ToSet(hits)
  BY <1>2, TailFacts
<1>10. Files(answer)' = Files(answer') /\ Files(hits)' = Files(hits')
  BY DEF Files
<1> HIDE DEF R
<1>11. CASE Improve(h, pc')
  <2>1. /\ hits' = <<h>> \o Tail(hits) /\ answer' = answer
        /\ ToSet(hits') = {h} \cup ToSet(Tail(hits))
    BY <1>2, <1>11, ImproveFacts DEF Improve
  <2>2. InHand' = InHand
    BY <1>2, <1>4, <1>10, <2>1, FilesImproved DEF InHand
  <2>3. \A g \in ToSet(answer') \cup ToSet(hits') : Told(g)
    BY <1>7, <1>8, <1>9, <2>1
  <2>4. pc' # "done"
    BY <1>11, StatementAt DEF GlobalContext, GetContextForPath, Improve, Finish, Goto, Search, Batch
  <2> QED
    BY <1>1, <1>3, <1>6, <1>7, <2>2, <2>3, <2>1, <2>4 DEF RankedInv, R, Told
<1>12. ASSUME NEW again \in {"global", "length"}, Finish(h, again)
       PROVE  RankedInv'
  <2> DEFINE s == Append(answer, h)
  <2>1. /\ hits' = Tail(hits)
        /\ IF hits' = <<>> THEN pc' = "done" /\ answer' \in Kept(s)
           ELSE pc' = again /\ answer' = s
    BY <1>2, <1>12, FinishFacts
  <2>2. s \in Seq(NamedHit) /\ ToSet(s) = ToSet(answer) \cup {h}
    BY <1>2, AppendFacts
  <2>3. Files(s) \cup Files(hits') = InHand
    BY <1>2, <1>4, <2>1, FilesFinished DEF InHand
  <2>4. \A g \in ToSet(s) \cup ToSet(hits') : Told(g)
    BY <1>7, <1>8, <1>9, <2>1, <2>2
  <2> HIDE DEF s
  <2>5. CASE hits' # <<>>
    <3>1. InHand' = InHand
      BY <1>10, <2>1, <2>3, <2>5 DEF InHand
    <3> QED
      BY <1>1, <1>3, <1>6, <1>7, <2>1, <2>4, <2>5, <3>1 DEF RankedInv, R, Told
  <2>6. CASE hits' = <<>>
    <3>1. Files(hits') = {} /\ ToSet(hits') = {}
      BY <2>6 DEF Files, ToSet
    <3>2. /\ ToSet(answer') \subseteq ToSet(s)
          /\ \A g \in ToSet(answer') : Passes(g)
          /\ \A g \in ToSet(s) : Passes(g) => g \in ToSet(answer') \/ Len(answer') = Limit
      BY <2>1, <2>2, <2>6, KeptFacts
    <3>3. InHand' \subseteq InHand
      BY <1>10, <2>3, <3>1, <3>2 DEF InHand, Files
    <3>4. ASSUME NEW f \in R \ InHand'
          PROVE  \/ Cardinality(R) > Fetch \/ Len(answer') = Limit
                 \/ name[CollOf(f)] \notin scope \/ ~(Score(ask.op, f) >= ask.min)
      <4>1. CASE f \in InHand
        <5>1. PICK g \in ToSet(s) : g.file = f
          BY <2>3, <3>1, <4>1 DEF Files
        <5>2. g \notin ToSet(answer')
          BY <1>10, <3>4, <5>1 DEF InHand, Files
        <5> QED
          BY <2>4, <3>2, <5>1, <5>2 DEF Passes, InScope, Told
      <4>2. CASE f \notin InHand
        BY <1>7, <4>2
      <4> QED
        BY <4>1, <4>2
    <3>5. \A g \in ToSet(answer') \cup ToSet(hits') : Told(g)
      BY <2>4, <3>1, <3>2
    <3>6. pc' = "done"
      BY <2>1, <2>6
    <3>7. \A g \in ToSet(answer') : g.score >= ask.min
      BY <3>2 DEF Passes
    <3> QED
      BY <1>1, <1>5, <1>6, <1>7, <3>3, <3>4, <3>5, <3>6, <3>7 DEF RankedInv, R, Told
  <2> QED
    BY <2>5, <2>6
<1> QED
  BY <1>4, <1>11, <1>12

LEMMA StatementRanked ==
  ASSUME TypeInv, Flow, PastInv, TruthInv, RankedInv, Statement, quiet, ask.op \in Search
  PROVE  RankedInv'
<1>1. UNCHANGED <<index, ask, quiet>> /\ pc # "idle" /\ Running
  BY StatementReads DEF Running
<1>2. pc \in {"scope", "ids", "embed", "rows", "labels", "global", "context"}
  <2>1. pc \in Route(ask.op)
    BY <1>1 DEF Flow
  <2> QED
    BY <1>1, <2>1 DEF Route, Running, Ended, Search, Lookups
<1>3. CASE pc = "scope"
  BY <1>3, StatementAt DEF ResolveScope, Goto, RankedInv
<1>4. CASE pc = "ids"
  <2>1. /\ UNCHANGED <<hits, answer>> /\ hits = <<>> /\ answer = <<>>
        /\ pc' \in {"rows", "embed"} \/ (pc' = "done" /\ ids' = {})
        /\ pc' = "rows" => ask.op # "vsearch"
        /\ pc' = "embed" => ask.op = "vsearch"
    BY <1>4, StatementAt DEF ResolveIds, Goto, Flow, Search, Lookups
  <2>2. ids' = {} => Rows(ask.op)' = {}
    BY DEF Rows
  <2>3. InHand' = {} /\ ToSet(answer') = {} /\ ToSet(hits') = {}
    BY <2>1 DEF InHand, Files, ToSet
  <2> QED
    BY <1>1, <2>1, <2>2, <2>3 DEF RankedInv
<1>5. CASE pc = "embed"
  <2>1. /\ UNCHANGED <<hits, answer>> /\ hits = <<>> /\ answer = <<>> /\ ask.op = "vsearch"
        /\ pc' = "refused" \/ (pc' = "rows" /\ embedded # None) \/ (pc' = "done" /\ embedded = None)
    BY <1>5, StatementAt DEF EmbedQuery, Goto, Flow, RankedInv
  <2>2. ToSet(answer') = {} /\ ToSet(hits') = {}
    BY <2>1 DEF ToSet
  <2> QED
    BY <1>1, <2>1, <2>2 DEF RankedInv, index
<1>6. CASE pc = "rows"
  BY <1>6, StatementAt, RankedAtFirst
<1>7. CASE pc = "labels"
  BY <1>7, StatementAt, RankedLabelled
<1>8. CASE pc \in {"global", "context"}
  BY <1>8, RankedPassed
<1> QED
  BY <1>2, <1>3, <1>4, <1>5, <1>6, <1>7, <1>8

LEMMA NextRanked ==
  ASSUME TypeInv, Flow, PastInv, TruthInv, RankedInv, [Next]_vars
  PROVE  RankedInv'
<1>1. ASSUME NEW a \in Asks, Ask(a)
      PROVE  RankedInv'
  BY <1>1 DEF Ask, Goto, RankedInv, Search
<1>2. CASE Leave
  BY <1>2 DEF Leave, Goto, RankedInv
<1>3. CASE UNCHANGED vars
  <2>1. UNCHANGED <<pc, hits, answer, quiet, scope>> /\ UNCHANGED <<index, ask, ids>>
    BY <1>3 DEF vars, reader
  <2>2. /\ InHand' = InHand /\ Rows(ask.op)' = Rows(ask.op)
        /\ \A f : Score(ask.op, f)' = Score(ask.op, f)
    BY <2>1, RowsKept DEF InHand, Files
  <2> QED
    BY <2>1, <2>2 DEF RankedInv, index
<1>4. CASE Write
  BY <1>4, QuietEnds DEF reader, RankedInv
<1>5. CASE Statement
  BY <1>5, StatementReads, StatementRanked DEF RankedInv
<1> QED
  BY <1>1, <1>2, <1>3, <1>4, <1>5 DEF Next

\* A document no chunk of which is near has as many chunks of others before it.
LEMMA NotNear ==
  ASSUME TypeInv, NEW f \in Active, embedded # None, doc[f].hash \in embedded, ~Near(f)
  PROVE  3 * Fetch <= Cardinality({i \in 1..Distance(f) - 1 : Chunks[i] \in embedded})
<1> DEFINE T == {i \in DOMAIN Chunks : Chunks[i] = doc[f].hash}
           d == Distance(f)
           B == {j \in 1..d - 1 : Chunks[j] \in embedded}
<1>1. Fetch \in Nat /\ doc[f].hash \in Hash /\ Chunks \in Seq(Hash) /\ Hash \subseteq ToSet(Chunks)
  BY ReadersAssumption DEF Active, TypeInv, RowsType
<1>2. T # {} /\ T \in SUBSET Nat
  BY <1>1 DEF ToSet
<1>3. d \in T
  BY <1>2, LeastOf DEF Distance
<1>4. d \in DOMAIN Chunks /\ Chunks[d] = doc[f].hash /\ d \in Nat
  BY <1>1, <1>3
<1>5. ~(Cardinality(B) < 3 * Fetch)
  BY <1>4 DEF Near, Pool
<1>6. Cardinality(B) \in Nat
  <2>1. IsFiniteSet(1..d - 1)
    BY <1>4, FS_Interval
  <2>2. IsFiniteSet(B)
    BY <2>1, FS_Subset
  <2> QED
    BY <2>2, FS_CardinalityType
<1> HIDE DEF B
<1>7. 3 * Fetch <= Cardinality(B)
  BY <1>1, <1>5, <1>6
<1> QED
  BY <1>7 DEF B

\* What the invariant says of an answer that is complete.
LEMMA RankedExact ==
  ASSUME TypeInv, Flow, TruthInv, IdsInv, NamesDiffer, RankedInv
  PROVE  SearchExact
<1> SUFFICES ASSUME Undisturbed, ask.op \in Search PROVE SearchExact
  BY DEF SearchExact
<1> DEFINE all == {f \in Active : IF ask.op = "search" THEN HasWord(f)
                                  ELSE embedded # None /\ doc[f].hash \in embedded}
           mine == {f \in all : name[CollOf(f)] \in scope}
           good == {f \in mine : Score(ask.op, f) >= ask.min}
           cut == IF Cardinality(scope) = 1 THEN mine ELSE all
           R == Rows(ask.op)
           Missed(f) == \/ Len(answer) = Limit \/ Cardinality(cut) > Fetch
                        \/ ask.op = "vsearch" /\ 3 * Fetch <=
                             Cardinality({i \in 1..Distance(f) - 1 : Chunks[i] \in embedded})
<1>1. pc = "done" /\ quiet
  <2>1. pc # "idle" /\ pc \in {"done", "missing"} /\ quiet
    BY DEF Undisturbed
  <2>2. pc \in Route(ask.op)
    BY <2>1 DEF Flow
  <2> QED
    BY <2>1, <2>2 DEF Route, Search, Lookups
<1>2. SUFFICES Files(answer) \subseteq good /\ \A f \in good \ Files(answer) : Missed(f)
  BY DEF SearchExact
<1>3. InHand = Files(answer)
  BY <1>1 DEF Flow, InHand, Files, ToSet
<1>4. CASE ask.op = "vsearch" /\ embedded = None /\ answer = <<>>
  BY <1>4 DEF Files, ToSet
<1>5. CASE /\ ask.op = "vsearch" => embedded # None
           /\ InHand \subseteq R
           /\ \A f \in R \ InHand : \/ Cardinality(R) > Fetch \/ Len(answer) = Limit
                                    \/ name[CollOf(f)] \notin scope
                                    \/ ~(Score(ask.op, f) >= ask.min)
  <2>1. R \subseteq all
    <3>1. \A f \in R : ask.op = "vsearch" => doc[f].hash \in embedded
      BY DEF Rows, Near, Pool, Search
    <3> QED
      BY <1>5, <3>1 DEF Rows, ShownRows, Active, Search
  <2>2. ids = {c \in Live : Wanted = {} \/ name[c] \in Wanted}
    BY <1>1 DEF IdsInv, Resolved, Search
  <2>3. Wanted = IF Cardinality(scope) = 1 THEN scope ELSE {}
    BY DEF Wanted, Search
  <2>4. Cardinality(scope) = 1 => scope # {}
    BY FS_EmptySet
  <2>5. \A f \in R : CollOf(f) \in ids
    BY DEF Rows
  <2>6. Cardinality(scope) = 1 => R \subseteq mine
    BY <2>1, <2>2, <2>3, <2>4, <2>5
  <2>7. Files(answer) \subseteq good
    <3> SUFFICES ASSUME NEW h \in ToSet(answer) PROVE h.file \in good
      BY DEF Files
    <3>1. h.file \in R
      BY <1>3, <1>5 DEF Files
    <3>2. Cardinality(scope) = 1 \/ h.name \in scope
      BY <1>1 DEF TruthInv
    <3>3. /\ h.name = name[CollOf(h.file)]
          /\ h.score = Score(ask.op, h.file) /\ h.score >= ask.min
      BY <1>1 DEF RankedInv
    <3> HIDE DEF R, all
    <3>4. h.file \in mine
      BY <2>1, <2>6, <3>1, <3>2, <3>3
    <3> QED
      BY <3>3, <3>4
  <2>8. ASSUME NEW f \in good \ Files(answer)
        PROVE  Missed(f)
    <3>1. CASE f \in R
      <4>1. Cardinality(R) > Fetch \/ Len(answer) = Limit
        BY <1>3, <1>5, <2>8, <3>1
      <4>2. R \subseteq cut /\ IsFiniteSet(cut)
        <5>1. IsFiniteSet(File) /\ cut \subseteq File
          BY ReadersAssumption DEF Active
        <5> HIDE DEF cut
        <5>2. IsFiniteSet(cut)
          BY <5>1, FS_Subset
        <5> QED
          BY <2>1, <2>6, <5>2 DEF cut
      <4> HIDE DEF R, cut
      <4>3. /\ Cardinality(R) \in Nat /\ Cardinality(cut) \in Nat
            /\ Cardinality(R) <= Cardinality(cut)
        BY <4>2, FS_Subset, FS_CardinalityType
      <4>4. Fetch \in Nat
        BY ReadersAssumption
      <4> QED
        BY <4>1, <4>3, <4>4
    <3>2. CASE f \notin R
      <4>1. f \in Active /\ CollOf(f) \in Live
        BY <2>8, FileType DEF TypeInv, RowsType, Active, Live
      <4>2. CollOf(f) \in ids
        BY <2>2, <2>3, <2>8, <4>1
      <4>3. ask.op = "vsearch" /\ ~Near(f) /\ embedded # None /\ doc[f].hash \in embedded
        BY <2>8, <3>2, <4>1, <4>2 DEF Rows, ShownRows, Active, Search
      <4> QED
        BY <4>1, <4>3, NotNear
    <3> QED
      BY <3>1, <3>2
  <2> QED
    BY <2>7, <2>8
<1> QED
  BY <1>1, <1>4, <1>5 DEF RankedInv

\* A search nothing interferes with shows only active documents in scope
\* that match and score what was asked for, and misses one of these only for
\* the reasons SearchExact gives
\* (cli/commands/read.py, search/vector.py: search_vec).
THEOREM ReadersSearchExact == Spec => []SearchExact
<1>1. Init => RankedInv
  BY DEF Init, RankedInv, Search
<1>2. QuietInv /\ RankedInv /\ [Next]_vars => RankedInv'
  BY NextRanked DEF QuietInv, BesideInv
<1>3. QuietInv /\ RankedInv => SearchExact
  BY RankedExact DEF QuietInv, BesideInv
<1>4. Spec => []QuietInv
  BY QuietInvHolds
<1> QED
  BY <1>1, <1>2, <1>3, <1>4, PTL DEF Spec

-----------------------------------------------------------------------------
(* `context check`: each document is behind it, reported, or still ahead.  *)

Listing == [coll : Coll, name : Segment, prefixes : SUBSET Prefix]
Gap == [coll : Coll, all : BOOLEAN, dirs : SUBSET Segment]
PrefixesOf(c) == {p \in Prefix : <<c, p>> \in ctx}
Covered(f) == Len(PathOf(f)) = 1 \/ Inheriting(f) # {}
Reports(r, f) == r.coll = CollOf(f) /\ (r.all \/ PathOf(f)[1] \in r.dirs)
CheckInv ==
  quiet /\ pc # "idle" /\ ask.op = "check" =>
    /\ pc = "collections" => answer = <<>>
    /\ pc \in {"prefixes", "paths"} => hits \in Seq(Listing) \ {<<>>}
    /\ pc = "paths" => Head(hits).prefixes = PrefixesOf(Head(hits).coll)
    /\ pc \in {"prefixes", "paths", "done"} =>
         /\ answer \in Seq(Gap)
         /\ \A f \in Active :
              \/ Covered(f) \/ \E r \in ToSet(answer) : Reports(r, f)
              \/ \E h \in ToSet(hits) : h.coll = CollOf(f)

LEMMA ConcatFacts ==
  ASSUME NEW S, NEW s \in Seq(S), NEW t \in Seq(S)
  PROVE  s \o t \in Seq(S) /\ ToSet(s \o t) = ToSet(s) \cup ToSet(t)
<1>1. /\ s \o t \in Seq(S) /\ Len(s \o t) = Len(s) + Len(t)
      /\ \A i \in 1..Len(s) + Len(t) : (s \o t)[i] = IF i <= Len(s) THEN s[i] ELSE t[i - Len(s)]
  BY ConcatProperties
<1>2. /\ ToSet(s) = {s[i] : i \in 1..Len(s)} /\ ToSet(t) = {t[i] : i \in 1..Len(t)}
      /\ ToSet(s \o t) = {(s \o t)[i] : i \in 1..Len(s) + Len(t)}
      /\ Len(s) \in Nat /\ Len(t) \in Nat
  BY <1>1, ToSetOfSeq
<1>3. \A i \in 1..Len(s) : i \in 1..Len(s) + Len(t) /\ (s \o t)[i] = s[i]
  BY <1>1, <1>2
<1>4. \A i \in 1..Len(t) : Len(s) + i \in 1..Len(s) + Len(t) /\ (s \o t)[Len(s) + i] = t[i]
  BY <1>1, <1>2
<1>5. \A i \in 1..Len(s) + Len(t) : i \in 1..Len(s) \/ \E j \in 1..Len(t) : i = Len(s) + j
  <2> SUFFICES ASSUME NEW i \in 1..Len(s) + Len(t), i \notin 1..Len(s)
               PROVE  \E j \in 1..Len(t) : i = Len(s) + j
    OBVIOUS
  <2>1. i - Len(s) \in 1..Len(t) /\ i = Len(s) + (i - Len(s))
    BY <1>2
  <2> QED
    BY <2>1
<1>6. s \o t \in Seq(S)
  BY <1>1
<1>7. ToSet(s \o t) \subseteq ToSet(s) \cup ToSet(t)
  BY <1>2, <1>3, <1>4, <1>5
<1>8. ToSet(s) \subseteq ToSet(s \o t)
  BY <1>2, <1>3
<1>9. ToSet(t) \subseteq ToSet(s \o t)
  <2>1. \A i \in 1..Len(t) : t[i] \in ToSet(s \o t)
    BY <1>2, <1>4
  <2> QED
    BY <1>2, <2>1
<1> QED
  BY <1>6, <1>7, <1>8, <1>9

LEMMA InSingle == ASSUME NEW S, NEW e \in S PROVE <<e>> \in Seq(S) /\ e \in ToSet(<<e>>)
<1>1. <<e>> \in Seq(S) /\ Len(<<e>>) = 1 /\ <<e>>[1] = e
  OBVIOUS
<1>2. ToSet(<<e>>) = {<<e>>[i] : i \in 1..1}
  BY <1>1, ToSetOfSeq
<1> QED
  BY <1>1, <1>2

\* The first component of a path is a segment.
LEMMA PathFacts ==
  ASSUME NEW f \in File
  PROVE  /\ PathOf(f) \in Seq(Segment) /\ Len(PathOf(f)) \in Nat \ {0}
         /\ PathOf(f)[1] \in Segment /\ (Len(PathOf(f)) = 1 \/ Len(PathOf(f)) > 1)
<1>1. PathOf(f) \in Seq(Segment) \ {<<>>}
  BY ReadersAssumption DEF PathOf
<1>2. Len(PathOf(f)) \in Nat \ {0}
  BY <1>1
<1>3. \A n \in Nat \ {0} : n = 1 \/ n > 1
  OBVIOUS
<1>4. PathOf(f)[1] \in Segment
  BY <1>1, <1>2
<1>5. Len(PathOf(f)) = 1 \/ Len(PathOf(f)) > 1
  BY <1>2, <1>3, Zenon
<1> QED
  BY <1>1, <1>2, <1>4, <1>5

\* A prefix that is a document's top directory, or the root, covers it.
LEMMA CoversTop ==
  ASSUME NEW f \in File
  PROVE  Covers(<<>>, PathOf(f)) /\ Covers(<<PathOf(f)[1]>>, PathOf(f))
<1>1. Len(PathOf(f)) \in Nat \ {0} /\ PathOf(f)[1] \in Segment
  BY PathFacts
<1>2. <<PathOf(f)[1], PathOf(f)[1]>> \in Begins
  BY <1>1, ReadersAssumption
<1>3. ASSUME NEW d PROVE Len(<<d>>) = 1 /\ Last(<<d>>) = d
  BY DEF Last
<1> QED
  BY <1>1, <1>2, <1>3 DEF Covers

LEMMA CheckListed ==
  ASSUME TypeInv, Flow, PastInv, CheckInv, ListCollections, quiet, ask.op = "check"
  PROVE  CheckInv'
<1> DEFINE S == {Listed[c] : c \in Live}
<1>1. /\ pc = "collections" /\ UNCHANGED <<index, ask, quiet, answer>>
      /\ hits' \in Enumerations(S)
      /\ pc' = IF hits' = <<>> THEN "done" ELSE "prefixes"
  BY DEF ListCollections, At, Goto
<1>2. answer' = <<>> /\ answer' \in Seq(Gap)
  BY <1>1 DEF CheckInv
<1>3. \A c \in Live : Listed[c] \in Listing /\ Listed[c].coll = c
  BY DEF Live, Listed, Listing, TypeInv, RowsType
<1>4. IsFiniteSet(S)
  <2>1. IsFiniteSet(Live)
    <3>1. IsFiniteSet(Coll) /\ Live \subseteq Coll
      BY ReadersAssumption DEF Live
    <3> QED
      BY <3>1, FS_Subset
  <2> DEFINE F == [c \in Live |-> Listed[c]]
  <2>2. F \in Surjection(Live, S)
    BY DEF Surjection
  <2> HIDE DEF S
  <2> QED
    BY <2>1, <2>2, FS_Surjection
<1> HIDE DEF S
<1>5. hits' \in Seq(S) /\ ToSet(hits') = S
  BY <1>1, <1>4, EnumerationFacts
<1>6. S \subseteq Listing
  BY <1>3 DEF S
<1>7. hits' \in Seq(Listing)
  BY <1>5, <1>6
<1>8. \A f \in Active : \E h \in S : h.coll = CollOf(f)
  <2>1. \A f \in Active : CollOf(f) \in Live
    BY FileType DEF TypeInv, RowsType, Active, Live
  <2> QED
    BY <1>3, <2>1 DEF S
<1>9. Active' = Active
  BY <1>1 DEF Active, index
<1> QED
  BY <1>1, <1>2, <1>5, <1>7, <1>8, <1>9 DEF CheckInv

\* The collection at the head is done with when its documents are covered or
\* reported.
LEMMA CheckPassed ==
  ASSUME TypeInv, CheckInv, quiet, ask.op = "check", pc \in {"prefixes", "paths"},
         UNCHANGED <<index, ask, quiet>>,
         NEW entry \in Seq(Gap), NextRow(entry, "prefixes", "done"),
         \A f \in Active : CollOf(f) = Head(hits).coll =>
           Covered(f) \/ \E r \in ToSet(entry) : Reports(r, f)
  PROVE  CheckInv'
<1>1. hits \in Seq(Listing) /\ hits # <<>> /\ answer \in Seq(Gap)
  BY DEF CheckInv
<1>2. /\ hits' = Tail(hits) /\ answer' = answer \o entry
      /\ pc' = IF hits' = <<>> THEN "done" ELSE "prefixes"
  BY DEF NextRow, Goto
<1>3. hits' \in Seq(Listing) /\ ToSet(hits) = {Head(hits)} \cup ToSet(hits')
  BY <1>1, <1>2, TailFacts
<1>4. answer' \in Seq(Gap) /\ ToSet(answer') = ToSet(answer) \cup ToSet(entry)
  BY <1>1, <1>2, ConcatFacts
<1>5. Active' = Active /\ \A f \in Active : Covered(f)' = Covered(f)
  BY DEF index, Active, Covered, Inheriting
<1>6. \A f \in Active : \/ Covered(f) \/ \E r \in ToSet(answer') : Reports(r, f)
                        \/ \E h \in ToSet(hits') : h.coll = CollOf(f)
  <2> SUFFICES ASSUME NEW f \in Active, ~Covered(f), \A r \in ToSet(answer') : ~Reports(r, f)
               PROVE  \E h \in ToSet(hits') : h.coll = CollOf(f)
    OBVIOUS
  <2>1. PICK h \in ToSet(hits) : h.coll = CollOf(f)
    BY <1>4 DEF CheckInv
  <2>2. CollOf(f) # Head(hits).coll
    BY <1>4
  <2> QED
    BY <1>3, <2>1, <2>2
<1> QED
  BY <1>2, <1>3, <1>4, <1>5, <1>6 DEF CheckInv, Reports

LEMMA StatementCheck ==
  ASSUME TypeInv, Flow, PastInv, CheckInv, Statement, quiet, ask.op = "check"
  PROVE  CheckInv'
<1>1. UNCHANGED <<index, ask, quiet>> /\ Running
  BY StatementReads
<1>2. pc \in {"collections", "prefixes", "paths"}
  <2>1. pc \in Route("check")
    BY <1>1 DEF Flow, Running
  <2>2. Route("check") = {"collections", "prefixes", "paths", "done"}
    BY DEF Route, Search, Lookups
  <2> QED
    BY <1>1, <2>1, <2>2 DEF Running, Ended
<1>3. CASE pc = "collections"
  BY <1>3, StatementAt, CheckListed
<1> DEFINE c == Head(hits).coll
           top == Head(hits)
<1>4. ASSUME pc \in {"prefixes", "paths"}
      PROVE  /\ hits \in Seq(Listing) /\ hits # <<>> /\ top \in Listing /\ c \in Coll
             /\ answer \in Seq(Gap) /\ ToSet(hits) = {top} \cup ToSet(Tail(hits))
  <2>1. hits \in Seq(Listing) /\ hits # <<>> /\ answer \in Seq(Gap)
    BY <1>4 DEF CheckInv
  <2>2. top \in Listing /\ ToSet(hits) = {top} \cup ToSet(Tail(hits))
    BY <2>1, TailFacts
  <2> QED
    BY <2>1, <2>2 DEF Listing
<1>5. \A f \in Active : f \in File
  BY DEF Active
<1>6. <<>> \in Seq(Gap) /\ ToSet(<<>>) = {}
  BY DEF ToSet
<1>7. CASE pc = "prefixes"
  <2>1. ListPrefixes
    BY <1>7, StatementAt
  <2>2. CASE <<>> \in PrefixesOf(c)
    <3>1. NextRow(<<>>, "prefixes", "done")
      BY <2>1, <2>2 DEF ListPrefixes, PrefixesOf
    <3>2. \A f \in Active : CollOf(f) = c => Covered(f)
      BY <1>5, <2>2, CoversTop DEF Covered, Inheriting, PrefixesOf
    <3> QED
      BY <1>1, <1>6, <1>7, <3>1, <3>2, CheckPassed
  <2>3. CASE <<>> \notin PrefixesOf(c)
    <3> DEFINE e == [top EXCEPT !.prefixes = PrefixesOf(c)]
    <3>1. Improve(e, "paths")
      BY <2>1, <2>3 DEF ListPrefixes, PrefixesOf
    <3>2. e \in Listing /\ e.coll = c /\ e.prefixes = PrefixesOf(c)
      BY <1>4, <1>7 DEF Listing, PrefixesOf
    <3> HIDE DEF e
    <3>3. /\ hits' \in Seq(Listing) \ {<<>>} /\ pc' = "paths" /\ UNCHANGED answer
          /\ ToSet(hits') = {e} \cup ToSet(Tail(hits)) /\ Head(hits') = e
      BY <1>4, <1>7, <3>1, <3>2, ImproveFacts
    <3>4. Active' = Active /\ PrefixesOf(c)' = PrefixesOf(c)'
      BY <1>1 DEF Active, index
    <3>5. \A f \in Active : Covered(f)' = Covered(f)
      BY <1>1 DEF index, Active, Covered, Inheriting
    <3>6. \A d : PrefixesOf(d)' = PrefixesOf(d)
      BY <1>1 DEF index, PrefixesOf
    <3>7. \A f : (\E h \in ToSet(hits) : h.coll = CollOf(f)) =>
                 (\E h \in ToSet(hits') : h.coll = CollOf(f))
      BY <1>4, <1>7, <3>2, <3>3
    <3> QED
      BY <1>1, <1>7, <3>2, <3>3, <3>4, <3>5, <3>6, <3>7 DEF CheckInv, Reports
  <2> QED
    BY <2>2, <2>3
<1>8. CASE pc = "paths"
  <2>1. CheckPaths
    BY <1>8, StatementAt
  <2>2. top.prefixes = PrefixesOf(c)
    BY <1>8 DEF CheckInv
  <2> DEFINE missing == Uncovered(c, PrefixesOf(c))
             all == [coll |-> c, all |-> TRUE, dirs |-> {}]
             some == [coll |-> c, all |-> FALSE, dirs |-> missing]
  <2>3. missing \subseteq Segment
    BY <1>5, PathFacts DEF Uncovered, TopLevel
  <2>4. ASSUME NEW f \in Active, CollOf(f) = c
        PROVE  Covered(f) \/ PathOf(f)[1] \in missing
    <3>1. f \in File /\ Len(PathOf(f)) \in Nat \ {0}
      BY <1>5, PathFacts
    <3>2. CASE Len(PathOf(f)) > 1
      <4>1. PathOf(f)[1] \in TopLevel(c)
        BY <2>4, <3>2 DEF TopLevel
      <4>2. <<PathOf(f)[1]>> \in PrefixesOf(c) => Inheriting(f) # {}
        BY <2>4, <3>1, CoversTop DEF Inheriting, PrefixesOf
      <4> QED
        BY <4>1, <4>2 DEF Uncovered, Covered
    <3>3. Len(PathOf(f)) = 1 \/ Len(PathOf(f)) > 1
      BY <3>1, PathFacts
    <3> QED
      BY <3>2, <3>3 DEF Covered
  <2>5. all \in Gap /\ some \in Gap
    BY <1>4, <1>8, <2>3, Zenon DEF Gap
  <2>6. \A f : CollOf(f) = c => Reports(all, f)
    BY DEF Reports
  <2>7. \A f : CollOf(f) = c /\ PathOf(f)[1] \in missing => Reports(some, f)
    BY DEF Reports
  <2>8. NextRow(IF top.prefixes = {} THEN <<all>> ELSE IF missing = {} THEN <<>> ELSE <<some>>,
                "prefixes", "done")
    BY <2>1, <2>2 DEF CheckPaths
  <2> HIDE DEF all, some, missing
  <2>9. /\ <<all>> \in Seq(Gap) /\ all \in ToSet(<<all>>)
        /\ <<some>> \in Seq(Gap) /\ some \in ToSet(<<some>>)
    BY <2>5, InSingle
  <2>10. CASE top.prefixes = {}
    BY <1>1, <1>8, <2>6, <2>8, <2>9, <2>10, CheckPassed
  <2>11. CASE top.prefixes # {} /\ missing = {}
    BY <1>1, <1>6, <1>8, <2>4, <2>8, <2>11, CheckPassed
  <2>12. CASE top.prefixes # {} /\ missing # {}
    BY <1>1, <1>8, <2>4, <2>7, <2>8, <2>9, <2>12, CheckPassed
  <2> QED
    BY <2>10, <2>11, <2>12
<1> QED
  BY <1>2, <1>3, <1>7, <1>8

LEMMA NextCheck ==
  ASSUME TypeInv, Flow, PastInv, CheckInv, [Next]_vars
  PROVE  CheckInv'
<1>1. ASSUME NEW a \in Asks, Ask(a)
      PROVE  CheckInv'
  BY <1>1 DEF Ask, Goto, CheckInv, Search, Flow
<1>2. CASE Leave
  BY <1>2 DEF Leave, Goto, CheckInv
<1>3. CASE UNCHANGED vars
  BY <1>3 DEF vars, reader, index, CheckInv, Active, Covered, Inheriting, PrefixesOf, Reports
<1>4. CASE Write
  BY <1>4, QuietEnds DEF reader, CheckInv
<1>5. CASE Statement
  BY <1>5, StatementReads, StatementCheck DEF CheckInv
<1> QED
  BY <1>1, <1>2, <1>3, <1>4, <1>5 DEF Next

\* A document below a directory `context check` does not report, in a
\* collection it does not report, inherits a context, if nothing is committed
\* meanwhile (store/context.py: context_check).
THEOREM ReadersCheckFindsEveryGap == Spec => []CheckFindsEveryGap
<1>1. Init => CheckInv
  BY DEF Init, CheckInv
<1>2. QuietInv /\ CheckInv /\ [Next]_vars => CheckInv'
  BY NextCheck DEF QuietInv, BesideInv
<1>3. QuietInv /\ CheckInv => CheckFindsEveryGap
  <2> SUFFICES ASSUME Flow, CheckInv, Undisturbed, ask.op = "check" PROVE CheckFindsEveryGap
    BY DEF QuietInv, BesideInv, CheckFindsEveryGap
  <2>1. pc = "done" /\ hits = <<>>
    <3>1. pc \in Route("check") /\ pc \in {"done", "missing"}
      BY DEF Flow, Undisturbed
    <3>2. Route("check") = {"collections", "prefixes", "paths", "done"}
      BY DEF Route, Search, Lookups
    <3> QED
      BY <3>1, <3>2 DEF Flow
  <2>2. ToSet(hits) = {}
    BY <2>1 DEF ToSet
  <2>3. \A f \in Active : Inherited(f).prefixes = Inheriting(f)
    BY DEF Inherited
  <2> QED
    BY <2>1, <2>2, <2>3 DEF CheckInv, CheckFindsEveryGap, Undisturbed, Covered, Reports
<1> QED
  BY <1>1, <1>2, <1>3, QuietInvHolds, PTL DEF Spec
=============================================================================
