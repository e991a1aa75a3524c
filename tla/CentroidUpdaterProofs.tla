----------------------- MODULE CentroidUpdaterProofs -----------------------
(* Proofs about the CentroidUpdater for any number of documents, any batch *)
(* sizes and any number of changes by clients.                             *)
EXTENDS CentroidUpdater, FiniteSetTheorems, TLAPS

\* Every part of TypeOK is kept by every step.
LEMMA NextType == TypeOK /\ [Next]_vars => TypeOK'
<1> SUFFICES ASSUME TypeOK, [Next]_vars
             PROVE  TypeOK'
    OBVIOUS
<1> USE UpdaterAssumption DEF TypeOK, PCs
<1>1. CASE Begin \/ ListFirst \/ CheckEmpty
    BY <1>1 DEF Begin, ListFirst, CheckEmpty, FirstPart, futureVars, storeVars
<1>2. CASE BeginPart \/ BeginBatch
    BY <1>2 DEF BeginPart, BeginBatch, BatchAt, futureVars, storeVars
<1>3. ASSUME NEW d \in Docs, loadDocument(d)
      PROVE  TypeOK'
    BY <1>3 DEF loadDocument, futureVars, storeVars
<1>4. CASE AddBatch
    BY <1>4 DEF AddBatch, addDocument, IdsToRemove, storeVars
<1>5. CASE NextPart \/ Recheck \/ Save
    BY <1>5 DEF NextPart, Recheck, Save, futureVars, storeVars
<1>6. CASE ReadNext \/ CheckNext
    BY <1>6 DEF ReadNext, CheckNext, PartFrom, localVars, storeVars
<1>7. ASSUME NEW d \in Docs, removeDocumentFromCentroid(d)
      PROVE  TypeOK'
    BY <1>7 DEF removeDocumentFromCentroid, localVars
<1>8. ASSUME NEW d \in Docs,
             AddDocument(d) \/ RemoveDocument(d) \/ DeleteDocument(d) \/ CreateDocument(d)
      PROVE  TypeOK'
    BY <1>8 DEF AddDocument, RemoveDocument, DeleteDocument, CreateDocument,
                ClientChanges, localVars, futureVars
<1>9. CASE DeleteCentroid
  <2>1. links' = {} /\ stable' = {} /\ docs' = docs /\ ever' = ever /\ changes' = changes + 1
    BY <1>9 DEF DeleteCentroid, ClientChanges
  <2>2. centroid' \in BOOLEAN
    BY <1>9 DEF DeleteCentroid
  <2>3. UNCHANGED <<localVars, futureVars>>
    BY <1>9 DEF DeleteCentroid, ClientChanges
  <2> QED
    BY <2>1, <2>2, <2>3 DEF localVars, futureVars
<1>10. CASE UNCHANGED vars
    BY <1>10 DEF vars, localVars, futureVars, storeVars
<1> QED
    BY <1>1, <1>2, <1>3, <1>4, <1>5, <1>6, <1>7, <1>8, <1>9, <1>10
    DEF Next, Run, Future, Client

\* The run keeps its variables in their types: indexes stay in range and what
\* it lists, loads and unlinks are ids of documents.
THEOREM TypeCorrect == Spec => []TypeOK
<1>1. Init => TypeOK
    BY DEF Init, TypeOK, PCs
<1> QED
    BY <1>1, NextType, PTL DEF Spec

(***************************************************************************)
(* OnlyMembersCounted is not inductive: what is counted was loaded, what   *)
(* was loaded was asked for, and what was asked for was in a part of the   *)
(* list, which was linked when it was read.                                *)
(***************************************************************************)
MembersInv ==
    /\ pc = "idle" => /\ idSet = {} /\ wanted = {} /\ loaded = {}
                      /\ next = "none" /\ nextIds = {} /\ counted = [d \in Docs |-> 0]
    /\ pc # "idle" => links \subseteq ever
    /\ idSet \subseteq ever
    /\ nextIds \subseteq ever
    /\ wanted \subseteq ever
    /\ loaded \subseteq ever
    /\ OnlyMembersCounted

LEMMA NextMembers == TypeOK /\ MembersInv /\ [Next]_vars => MembersInv'
<1> SUFFICES ASSUME TypeOK, MembersInv, [Next]_vars
             PROVE  MembersInv'
    OBVIOUS
<1> USE DEF TypeOK, PCs, MembersInv, OnlyMembersCounted
<1>1. CASE Begin \/ ListFirst \/ CheckEmpty
    BY <1>1 DEF Begin, ListFirst, CheckEmpty, FirstPart, futureVars, storeVars
<1>2. CASE BeginPart \/ BeginBatch
    BY <1>2 DEF BeginPart, BeginBatch, BatchAt, futureVars, storeVars
<1>3. ASSUME NEW d \in Docs, loadDocument(d)
      PROVE  MembersInv'
    BY <1>3 DEF loadDocument, futureVars, storeVars
<1>4. CASE AddBatch
    BY <1>4 DEF AddBatch, addDocument, IdsToRemove, storeVars
<1>5. CASE NextPart \/ Recheck \/ Save
    BY <1>5 DEF NextPart, Recheck, Save, futureVars, storeVars
<1>6. CASE ReadNext \/ CheckNext
    BY <1>6 DEF ReadNext, CheckNext, PartFrom, localVars, storeVars
<1>7. ASSUME NEW d \in Docs, removeDocumentFromCentroid(d)
      PROVE  MembersInv'
    BY <1>7 DEF removeDocumentFromCentroid, localVars
<1>8. ASSUME NEW d \in Docs,
             AddDocument(d) \/ RemoveDocument(d) \/ DeleteDocument(d) \/ CreateDocument(d)
      PROVE  MembersInv'
    BY <1>8 DEF AddDocument, RemoveDocument, DeleteDocument, CreateDocument,
                ClientChanges, localVars, futureVars
<1>9. CASE DeleteCentroid
    BY <1>9 DEF DeleteCentroid, ClientChanges, localVars, futureVars
<1>10. CASE UNCHANGED vars
    BY <1>10 DEF vars, localVars, futureVars, storeVars
<1> QED
    BY <1>1, <1>2, <1>3, <1>4, <1>5, <1>6, <1>7, <1>8, <1>9, <1>10
    DEF Next, Run, Future, Client

LEMMA CountsInv == Spec => []MembersInv
<1>1. Init => MembersInv
    BY DEF Init, MembersInv, OnlyMembersCounted
<1> QED
    BY <1>1, TypeCorrect, NextMembers, PTL DEF Spec

\* However clients change the store between two accesses of the run, it adds
\* up only documents that were in the centroid while it ran.
THEOREM CountsMembers == Spec => []OnlyMembersCounted
<1>1. MembersInv => OnlyMembersCounted
    BY DEF MembersInv
<1> QED
    BY <1>1, CountsInv, PTL

(***************************************************************************)
(* What is left out, and what is counted twice.                            *)
(*                                                                         *)
(* A document that stays in the centroid is in the first part of the list, *)
(* if that has room for all, and from then on it is in a batch to come, in *)
(* the batch that is being loaded, or counted.                             *)
(***************************************************************************)
ToCome(first) == {d \in idSet : Index(d, idSet) >= first}

Covered(d) ==
    /\ pc # "emptyList"
    /\ pc = "part" => d \in idSet \/ counted[d] >= 1
    /\ pc = "batch" => d \in ToCome(docNum) \/ counted[d] >= 1
    /\ pc = "loading" => \/ d \in ToCome(docNum + documentBatchSize) \/ d \in wanted \cup loaded
                         \/ counted[d] >= 1
    /\ pc \in {"nextPart", "recheck", "save", "saved"} => counted[d] >= 1

CoverInv ==
    /\ stable \subseteq links \cap docs
    /\ Cardinality(ever) <= idListBatchSize => \A d \in stable : Covered(d)

\* A centroid that is small throughout has one part, and that has one batch.
OnceInv ==
    Cardinality(ever) <= documentBatchSize =>
        /\ \A d \in Docs : counted[d] <= 1
        /\ pc \in {"idle", "list", "emptyList", "part", "loading"} => \A d \in Docs : counted[d] = 0
        /\ pc = "loading" => docNum = 0
        /\ pc = "batch" => \/ docNum = 0 /\ \A d \in Docs : counted[d] = 0
                           \/ docNum = documentBatchSize

LEMMA DocsFinite == \A S \in SUBSET Docs : IsFiniteSet(S)
<1>1. N \in Int /\ 1 \in Int
    BY UpdaterAssumption
<1>2. IsFiniteSet(Docs)
    BY <1>1, FS_Interval DEF Docs
<1> QED
    BY <1>2, FS_Subset

\* The position of a document in a list is below the length of the list.
LEMMA IndexBelow ==
    ASSUME NEW S \in SUBSET Docs
    PROVE  /\ Cardinality(S) \in Nat
           /\ \A d \in S : Index(d, S) \in Nat /\ Index(d, S) < Cardinality(S)
<1>1. IsFiniteSet(S)
    BY DocsFinite
<1>2. Cardinality(S) \in Nat
    BY <1>1, FS_CardinalityType
<1>3. ASSUME NEW d \in S
      PROVE  Index(d, S) \in Nat /\ Index(d, S) < Cardinality(S)
  <2> DEFINE below == {e \in S : e < d}
  <2>1. d \in Int
    BY UpdaterAssumption DEF Docs
  <2>2. below \subseteq S /\ below # S
    BY <2>1
  <2>3. IsFiniteSet(below) /\ Cardinality(below) <= Cardinality(S)
        /\ Cardinality(below) # Cardinality(S)
    BY <1>1, <2>2, FS_Subset
  <2>4. Cardinality(below) \in Nat
    BY <2>3, FS_CardinalityType
  <2> QED
    BY <1>2, <2>3, <2>4 DEF Index
<1> QED
    BY <1>2, <1>3

\* What was ever linked bounds the size of what is listed, and only grows.
LEMMA EverBounds ==
    ASSUME TypeOK
    PROVE  /\ Cardinality(ever) \in Nat
           /\ \A S \in SUBSET ever : Cardinality(S) \in Nat /\ Cardinality(S) <= Cardinality(ever)
<1>1. IsFiniteSet(ever)
    BY DocsFinite DEF TypeOK
<1>2. Cardinality(ever) \in Nat
    BY <1>1, FS_CardinalityType
<1>3. ASSUME NEW S \in SUBSET ever
      PROVE  Cardinality(S) \in Nat /\ Cardinality(S) <= Cardinality(ever)
    BY <1>1, FS_Subset, FS_CardinalityType
<1> QED
    BY <1>2, <1>3

LEMMA EverGrows ==
    ASSUME TypeOK, TypeOK', ever \subseteq ever', NEW n \in Nat, Cardinality(ever') <= n
    PROVE  Cardinality(ever) <= n
<1>1. Cardinality(ever') \in Nat /\ Cardinality(ever) <= Cardinality(ever')
  <2>1. IsFiniteSet(ever')
    BY DocsFinite DEF TypeOK
  <2> QED
    BY <2>1, FS_Subset, FS_CardinalityType
<1>2. Cardinality(ever) \in Nat
    BY EverBounds
<1> QED
    BY <1>1, <1>2

\* Steps that leave a run where it is take documents from those it has to cover.
LEMMA CoverSame ==
    ASSUME UNCHANGED localVars, NEW d
    PROVE  Covered(d) => Covered(d)'
BY DEF Covered, ToCome, localVars, Index

LEMMA NextCover ==
    TypeOK /\ TypeOK' /\ MembersInv /\ CoverInv /\ [Next]_vars => CoverInv'
<1> SUFFICES ASSUME TypeOK, TypeOK', MembersInv, CoverInv, [Next]_vars
             PROVE  CoverInv'
    OBVIOUS
<1> USE UpdaterAssumption
<1>0. ASSUME ever \subseteq ever', Cardinality(ever') <= idListBatchSize
      PROVE  \A d \in stable : Covered(d)
    BY <1>0, EverGrows DEF CoverInv
<1>1. CASE Begin
  <2>1. stable' \subseteq links' \cap docs' /\ pc' \in {"list", "failed"}
    BY <1>1 DEF Begin
  <2> QED
    BY <2>1 DEF CoverInv, Covered
<1>2. CASE ListFirst
  <2>1. UNCHANGED <<stable, links, docs, ever, counted>> /\ idSet' = FirstPart(idListBatchSize)
    BY <1>2 DEF ListFirst, storeVars
  <2>2. ASSUME Cardinality(ever) <= idListBatchSize
        PROVE  idSet' = links
    <3>1. links \subseteq ever
      BY <1>2 DEF ListFirst, MembersInv
    <3>2. Cardinality(links) \in Nat /\ Cardinality(links) <= idListBatchSize
      BY <3>1, <2>2, EverBounds
    <3>3. links \in SUBSET Docs
      BY DEF TypeOK
    <3>4. \A d \in links : Index(d, links) < idListBatchSize
      BY <3>2, <3>3, IndexBelow
    <3> QED
      BY <2>1, <3>4 DEF FirstPart
  <2>3. pc' = IF idSet' = {} THEN "emptyList" ELSE "part"
    BY <1>2 DEF ListFirst
  <2> QED
    BY <2>1, <2>2, <2>3 DEF CoverInv, Covered
<1>3. CASE CheckEmpty
  <2>1. UNCHANGED <<stable, links, docs, ever>>
    BY <1>3 DEF CheckEmpty, storeVars
  <2>2. Cardinality(ever) <= idListBatchSize => stable = {}
    BY <1>3 DEF CheckEmpty, CoverInv, Covered
  <2> QED
    BY <2>1, <2>2 DEF CoverInv
<1>4. CASE BeginPart
  <2>1. UNCHANGED <<stable, links, docs, ever, counted, idSet>> /\ pc' = "batch" /\ docNum' = 0
    BY <1>4 DEF BeginPart, storeVars
  <2>2. \A d \in idSet : Index(d, idSet) >= 0
    <3>1. \A d \in idSet : Index(d, idSet) \in Nat
      BY IndexBelow DEF TypeOK
    <3> QED
      BY <3>1
  <2>3. ASSUME NEW d \in stable, Covered(d)
        PROVE  Covered(d)'
    BY <1>4, <2>1, <2>2, <2>3 DEF BeginPart, Covered, ToCome, Index
  <2> QED
    BY <2>1, <2>3 DEF CoverInv
<1>5. CASE BeginBatch
  <2>1. UNCHANGED <<stable, links, docs, ever, counted, idSet, docNum>>
    BY <1>5 DEF BeginBatch, storeVars
  <2>2. \A d \in idSet : Index(d, idSet) \in Nat /\ Index(d, idSet) < Cardinality(idSet)
    BY IndexBelow DEF TypeOK
  <2>3. Cardinality(idSet) \in Nat /\ docNum \in Nat
    BY IndexBelow DEF TypeOK
  <2>4. ASSUME NEW d \in stable, Covered(d)
        PROVE  Covered(d)'
    <3>1. d \in ToCome(docNum) \/ counted[d] >= 1
      BY <1>5, <2>4 DEF BeginBatch, Covered
    <3>2. CASE docNum < Cardinality(idSet)
      <4>1. pc' = "loading" /\ wanted' = BatchAt(docNum)
        BY <1>5, <3>2 DEF BeginBatch
      <4>2. d \in ToCome(docNum) => d \in wanted' \/ d \in ToCome(docNum + documentBatchSize)
        BY <2>2, <2>3, <4>1 DEF ToCome, BatchAt
      <4> QED
        BY <2>1, <3>1, <4>1, <4>2 DEF Covered, ToCome, Index
    <3>3. CASE ~(docNum < Cardinality(idSet))
      <4>1. pc' = "nextPart"
        BY <1>5, <3>3 DEF BeginBatch
      <4>2. d \notin ToCome(docNum)
        BY <2>2, <2>3, <3>3 DEF ToCome
      <4> QED
        BY <2>1, <3>1, <4>1, <4>2 DEF Covered
    <3> QED
      BY <3>2, <3>3
  <2> QED
    BY <2>1, <2>4 DEF CoverInv
<1>6. ASSUME NEW e \in Docs, loadDocument(e)
      PROVE  CoverInv'
  <2>1. UNCHANGED <<pc, stable, links, docs, ever, counted, idSet, docNum>> /\ pc = "loading"
    BY <1>6 DEF loadDocument, storeVars
  <2>2. ASSUME NEW d \in stable, d \in wanted \cup loaded
        PROVE  d \in wanted' \cup loaded'
    BY <1>6, <2>2 DEF loadDocument, CoverInv
  <2>3. ASSUME NEW d \in stable, Covered(d)
        PROVE  Covered(d)'
    BY <2>1, <2>2, <2>3 DEF Covered, ToCome, Index
  <2> QED
    BY <2>1, <2>3 DEF CoverInv
<1>7. CASE AddBatch
  <2>1. UNCHANGED <<stable, links, docs, ever, idSet>> /\ pc = "loading" /\ pc' = "batch"
        /\ wanted = {} /\ docNum' = docNum + documentBatchSize
    BY <1>7 DEF AddBatch, addDocument, storeVars
  <2>2. \A d \in Docs : /\ counted'[d] >= counted[d]
                        /\ d \in loaded => counted'[d] >= 1
    BY <1>7 DEF AddBatch, addDocument, TypeOK
  <2>3. ASSUME NEW d \in stable, Covered(d)
        PROVE  Covered(d)'
    <3>1. d \in Docs /\ counted[d] \in Nat /\ counted'[d] \in Nat
      BY DEF TypeOK
    <3>2. counted[d] >= 1 \/ d \in loaded => counted'[d] >= 1
      BY <2>2, <3>1
    <3> QED
      BY <2>1, <2>3, <3>2 DEF Covered, ToCome, Index
  <2> QED
    BY <2>1, <2>3 DEF CoverInv
<1>8. CASE NextPart \/ Recheck \/ Save
  <2>1. UNCHANGED <<stable, links, docs, ever, counted>>
    BY <1>8 DEF NextPart, Recheck, Save, storeVars
  <2>2. /\ pc \in {"nextPart", "recheck", "save"}
        /\ pc' \in {"part", "recheck", "save", "saved", "failed"}
    BY <1>8 DEF NextPart, Recheck, Save
  <2>3. ASSUME NEW d \in stable, Covered(d)
        PROVE  Covered(d)'
    BY <2>1, <2>2, <2>3 DEF Covered
  <2> QED
    BY <2>1, <2>3 DEF CoverInv
<1>9. ASSUME UNCHANGED localVars, ever \subseteq ever', stable' \subseteq stable,
             stable' \subseteq links' \cap docs'
      PROVE  CoverInv'
    BY <1>0, <1>9, CoverSame DEF CoverInv
<1>10. CASE ReadNext \/ CheckNext \/ UNCHANGED vars
    BY <1>10, <1>9 DEF ReadNext, CheckNext, vars, storeVars, CoverInv
<1>11. ASSUME NEW d \in Docs, removeDocumentFromCentroid(d)
       PROVE  CoverInv'
    BY <1>11, <1>9 DEF removeDocumentFromCentroid, CoverInv
<1>12. ASSUME NEW d \in Docs,
              AddDocument(d) \/ RemoveDocument(d) \/ DeleteDocument(d) \/ CreateDocument(d)
       PROVE  CoverInv'
    BY <1>12, <1>9
    DEF AddDocument, RemoveDocument, DeleteDocument, CreateDocument, ClientChanges, CoverInv
<1>13. CASE DeleteCentroid
  <2>1. UNCHANGED localVars /\ ever \subseteq ever' /\ stable' = {}
    BY <1>13 DEF DeleteCentroid, ClientChanges
  <2> QED
    BY <2>1, <1>9
<1> QED
    BY <1>1, <1>2, <1>3, <1>4, <1>5, <1>6, <1>7, <1>8, <1>10, <1>11, <1>12, <1>13
    DEF Next, Run, Future, Client

\* Up to idListBatchSize documents, a document that is in the centroid throughout the run is in
\* what the run stores, for any batch sizes and however clients change the store meanwhile.
THEOREM LeavesNoneOut == Spec => []NoneLeftOut
<1>1. Init => CoverInv
    BY DEF Init, CoverInv
<1>2. CoverInv => NoneLeftOut
    BY DEF CoverInv, Covered, NoneLeftOut
<1> QED
    BY <1>1, <1>2, TypeCorrect, CountsInv, NextCover, PTL DEF Spec

LEMMA NextOnce ==
    TypeOK /\ TypeOK' /\ MembersInv /\ OnceInv /\ [Next]_vars => OnceInv'
<1> SUFFICES ASSUME TypeOK, TypeOK', MembersInv, OnceInv, [Next]_vars,
                    Cardinality(ever') <= documentBatchSize
             PROVE  OnceInv'
    BY DEF OnceInv
<1> USE UpdaterAssumption
<1> DEFINE Zero == \A d \in Docs : counted[d] = 0
<1>0. ASSUME ever \subseteq ever'
      PROVE  /\ Cardinality(ever) <= documentBatchSize
             /\ \A d \in Docs : counted[d] <= 1
             /\ pc \in {"idle", "list", "emptyList", "part", "loading"} => Zero
             /\ pc = "loading" => docNum = 0
             /\ pc = "batch" => (docNum = 0 /\ Zero) \/ docNum = documentBatchSize
    BY <1>0, EverGrows DEF OnceInv
<1>1. CASE Begin
  <2>1. counted' = [d \in Docs |-> 0] /\ pc' \in {"list", "failed"}
    BY <1>1 DEF Begin, MembersInv
  <2> QED
    BY <2>1 DEF OnceInv
<1>2. CASE ListFirst \/ CheckEmpty
  <2>1. UNCHANGED <<ever, counted>> /\ pc \in {"list", "emptyList"}
        /\ pc' \in {"emptyList", "part", "recheck", "failed"}
    BY <1>2 DEF ListFirst, CheckEmpty, storeVars
  <2> QED
    BY <1>0, <2>1 DEF OnceInv
<1>3. CASE BeginPart
  <2>1. UNCHANGED <<ever, counted>> /\ pc = "part" /\ pc' = "batch" /\ docNum' = 0
    BY <1>3 DEF BeginPart, storeVars
  <2> QED
    BY <1>0, <2>1 DEF OnceInv
<1>4. CASE BeginBatch
  <2>1. UNCHANGED <<ever, counted, docNum>> /\ pc = "batch"
        /\ pc' = IF docNum < Cardinality(idSet) THEN "loading" ELSE "nextPart"
    BY <1>4 DEF BeginBatch, storeVars
  <2>2. Cardinality(idSet) \in Nat /\ Cardinality(idSet) <= documentBatchSize
    BY <1>0, <2>1, EverBounds DEF MembersInv
  <2> QED
    BY <1>0, <2>1, <2>2 DEF OnceInv
<1>5. ASSUME NEW d \in Docs, loadDocument(d)
      PROVE  OnceInv'
    BY <1>0, <1>5 DEF loadDocument, storeVars, OnceInv
<1>6. CASE AddBatch
  <2>1. UNCHANGED ever /\ pc = "loading" /\ pc' = "batch" /\ docNum' = docNum + documentBatchSize
        /\ counted' = [d \in Docs |-> IF d \in loaded THEN counted[d] + 1 ELSE counted[d]]
    BY <1>6 DEF AddBatch, addDocument, storeVars
  <2>2. Zero /\ docNum = 0
    BY <1>0, <2>1
  <2>3. \A d \in Docs : counted'[d] <= 1
    BY <2>1, <2>2
  <2> QED
    BY <2>1, <2>2, <2>3 DEF OnceInv
<1>7. CASE NextPart
  <2>1. UNCHANGED <<ever, counted>> /\ pc = "nextPart"
        /\ (pc' \in {"recheck", "failed"} \/ Cardinality(nextIds) >= idListBatchSize)
    BY <1>7 DEF NextPart, storeVars
  <2>2. Cardinality(nextIds) \in Nat /\ Cardinality(nextIds) <= documentBatchSize
    BY <1>0, <2>1, EverBounds DEF MembersInv
  <2>3. pc' \in {"recheck", "failed"}
    BY <2>1, <2>2
  <2> QED
    BY <1>0, <2>1, <2>3 DEF OnceInv
<1>8. CASE Recheck \/ Save
  <2>1. UNCHANGED <<ever, counted>> /\ pc' \in {"save", "saved", "failed"}
    BY <1>8 DEF Recheck, Save, storeVars
  <2> QED
    BY <1>0, <2>1 DEF OnceInv
<1>9. ASSUME UNCHANGED localVars, ever \subseteq ever'
      PROVE  OnceInv'
    BY <1>0, <1>9 DEF localVars, OnceInv
<1>10. CASE Future \/ Client \/ UNCHANGED vars
  <2>1. UNCHANGED localVars /\ ever \subseteq ever'
    BY <1>10 DEF Future, Client, ReadNext, CheckNext, removeDocumentFromCentroid, AddDocument,
                 RemoveDocument, DeleteDocument, CreateDocument, DeleteCentroid, ClientChanges,
                 vars, storeVars
  <2> QED
    BY <1>9, <2>1
<1> QED
    BY <1>1, <1>2, <1>3, <1>4, <1>5, <1>6, <1>7, <1>8, <1>10 DEF Next, Run

\* A centroid of at most documentBatchSize documents is stored as the sum of its documents, each
\* once, for any batch sizes and however clients change the store during the run: that a batch
\* has one document more than it should, and the next part begins with the last document of this
\* one, does no harm as long as there is one batch.
THEOREM SmallIsExact == Spec => []SmallCentroidExact
<1>1. Init => OnceInv
    BY DEF Init, OnceInv
<1>2. TypeOK /\ NoneLeftOut /\ OnceInv => SmallCentroidExact
  <2> SUFFICES ASSUME TypeOK, NoneLeftOut, OnceInv, pc = "saved",
                      Cardinality(ever) <= documentBatchSize, NEW d \in Docs
               PROVE  counted[d] <= 1 /\ (d \in stable => counted[d] = 1)
    BY DEF SmallCentroidExact
  <2>1. counted[d] \in Nat /\ counted[d] <= 1
    BY DEF TypeOK, OnceInv
  <2>2. Cardinality(ever) <= idListBatchSize
    BY UpdaterAssumption, EverBounds
  <2> QED
    BY <2>1, <2>2 DEF NoneLeftOut
<1> QED
    BY <1>1, <1>2, TypeCorrect, CountsInv, LeavesNoneOut, NextOnce, PTL DEF Spec

=============================================================================
