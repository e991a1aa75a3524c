------------------------ MODULE SyncPersistenceProofs ------------------------
(* Proofs about SyncPersistence for any ids, threads and operations.       *)
EXTENDS SyncPersistence, TLAPS

\* Steps that change neither the store nor the ids of the clean-up.
LEMMA StepType ==
    ASSUME TypeOK, NEW t \in Threads, NEW here, NEW key \in Keys,
           NEW yes \in PCs, NEW no \in PCs,
           \/ Exists(t, here, key, yes, no) \/ Put(t, here, key, yes)
           \/ Delete(t, here, key, yes) \/ DeleteEach(t, here, yes)
    PROVE  TypeOK'
<1>1. CASE Exists(t, here, key, yes, no)
    BY <1>1 DEF TypeOK, Exists, Goto
<1>2. CASE Put(t, here, key, yes)
    BY <1>2 DEF TypeOK, Put, Goto
<1>3. CASE Delete(t, here, key, yes)
    BY <1>3 DEF TypeOK, Delete, Goto
<1>4. CASE DeleteEach(t, here, yes)
    BY <1>4 DEF TypeOK, DeleteEach, Goto
<1> QED
    BY <1>1, <1>2, <1>3, <1>4

\* The keys that the operations build are keys of the store.
LEMMA KeysOfArguments ==
    ASSUME NEW c \in Centroids, NEW d \in Docs
    PROVE  /\ DocumentKey(d) \in Keys /\ CentroidKey(c) \in Keys
           /\ CentroidDocumentKey(c, d) \in Keys /\ DocumentCentroidKey(d, c) \in Keys
           /\ CreatedTimeKey(d) \in Keys /\ MetadataKey(c) \in Keys
BY DEF Keys

\* Every step of the store keeps the types.
LEMMA NextType == TypeOK /\ [Next]_vars => TypeOK'
<1> SUFFICES ASSUME TypeOK, [Next]_vars
             PROVE  TypeOK'
    OBVIOUS
<1>1. ASSUME NEW t \in Threads, NEW o \in Ops, NEW c \in Centroids, NEW d \in Docs,
             Call(t, o, c, d)
      PROVE  TypeOK'
  <2>1. o \in OpNames
    BY PersistenceAssumption
  <2>2. FirstStep[o] \in PCs
    BY <2>1 DEF FirstStep, OpNames, PCs
  <2> QED
    BY <1>1, <2>1, <2>2 DEF TypeOK, Call, Goto
<1>2. ASSUME NEW t \in Threads, Step(t)
      PROVE  TypeOK'
  <2>1. /\ ac[t] \in Centroids /\ ad[t] \in Docs
        /\ DocumentKey(ad[t]) \in Keys /\ CentroidKey(ac[t]) \in Keys
        /\ CentroidDocumentKey(ac[t], ad[t]) \in Keys
        /\ DocumentCentroidKey(ad[t], ac[t]) \in Keys
        /\ CreatedTimeKey(ad[t]) \in Keys /\ MetadataKey(ac[t]) \in Keys
    BY KeysOfArguments DEF TypeOK
  <2>2. Return(t) \in PCs
    BY DEF Return, PCs
  <2>3. ASSUME NEW keys \in SUBSET db, NEW here, NEW l \in PCs, Scan(t, here, keys, l)
        PROVE  TypeOK'
    BY <2>3 DEF TypeOK, Scan, Goto
  <2>4. CASE saveNewDocument(t)
    <3>1. CASE pc[t] = "newDoc.created" /\ db' = db \cup {CreatedTimeKey(ad[t])}
               /\ old' = old \ {ad[t]} /\ Goto(t, "idle")
               /\ UNCHANGED <<op, ac, ad, todo, queue, deleted>>
      BY <2>1, <3>1 DEF TypeOK, Goto, PCs
    <3> QED
      BY <2>1, <2>4, <3>1, StepType DEF saveNewDocument, PCs
  <2>5. CASE deleteDocument(t)
    <3>1. DocumentCentroidKeys(ad[t]) \in SUBSET db
      BY DEF DocumentCentroidKeys
    <3> QED
      BY <2>1, <2>2, <2>3, <2>5, <3>1, StepType DEF deleteDocument, PCs
  <2>6. CASE createNewCentroid(t) \/ saveCentroid(t) \/ setCentroidMetadata(t)
    BY <2>1, <2>6, StepType DEF createNewCentroid, saveCentroid, setCentroidMetadata, PCs
  <2>7. CASE deleteCentroid(t)
    <3>1. CentroidDocumentKeys(ac[t]) \in SUBSET db
      BY DEF CentroidDocumentKeys
    <3> QED
      BY <2>1, <2>3, <2>7, <3>1, StepType DEF deleteCentroid, PCs
  <2>8. CASE addDocumentToCentroid(t)
    BY <2>1, <2>8, StepType DEF addDocumentToCentroid, PCs
  <2>9. CASE removeDocumentFromCentroid(t)
    BY <2>1, <2>9, StepType DEF removeDocumentFromCentroid, PCs
  <2>10. CASE GcScan(t)
    BY <2>10 DEF TypeOK, GcScan, Goto, PCs
  <2>11. CASE GcNext(t)
    BY <2>11 DEF TypeOK, GcNext, Goto, PCs
  <2>12. CASE GcAge(t)
    BY <2>12 DEF TypeOK, GcAge, Goto, PCs
  <2>13. CASE GcCount(t)
    BY <2>13 DEF TypeOK, GcCount, Goto, PCs
  <2> QED
    BY <1>2, <2>4, <2>5, <2>6, <2>7, <2>8, <2>9, <2>10, <2>11, <2>12, <2>13
    DEF Step, deleteOldUnusedDocuments
<1>3. ASSUME NEW d \in Docs, Age(d)
      PROVE  TypeOK'
    BY <1>3 DEF TypeOK, Age
<1>4. CASE Crash
    BY <1>4 DEF TypeOK, Crash, PCs
<1>5. CASE UNCHANGED vars
    BY <1>5 DEF TypeOK, vars
<1> QED
    BY <1>1, <1>2, <1>3, <1>4, <1>5 DEF Next

\* Iterators only visit keys of the store and the clean-up only ids of
\* documents, in whatever order threads and crashes interleave.
THEOREM TypeCorrect == Spec => []TypeOK
<1>1. Init => TypeOK
    BY DEF Init, TypeOK, OpNames, PCs
<1> QED
    BY <1>1, NextType, PTL DEF Spec

(***************************************************************************)
(* BackLinkHasLink depends on the order of the two puts of an add and of   *)
(* the two deletes of a remove, hence on what a thread between the two has *)
(* already done.  It holds when removals have the store to themselves: an  *)
(* add between the deletes of a remove restores only one of the two links. *)
(***************************************************************************)
Single == \A t, u \in Threads : t = u

Undisturbed == "removeDocumentFromCentroid" \in Ops => Single

RemovePCs == {"rem.centroid", "rem.document", "rem.back", "rem.exists", "rem.delete"}
DeletePCs == {"delCen.exists", "delCen.delete", "delCen.scan", "delCen.unlink", "delCen.meta"}

BackKeys == {DocumentCentroidKey(d, c) : d \in Docs, c \in Centroids}

\* Links of centroids that clients have deleted.
DeadLinks == {CentroidDocumentKey(c, d) : c \in Centroids \cap deleted, d \in Docs}

LinkInv ==
    /\ \A t \in Threads :
         /\ pc[t] \in DeletePCs => ac[t] \in deleted
         /\ pc[t] \in RemovePCs => Single
         /\ todo[t] \subseteq BackKeys \cup DeadLinks
         /\ pc[t] = "add.back" /\ ac[t] \notin deleted =>
                CentroidDocumentKey(ac[t], ad[t]) \in db
         /\ pc[t] \in {"rem.exists", "rem.delete"} =>
                DocumentCentroidKey(ad[t], ac[t]) \notin db
    /\ BackLinkHasLink

\* Keys of different kinds, and of different ids, are different.
LEMMA KeysDiffer ==
    ASSUME NEW c, NEW d, NEW e, NEW f
    PROVE  /\ DocumentKey(d) # CentroidDocumentKey(e, f)
           /\ DocumentKey(d) # DocumentCentroidKey(f, e)
           /\ CentroidKey(c) # CentroidDocumentKey(e, f)
           /\ CentroidKey(c) # DocumentCentroidKey(f, e)
           /\ CreatedTimeKey(d) # CentroidDocumentKey(e, f)
           /\ CreatedTimeKey(d) # DocumentCentroidKey(f, e)
           /\ MetadataKey(c) # CentroidDocumentKey(e, f)
           /\ MetadataKey(c) # DocumentCentroidKey(f, e)
           /\ CentroidDocumentKey(c, d) # DocumentCentroidKey(f, e)
           /\ CentroidDocumentKey(c, d) = CentroidDocumentKey(e, f) => c = e /\ d = f
           /\ DocumentCentroidKey(d, c) = DocumentCentroidKey(f, e) => c = e /\ d = f
BY DEF DocumentKey, CentroidKey, CentroidDocumentKey, DocumentCentroidKey,
       CreatedTimeKey, MetadataKey

\* A thread goes on without touching the links of living centroids, to a place
\* where it owes them nothing.
LEMMA GoOnKeepsLinks ==
    ASSUME TypeOK, LinkInv, NEW t \in Threads, NEW l,
           l # "add.back", l \notin {"rem.exists", "rem.delete"},
           l \in RemovePCs => Single,
           l \in DeletePCs => ac'[t] \in deleted',
           pc' = [pc EXCEPT ![t] = l],
           deleted \subseteq deleted',
           \A u \in Threads \ {t} : ac'[u] = ac[u] /\ ad'[u] = ad[u],
           \A u \in Threads : todo'[u] \subseteq BackKeys \cup DeadLinks',
           \A c \in Centroids \ deleted, d \in Docs :
              CentroidDocumentKey(c, d) \in db => CentroidDocumentKey(c, d) \in db',
           \A c \in Centroids, d \in Docs :
              DocumentCentroidKey(d, c) \in db' => DocumentCentroidKey(d, c) \in db
    PROVE  LinkInv'
<1>1. ASSUME NEW u \in Threads
      PROVE  /\ pc'[u] \in DeletePCs => ac'[u] \in deleted'
             /\ pc'[u] \in RemovePCs => Single
             /\ pc'[u] = "add.back" /\ ac'[u] \notin deleted' =>
                    CentroidDocumentKey(ac'[u], ad'[u]) \in db'
             /\ pc'[u] \in {"rem.exists", "rem.delete"} =>
                    DocumentCentroidKey(ad'[u], ac'[u]) \notin db'
  <2>1. CASE u = t
    BY <2>1 DEF TypeOK
  <2>2. CASE u # t
    BY <2>2 DEF TypeOK, LinkInv
  <2> QED
    BY <2>1, <2>2
<1>2. BackLinkHasLink'
    BY DEF LinkInv, BackLinkHasLink
<1> QED
    BY <1>1, <1>2 DEF LinkInv

\* Every step of Undisturbed operations keeps the links in order.
LEMMA NextLinks ==
    ASSUME Undisturbed, TypeOK, LinkInv, [Next]_vars
    PROVE  LinkInv'
<1>0. ASSUME deleted \subseteq deleted'
      PROVE  DeadLinks \subseteq DeadLinks'
    BY <1>0 DEF DeadLinks
<1>1. ASSUME NEW t \in Threads, NEW o \in Ops, NEW c \in Centroids, NEW d \in Docs,
             Call(t, o, c, d)
      PROVE  LinkInv'
  <2>1. deleted \subseteq deleted'
    BY <1>1 DEF Call
  <2>2. /\ FirstStep[o] \notin {"add.back", "rem.exists", "rem.delete"}
        /\ FirstStep[o] \in RemovePCs => Single
    BY PersistenceAssumption DEF FirstStep, OpNames, Undisturbed, RemovePCs
  <2>3. FirstStep[o] \in DeletePCs => ac'[t] \in deleted'
    <3>1. FirstStep[o] \in DeletePCs => o = "deleteCentroid"
      BY PersistenceAssumption DEF FirstStep, OpNames, DeletePCs
    <3>2. ac'[t] = c
      BY <1>1 DEF Call, TypeOK
    <3>3. o = "deleteCentroid" => c \in deleted'
      BY <1>1 DEF Call
    <3> QED
      BY <3>1, <3>2, <3>3
  <2>4. \A u \in Threads \ {t} : ac'[u] = ac[u] /\ ad'[u] = ad[u]
    BY <1>1 DEF Call, TypeOK
  <2>5. \A u \in Threads : todo'[u] \subseteq BackKeys \cup DeadLinks'
    BY <1>0, <1>1, <2>1 DEF Call, LinkInv
  <2> QED
    BY <1>1, <2>1, <2>2, <2>3, <2>4, <2>5, GoOnKeepsLinks DEF Call, Goto
<1>2. ASSUME NEW t \in Threads, Step(t)
      PROVE  LinkInv'
  <2> DEFINE Plain(l) == /\ l \notin {"add.back", "rem.exists", "rem.delete"}
                         /\ l \in RemovePCs => Single
                         /\ l \in DeletePCs => ac[t] \in deleted
             Harmless(key) == \A c \in Centroids, d \in Docs :
                                 /\ key # CentroidDocumentKey(c, d)
                                 /\ key # DocumentCentroidKey(d, c)
  <2>1. ac[t] \in Centroids /\ ad[t] \in Docs
    BY DEF TypeOK
  <2>2. /\ Harmless(DocumentKey(ad[t])) /\ Harmless(CentroidKey(ac[t]))
        /\ Harmless(CreatedTimeKey(ad[t])) /\ Harmless(MetadataKey(ac[t]))
    BY KeysDiffer
  <2>3. deleted' = deleted /\ ac' = ac
    BY <1>2 DEF Step, saveNewDocument, deleteDocument, createNewCentroid, deleteCentroid,
                saveCentroid, setCentroidMetadata, addDocumentToCentroid,
                removeDocumentFromCentroid, deleteOldUnusedDocuments, GcScan, GcNext,
                GcAge, GcCount, Exists, Put, Delete, Scan, DeleteEach
  <2>4. DeadLinks' = DeadLinks
    BY <2>3 DEF DeadLinks
  <2>5. ASSUME NEW l, Plain(l), pc' = [pc EXCEPT ![t] = l],
               \A u \in Threads \ {t} : ad'[u] = ad[u],
               \A u \in Threads : todo'[u] \subseteq BackKeys \cup DeadLinks,
               \A c \in Centroids \ deleted, d \in Docs :
                  CentroidDocumentKey(c, d) \in db => CentroidDocumentKey(c, d) \in db',
               \A c \in Centroids, d \in Docs :
                  DocumentCentroidKey(d, c) \in db' => DocumentCentroidKey(d, c) \in db
        PROVE  LinkInv'
    BY <2>3, <2>4, <2>5, GoOnKeepsLinks
  <2>6. ASSUME NEW here, NEW key, NEW yes, NEW no, Plain(yes), Plain(no),
               Exists(t, here, key, yes, no)
        PROVE  LinkInv'
    <3>1. PICK l : Plain(l) /\ pc' = [pc EXCEPT ![t] = l]
      BY <2>6 DEF Exists, Goto
    <3> HIDE DEF Plain
    <3> QED
      BY <2>5, <2>6, <3>1 DEF Exists, LinkInv
  <2>7. ASSUME NEW here, NEW key, NEW l, Plain(l), Harmless(key),
               Put(t, here, key, l) \/ Delete(t, here, key, l)
        PROVE  LinkInv'
    <3>1. /\ \A c \in Centroids \ deleted, d \in Docs :
                CentroidDocumentKey(c, d) \in db => CentroidDocumentKey(c, d) \in db'
          /\ \A c \in Centroids, d \in Docs :
                DocumentCentroidKey(d, c) \in db' => DocumentCentroidKey(d, c) \in db
      BY <2>7 DEF Put, Delete
    <3> HIDE DEF Plain
    <3> QED
      BY <2>5, <2>7, <3>1 DEF Put, Delete, Goto, LinkInv
  <2>8. ASSUME NEW here, NEW keys, NEW l, Plain(l), keys \subseteq BackKeys \cup DeadLinks,
               Scan(t, here, keys, l)
        PROVE  LinkInv'
    <3>1. \A u \in Threads : todo'[u] \subseteq BackKeys \cup DeadLinks
      BY <2>8 DEF Scan, TypeOK, LinkInv
    <3> HIDE DEF Plain
    <3> QED
      BY <2>5, <2>8, <3>1 DEF Scan, Goto
  <2>9. ASSUME NEW here, NEW l, Plain(l), Plain(here), DeleteEach(t, here, l)
        PROVE  LinkInv'
    <3>1. CASE todo[t] = {}
      <4> HIDE DEF Plain
      <4> QED
        BY <2>5, <2>9, <3>1 DEF DeleteEach, Goto, LinkInv
    <3>2. CASE todo[t] # {}
      <4>1. PICK key \in todo[t] : /\ db' = db \ {key}
                                   /\ todo' = [todo EXCEPT ![t] = @ \ {key}]
                                   /\ UNCHANGED <<pc, ad>>
        BY <2>9, <3>2 DEF DeleteEach
      <4>2. \A c \in Centroids \ deleted, d \in Docs : key # CentroidDocumentKey(c, d)
        <5>1. key \in BackKeys \cup DeadLinks
          BY <4>1 DEF LinkInv
        <5> QED
          BY <5>1, KeysDiffer DEF BackKeys, DeadLinks
      <4>3. \A u \in Threads : todo'[u] \subseteq BackKeys \cup DeadLinks
        BY <4>1 DEF TypeOK, LinkInv
      <4>4. pc' = [pc EXCEPT ![t] = here]
        BY <2>9, <4>1 DEF DeleteEach, TypeOK
      <4> HIDE DEF Plain
      <4> QED
        BY <2>5, <2>9, <4>1, <4>2, <4>3, <4>4
    <3> QED
      BY <3>1, <3>2
  <2>10. CASE saveNewDocument(t)
    <3>1. Plain("idle") /\ Plain("newDoc.put") /\ Plain("newDoc.created")
      BY DEF RemovePCs, DeletePCs
    <3> HIDE DEF Plain
    <3>2. CASE pc[t] = "newDoc.created" /\ db' = db \cup {CreatedTimeKey(ad[t])}
               /\ old' = old \ {ad[t]} /\ Goto(t, "idle")
               /\ UNCHANGED <<op, ac, ad, todo, queue, deleted>>
      <4>1. /\ \A c \in Centroids \ deleted, d \in Docs :
                  CentroidDocumentKey(c, d) \in db => CentroidDocumentKey(c, d) \in db'
            /\ \A c \in Centroids, d \in Docs :
                  DocumentCentroidKey(d, c) \in db' => DocumentCentroidKey(d, c) \in db
        BY <2>2, <3>2
      <4> QED
        BY <2>5, <3>1, <3>2, <4>1 DEF Goto, LinkInv
    <3> HIDE DEF Harmless
    <3> QED
      BY <2>2, <2>6, <2>7, <2>10, <3>1, <3>2 DEF saveNewDocument
  <2>11. CASE deleteDocument(t)
    <3>1. /\ Plain("delDoc.delete") /\ Plain("delDoc.scan") /\ Plain("delDoc.unlink")
          /\ Plain("delDoc.meta") /\ Plain(Return(t))
      BY DEF Return, RemovePCs, DeletePCs
    <3>2. DocumentCentroidKeys(ad[t]) \subseteq BackKeys \cup DeadLinks
      BY <2>1 DEF DocumentCentroidKeys, BackKeys
    <3> HIDE DEF Plain, Harmless
    <3> QED
      BY <2>2, <2>6, <2>7, <2>8, <2>9, <2>11, <3>1, <3>2 DEF deleteDocument
  <2>12. CASE createNewCentroid(t) \/ saveCentroid(t) \/ setCentroidMetadata(t)
    <3>1. Plain("idle") /\ Plain("newCen.put")
      BY DEF RemovePCs, DeletePCs
    <3> HIDE DEF Plain, Harmless
    <3> QED
      BY <2>2, <2>6, <2>7, <2>12, <3>1 DEF createNewCentroid, saveCentroid, setCentroidMetadata
  <2>13. CASE deleteCentroid(t)
    <3>1. ac[t] \in deleted
      BY <2>13 DEF deleteCentroid, Exists, Delete, Scan, DeleteEach, LinkInv, DeletePCs
    <3>2. /\ Plain("delCen.delete") /\ Plain("delCen.scan") /\ Plain("delCen.unlink")
          /\ Plain("delCen.meta") /\ Plain("idle")
      BY <3>1 DEF RemovePCs, DeletePCs
    <3>3. CentroidDocumentKeys(ac[t]) \subseteq BackKeys \cup DeadLinks
      BY <2>1, <3>1 DEF CentroidDocumentKeys, DeadLinks
    <3> HIDE DEF Plain, Harmless
    <3> QED
      BY <2>2, <2>6, <2>7, <2>8, <2>9, <2>13, <3>2, <3>3 DEF deleteCentroid
  <2>14. CASE addDocumentToCentroid(t)
    <3>1. Plain("idle") /\ Plain("add.document") /\ Plain("add.linked") /\ Plain("add.put")
      BY DEF RemovePCs, DeletePCs
    <3>2. CASE Put(t, "add.put", CentroidDocumentKey(ac[t], ad[t]), "add.back")
      <4>1. \A c \in Centroids, d \in Docs :
               /\ CentroidDocumentKey(c, d) \in db => CentroidDocumentKey(c, d) \in db'
               /\ DocumentCentroidKey(d, c) \in db' <=> DocumentCentroidKey(d, c) \in db
        BY <3>2, KeysDiffer DEF Put
      <4>2. CentroidDocumentKey(ac[t], ad[t]) \in db'
        BY <3>2 DEF Put
      <4> QED
        BY <2>1, <2>3, <2>4, <3>2, <4>1, <4>2
        DEF Put, Goto, LinkInv, BackLinkHasLink, TypeOK, RemovePCs, DeletePCs
    <3>3. CASE Put(t, "add.back", DocumentCentroidKey(ad[t], ac[t]), "idle")
      <4>1. ac[t] \notin deleted => CentroidDocumentKey(ac[t], ad[t]) \in db
        BY <3>3 DEF Put, LinkInv
      <4>2. \A u \in Threads : pc[u] \notin RemovePCs
        BY <3>3 DEF Put, LinkInv, Single, RemovePCs
      <4>3. ASSUME NEW c \in Centroids \ deleted, NEW d \in Docs,
                   DocumentCentroidKey(d, c) \in db'
            PROVE  CentroidDocumentKey(c, d) \in db'
        <5>1. db' = db \cup {DocumentCentroidKey(ad[t], ac[t])}
          BY <3>3 DEF Put
        <5>2. CASE DocumentCentroidKey(d, c) \in db
          BY <5>1, <5>2 DEF LinkInv, BackLinkHasLink
        <5>3. CASE DocumentCentroidKey(d, c) = DocumentCentroidKey(ad[t], ac[t])
          <6>1. c = ac[t] /\ d = ad[t]
            BY <5>3, KeysDiffer
          <6> QED
            BY <4>1, <5>1, <6>1
        <5> QED
          BY <4>3, <5>1, <5>2, <5>3
      <4>4. BackLinkHasLink'
        BY <2>3, <4>3 DEF BackLinkHasLink
      <4> QED
        BY <2>3, <2>4, <3>3, <4>2, <4>4 DEF Put, Goto, LinkInv, TypeOK, RemovePCs, DeletePCs
    <3> HIDE DEF Plain
    <3> QED
      BY <2>6, <2>14, <3>1, <3>2, <3>3 DEF addDocumentToCentroid
  <2>15. CASE removeDocumentFromCentroid(t)
    <3>1. Single
      BY <2>15 DEF removeDocumentFromCentroid, Exists, Delete, LinkInv, RemovePCs
    <3>2. Plain("idle") /\ Plain("rem.document") /\ Plain("rem.back")
      BY <3>1 DEF DeletePCs
    <3>3. CASE Delete(t, "rem.back", DocumentCentroidKey(ad[t], ac[t]), "rem.exists")
      <4>1. \A c \in Centroids, d \in Docs :
               /\ CentroidDocumentKey(c, d) \in db' <=> CentroidDocumentKey(c, d) \in db
               /\ DocumentCentroidKey(d, c) \in db' => DocumentCentroidKey(d, c) \in db
        BY <3>3, KeysDiffer DEF Delete
      <4>2. DocumentCentroidKey(ad[t], ac[t]) \notin db'
        BY <3>3 DEF Delete
      <4> QED
        BY <2>3, <2>4, <3>1, <3>3, <4>1, <4>2
        DEF Delete, Goto, LinkInv, BackLinkHasLink, TypeOK, Single, DeletePCs
    <3>4. CASE Exists(t, "rem.exists", CentroidDocumentKey(ac[t], ad[t]), "rem.delete", "idle")
      <4>1. pc' = [pc EXCEPT ![t] = "rem.delete"] \/ pc' = [pc EXCEPT ![t] = "idle"]
        BY <3>4 DEF Exists, Goto
      <4> QED
        BY <2>4, <3>1, <3>4, <4>1
        DEF Exists, LinkInv, BackLinkHasLink, TypeOK, Single, DeletePCs
    <3>5. CASE Delete(t, "rem.delete", CentroidDocumentKey(ac[t], ad[t]), "idle")
      <4>1. DocumentCentroidKey(ad[t], ac[t]) \notin db
        BY <3>5 DEF Delete, LinkInv
      <4>2. BackLinkHasLink'
        BY <2>3, <3>5, <4>1, KeysDiffer DEF Delete, LinkInv, BackLinkHasLink
      <4> QED
        BY <2>3, <2>4, <3>1, <3>5, <4>2 DEF Delete, Goto, LinkInv, TypeOK, Single, DeletePCs
    <3> HIDE DEF Plain
    <3> QED
      BY <2>6, <2>15, <3>2, <3>3, <3>4, <3>5 DEF removeDocumentFromCentroid
  <2>16. CASE deleteOldUnusedDocuments(t)
    <3>1. PICK l \in {"idle", "gc.next", "gc.age", "delDoc.exists"} :
             pc' = [pc EXCEPT ![t] = l]
      BY <2>16 DEF deleteOldUnusedDocuments, GcScan, GcNext, GcAge, GcCount, Goto
    <3>2. db' = db /\ todo' = todo
      BY <2>16 DEF deleteOldUnusedDocuments, GcScan, GcNext, GcAge, GcCount
    <3>3. \A u \in Threads \ {t} : ad'[u] = ad[u]
      BY <2>16 DEF deleteOldUnusedDocuments, GcScan, GcNext, GcAge, GcCount, TypeOK
    <3>4. Plain(l)
      BY <3>1 DEF RemovePCs, DeletePCs
    <3> HIDE DEF Plain
    <3> QED
      BY <2>5, <3>1, <3>2, <3>3, <3>4 DEF LinkInv
  <2> QED
    BY <1>2, <2>10, <2>11, <2>12, <2>13, <2>14, <2>15, <2>16 DEF Step
<1>3. ASSUME NEW d \in Docs, Age(d)
      PROVE  LinkInv'
    BY <1>3 DEF Age, LinkInv, BackLinkHasLink, DeadLinks
<1>4. CASE Crash
    BY <1>4 DEF Crash, LinkInv, BackLinkHasLink, RemovePCs, DeletePCs
<1>5. CASE UNCHANGED vars
    BY <1>5 DEF vars, LinkInv, BackLinkHasLink, DeadLinks
<1> QED
    BY <1>1, <1>2, <1>3, <1>4, <1>5 DEF Next

\* A document is never counted as used by a centroid that does not have it,
\* unless a client has deleted it, for any number of threads and crashes at any
\* point, as long as removals of documents from centroids do not run in parallel
\* with other operations.
THEOREM BackLinksAreLinks ==
    ASSUME Undisturbed
    PROVE  Spec => []BackLinkHasLink
<1>1. Init => LinkInv
    BY DEF Init, LinkInv, BackLinkHasLink, RemovePCs, DeletePCs
<1>2. LinkInv => BackLinkHasLink
    BY DEF LinkInv
<1>3. TypeOK /\ LinkInv /\ [Next]_vars => LinkInv'
    BY NextLinks
<1> QED
    BY <1>1, <1>2, <1>3, TypeCorrect, PTL DEF Spec

(***************************************************************************)
(* LinksAgree and LinkedExist speak of the store between operations, hence *)
(* of what an operation that has the store to itself still owes: an add    *)
(* its second put, a remove its second delete, a deletion of a centroid    *)
(* the links its iterator has not visited.  The clean-up takes documents   *)
(* to which no link leads back, so that no centroid lists them.            *)
(***************************************************************************)
OneAtATime == Single /\ ~Crashes

GcPCs == {"gc.scan", "gc.next", "gc.age", "gc.count"}
DeleteDocPCs == {"delDoc.exists", "delDoc.delete", "delDoc.scan", "delDoc.unlink", "delDoc.meta"}

\* What a thread knows at its next call.
ThreadInv(t) ==
    /\ pc[t] \in GcPCs => op[t] = "deleteOldUnusedDocuments"
    /\ pc[t] \in DeleteDocPCs /\ op[t] # "deleteOldUnusedDocuments" => ad[t] \in deleted
    /\ pc[t] \in DeleteDocPCs \cup {"gc.age"} /\ op[t] = "deleteOldUnusedDocuments" =>
            \A c \in Centroids : DocumentCentroidKey(ad[t], c) \notin db
    /\ pc[t] = "delDoc.unlink" =>
            todo[t] \subseteq {DocumentCentroidKey(ad[t], c) : c \in Centroids}
    /\ pc[t] = "delCen.unlink" =>
            todo[t] \subseteq {CentroidDocumentKey(ac[t], d) : d \in Docs}
    /\ pc[t] \in {"add.document", "add.linked", "add.put", "add.back"} => CentroidKey(ac[t]) \in db
    /\ pc[t] \in {"add.linked", "add.put", "add.back"} => DocumentKey(ad[t]) \in db

\* The centroid of a link exists, or its deletion will come to the link.
HasCentroid(c, d) ==
    \/ CentroidKey(c) \in db
    \/ \E t \in Threads :
         /\ ac[t] = c
         /\ \/ pc[t] = "delCen.scan"
            \/ pc[t] = "delCen.unlink" /\ CentroidDocumentKey(c, d) \in todo[t]

HasBackLink(c, d) ==
    \/ DocumentCentroidKey(d, c) \in db
    \/ \E t \in Threads : ac[t] = c /\ ad[t] = d /\ pc[t] \in {"add.back", "rem.exists", "rem.delete"}

ListInv ==
    /\ \A t \in Threads : ThreadInv(t)
    /\ \A c \in Centroids, d \in Docs : CentroidDocumentKey(c, d) \in db =>
          /\ HasCentroid(c, d)
          /\ d \notin deleted => DocumentKey(d) \in db /\ HasBackLink(c, d)

LEMMA KeysApart ==
    ASSUME NEW c, NEW d, NEW e, NEW f
    PROVE  /\ DocumentKey(d) # CentroidKey(c)
           /\ DocumentKey(d) # CreatedTimeKey(f) /\ DocumentKey(d) # MetadataKey(c)
           /\ CentroidKey(c) # CreatedTimeKey(d) /\ CentroidKey(c) # MetadataKey(e)
           /\ DocumentKey(d) = DocumentKey(f) => d = f
           /\ CentroidKey(c) = CentroidKey(e) => c = e
BY DEF DocumentKey, CentroidKey, CreatedTimeKey, MetadataKey

\* Every call of the store keeps ListInv, when operations run one at a time.
LEMMA NextList ==
    ASSUME OneAtATime, TypeOK, ListInv, [Next]_vars
    PROVE  ListInv'
<1>1. ASSUME NEW t \in Threads, NEW o \in Ops, NEW c \in Centroids, NEW d \in Docs,
             Call(t, o, c, d)
      PROVE  ListInv'
  <2>1. Threads = {t} /\ o \in OpNames
    BY PersistenceAssumption DEF OneAtATime, Single
  <2>2. /\ FirstStep[o] \in GcPCs => o = "deleteOldUnusedDocuments"
        /\ FirstStep[o] \in DeleteDocPCs => o = "deleteDocument"
        /\ FirstStep[o] \notin {"gc.age", "delDoc.unlink", "delCen.scan", "delCen.unlink"}
        /\ FirstStep[o] \notin {"add.document", "add.linked", "add.put", "add.back"}
    BY <2>1 DEF FirstStep, OpNames, GcPCs, DeleteDocPCs
  <2>3. /\ pc[t] = "idle" /\ pc'[t] = FirstStep[o] /\ op'[t] = o /\ ac'[t] = c /\ ad'[t] = d
        /\ db' = db /\ todo' = todo /\ deleted \subseteq deleted'
        /\ o = "deleteDocument" => d \in deleted'
    BY <1>1 DEF Call, Goto, TypeOK
  <2>4. ThreadInv(t)'
    BY <2>2, <2>3 DEF ThreadInv
  <2>5. \A e \in Centroids, f \in Docs : CentroidDocumentKey(e, f) \in db =>
           /\ CentroidKey(e) \in db
           /\ f \notin deleted => DocumentKey(f) \in db /\ DocumentCentroidKey(f, e) \in db
    BY <2>1, <2>3 DEF ListInv, HasCentroid, HasBackLink
  <2> QED
    BY <2>1, <2>3, <2>4, <2>5 DEF ListInv, HasCentroid, HasBackLink
<1>2. ASSUME NEW t \in Threads, Step(t)
      PROVE  ListInv'
  <2>1. Threads = {t} /\ ac[t] \in Centroids /\ ad[t] \in Docs /\ pc[t] \in PCs
    BY DEF OneAtATime, Single, TypeOK
  <2>2. ThreadInv(t)
    BY DEF ListInv
  <2>3. ASSUME NEW c \in Centroids, NEW d \in Docs
        PROVE  /\ HasCentroid(c, d) <=>
                    \/ CentroidKey(c) \in db
                    \/ ac[t] = c /\ pc[t] = "delCen.scan"
                    \/ ac[t] = c /\ pc[t] = "delCen.unlink" /\ CentroidDocumentKey(c, d) \in todo[t]
               /\ HasBackLink(c, d) <=>
                    \/ DocumentCentroidKey(d, c) \in db
                    \/ ac[t] = c /\ ad[t] = d /\ pc[t] \in {"add.back", "rem.exists", "rem.delete"}
               /\ HasCentroid(c, d)' <=>
                    \/ CentroidKey(c) \in db'
                    \/ ac'[t] = c /\ pc'[t] = "delCen.scan"
                    \/ ac'[t] = c /\ pc'[t] = "delCen.unlink" /\ CentroidDocumentKey(c, d) \in todo'[t]
               /\ HasBackLink(c, d)' <=>
                    \/ DocumentCentroidKey(d, c) \in db'
                    \/ ac'[t] = c /\ ad'[t] = d /\ pc'[t] \in {"add.back", "rem.exists", "rem.delete"}
    BY <2>1 DEF HasCentroid, HasBackLink
  <2>4. ASSUME ThreadInv(t)',
               \A c \in Centroids, d \in Docs : CentroidDocumentKey(c, d) \in db' =>
                  /\ HasCentroid(c, d)'
                  /\ d \notin deleted' => DocumentKey(d) \in db' /\ HasBackLink(c, d)'
        PROVE  ListInv'
    BY <2>1, <2>4 DEF ListInv
  <2>5. CASE saveNewDocument(t)
    <3>1. ThreadInv(t)'
      BY <2>1, <2>2, <2>5, KeysDiffer, KeysApart
      DEF ThreadInv, saveNewDocument, Exists, Put, Goto, TypeOK, GcPCs, DeleteDocPCs
    <3>2. ASSUME NEW c \in Centroids, NEW d \in Docs, CentroidDocumentKey(c, d) \in db'
          PROVE  /\ HasCentroid(c, d)'
                 /\ d \notin deleted' => DocumentKey(d) \in db' /\ HasBackLink(c, d)'
      BY <2>1, <2>3, <2>5, <3>2, KeysDiffer
      DEF ListInv, saveNewDocument, Exists, Put, Goto, TypeOK
    <3> QED
      BY <2>4, <3>1, <3>2
  <2>6. CASE deleteDocument(t)
    <3>1. ThreadInv(t)'
      BY <2>1, <2>2, <2>6, KeysDiffer, KeysApart
      DEF ThreadInv, deleteDocument, Exists, Delete, Scan, DeleteEach, Return, Goto, TypeOK,
          GcPCs, DeleteDocPCs, DocumentCentroidKeys
    <3>2. ASSUME NEW c \in Centroids, NEW d \in Docs, CentroidDocumentKey(c, d) \in db'
          PROVE  /\ HasCentroid(c, d)'
                 /\ d \notin deleted' => DocumentKey(d) \in db' /\ HasBackLink(c, d)'
      BY <2>1, <2>2, <2>3, <2>6, <3>2, KeysDiffer, KeysApart
      DEF ThreadInv, ListInv, deleteDocument, Exists, Delete, Scan, DeleteEach, Return, Goto,
          TypeOK, DeleteDocPCs
    <3> QED
      BY <2>4, <3>1, <3>2
  <2>7. CASE createNewCentroid(t) \/ saveCentroid(t) \/ setCentroidMetadata(t)
    <3>1. ThreadInv(t)'
      BY <2>1, <2>2, <2>7, KeysDiffer, KeysApart
      DEF ThreadInv, createNewCentroid, saveCentroid, setCentroidMetadata, Exists, Put, Goto,
          TypeOK, GcPCs, DeleteDocPCs
    <3>2. ASSUME NEW c \in Centroids, NEW d \in Docs, CentroidDocumentKey(c, d) \in db'
          PROVE  /\ HasCentroid(c, d)'
                 /\ d \notin deleted' => DocumentKey(d) \in db' /\ HasBackLink(c, d)'
      BY <2>1, <2>3, <2>7, <3>2, KeysDiffer
      DEF ListInv, createNewCentroid, saveCentroid, setCentroidMetadata, Exists, Put, Goto, TypeOK
    <3> QED
      BY <2>4, <3>1, <3>2
  <2>8. CASE deleteCentroid(t)
    <3>1. ThreadInv(t)'
      BY <2>1, <2>2, <2>8, KeysDiffer, KeysApart
      DEF ThreadInv, deleteCentroid, Exists, Delete, Scan, DeleteEach, Goto, TypeOK, GcPCs,
          DeleteDocPCs, CentroidDocumentKeys
    <3>2. ASSUME NEW c \in Centroids, NEW d \in Docs, CentroidDocumentKey(c, d) \in db'
          PROVE  /\ HasCentroid(c, d)'
                 /\ d \notin deleted' => DocumentKey(d) \in db' /\ HasBackLink(c, d)'
      BY <2>1, <2>2, <2>3, <2>8, <3>2, KeysDiffer, KeysApart
      DEF ThreadInv, ListInv, deleteCentroid, Exists, Delete, Scan, DeleteEach, Goto, TypeOK,
          CentroidDocumentKeys
    <3> QED
      BY <2>4, <3>1, <3>2
  <2>9. CASE addDocumentToCentroid(t)
    <3>1. ThreadInv(t)'
      BY <2>1, <2>2, <2>9, KeysDiffer, KeysApart
      DEF ThreadInv, addDocumentToCentroid, Exists, Put, Goto, TypeOK, GcPCs, DeleteDocPCs
    <3>2. ASSUME NEW c \in Centroids, NEW d \in Docs, CentroidDocumentKey(c, d) \in db'
          PROVE  /\ HasCentroid(c, d)'
                 /\ d \notin deleted' => DocumentKey(d) \in db' /\ HasBackLink(c, d)'
      <4>1. CASE Put(t, "add.put", CentroidDocumentKey(ac[t], ad[t]), "add.back")
        <5>1. CASE c = ac[t] /\ d = ad[t]
          BY <2>2, <2>3, <4>1, <5>1 DEF ThreadInv, Put, Goto, TypeOK
        <5>2. CASE c # ac[t] \/ d # ad[t]
          <6>1. CentroidDocumentKey(c, d) \in db
            BY <3>2, <4>1, <5>2, KeysDiffer DEF Put
          <6> QED
            BY <2>3, <4>1, <6>1 DEF ListInv, Put, Goto, TypeOK
        <5> QED
          BY <5>1, <5>2
      <4>2. CASE Put(t, "add.back", DocumentCentroidKey(ad[t], ac[t]), "idle")
        <5>1. CentroidDocumentKey(c, d) \in db
          BY <3>2, <4>2, KeysDiffer DEF Put
        <5> QED
          BY <2>3, <4>2, <5>1 DEF ListInv, Put, Goto, TypeOK
      <4> QED
        BY <2>3, <2>9, <3>2, <4>1, <4>2 DEF ListInv, addDocumentToCentroid, Exists, Goto, TypeOK
    <3> QED
      BY <2>4, <3>1, <3>2
  <2>10. CASE removeDocumentFromCentroid(t)
    <3>1. ThreadInv(t)'
      BY <2>1, <2>2, <2>10, KeysDiffer, KeysApart
      DEF ThreadInv, removeDocumentFromCentroid, Exists, Delete, Goto, TypeOK, GcPCs, DeleteDocPCs
    <3>2. ASSUME NEW c \in Centroids, NEW d \in Docs, CentroidDocumentKey(c, d) \in db'
          PROVE  /\ HasCentroid(c, d)'
                 /\ d \notin deleted' => DocumentKey(d) \in db' /\ HasBackLink(c, d)'
      BY <2>1, <2>2, <2>3, <2>10, <3>2, KeysDiffer, KeysApart
      DEF ThreadInv, ListInv, removeDocumentFromCentroid, Exists, Delete, Goto, TypeOK
    <3> QED
      BY <2>4, <3>1, <3>2
  <2>11. CASE deleteOldUnusedDocuments(t)
    <3>1. ThreadInv(t)'
      BY <2>1, <2>2, <2>11
      DEF ThreadInv, deleteOldUnusedDocuments, GcScan, GcNext, GcAge, GcCount, Goto, TypeOK,
          GcPCs, DeleteDocPCs, isDocumentInAnyCentroid, DocumentCentroidKeys
    <3>2. ASSUME NEW c \in Centroids, NEW d \in Docs, CentroidDocumentKey(c, d) \in db'
          PROVE  /\ HasCentroid(c, d)'
                 /\ d \notin deleted' => DocumentKey(d) \in db' /\ HasBackLink(c, d)'
      BY <2>1, <2>3, <2>11, <3>2
      DEF ListInv, deleteOldUnusedDocuments, GcScan, GcNext, GcAge, GcCount, Goto, TypeOK
    <3> QED
      BY <2>4, <3>1, <3>2
  <2> QED
    BY <1>2, <2>5, <2>6, <2>7, <2>8, <2>9, <2>10, <2>11 DEF Step
<1>3. ASSUME NEW d \in Docs, Age(d)
      PROVE  ListInv'
    BY <1>3 DEF Age, ListInv, ThreadInv, HasCentroid, HasBackLink
<1>4. ~Crash
    BY DEF Crash, OneAtATime
<1>5. CASE UNCHANGED vars
    BY <1>5 DEF vars, ListInv, ThreadInv, HasCentroid, HasBackLink
<1> QED
    BY <1>1, <1>2, <1>3, <1>4, <1>5 DEF Next

LEMMA ListInvariant ==
    ASSUME OneAtATime
    PROVE  Spec => []ListInv
<1>1. Init => ListInv
    BY DEF Init, ListInv, ThreadInv, GcPCs, DeleteDocPCs
<1>2. TypeOK /\ ListInv /\ [Next]_vars => ListInv'
    BY NextList
<1> QED
    BY <1>1, <1>2, TypeCorrect, PTL DEF Spec

\* What a centroid lists exists between operations that run one at a time and are not
\* interrupted, for any ids and whatever the clean-up takes.
THEOREM ListedExist ==
    ASSUME OneAtATime
    PROVE  Spec => []LinkedExist
<1>1. ListInv => LinkedExist
    BY DEF ListInv, LinkedExist, Idle, HasCentroid, HasBackLink
<1> QED
    BY <1>1, ListInvariant, PTL

\* Between such operations the two directions of the links agree, for ids that clients have not
\* deleted: the clean-up sees exactly the documents in use.
THEOREM LinksInBothDirections ==
    ASSUME OneAtATime
    PROVE  Spec => []LinksAgree
<1>1. Undisturbed
    BY DEF OneAtATime, Undisturbed
<1>2. ListInv /\ BackLinkHasLink => LinksAgree
    BY DEF ListInv, BackLinkHasLink, LinksAgree, Idle, HasBackLink
<1> QED
    BY <1>1, <1>2, ListInvariant, BackLinksAreLinks, PTL

=============================================================================
