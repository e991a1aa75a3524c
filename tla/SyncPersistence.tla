-------------------------- MODULE SyncPersistence --------------------------
(***************************************************************************)
(* SyncPersistence and RockHandle of src/src/persistence: documents,       *)
(* centroids and the links between them as keys of a RocksDB store.        *)
(*                                                                         *)
(* Persistence.cpp runs every operation on a pool of threads with no       *)
(* locking between them, so that an operation is a sequence of single      *)
(* calls of the store which interleave with those of other operations;     *)
(* the process may crash between any two of them.  Values are abstracted   *)
(* to the presence of their key, and the created_time of a document to     *)
(* whether it is older than the minimum age of the clean-up.               *)
(***************************************************************************)
EXTENDS FiniteSets

CONSTANTS Centroids,   \* ids of centroids
          Docs,        \* ids of documents
          Threads,     \* threads of the pool of Persistence.cpp
          Ops,         \* operations that clients call
          Crashes      \* whether the process may crash and restart

OpNames == {"saveNewDocument", "deleteDocument", "createNewCentroid", "deleteCentroid",
            "saveCentroid", "addDocumentToCentroid", "removeDocumentFromCentroid",
            "setCentroidMetadata", "deleteOldUnusedDocuments"}

ASSUME PersistenceAssumption == Ops \subseteq OpNames /\ Crashes \in BOOLEAN

VARIABLES db,     \* keys in the store
          old,    \* documents created before the clean-up's cutoff
          op,     \* the operation each thread executes
          pc,     \* its next call of the store, or "idle"
          ac, ad, \* its arguments centroidId and documentId
          todo,   \* keys its iterator has still to visit
          queue,  \* documents the clean-up has still to visit
          deleted \* ids of documents and centroids that clients have deleted

vars == <<db, old, op, pc, ac, ad, todo, queue, deleted>>

(***************************************************************************)
(* Keys: getDocumentKey, getCentroidKey, getCentroidDocumentKey,           *)
(* getDocumentCentroidKey, getDocumentMetadataKey, getCentroidMetadataKey  *)
(***************************************************************************)
DocumentKey(d) == <<"documents", d>>
CentroidKey(c) == <<"centroids", c>>
CentroidDocumentKey(c, d) == <<"centroid_document", c, d>>
DocumentCentroidKey(d, c) == <<"document_centroid", d, c>>
CreatedTimeKey(d) == <<"document_metadata", d>>
MetadataKey(c) == <<"centroid_metadata", c>>

Keys == {DocumentKey(d) : d \in Docs} \cup {CentroidKey(c) : c \in Centroids}
        \cup {CentroidDocumentKey(c, d) : c \in Centroids, d \in Docs}
        \cup {DocumentCentroidKey(d, c) : d \in Docs, c \in Centroids}
        \cup {CreatedTimeKey(d) : d \in Docs} \cup {MetadataKey(c) : c \in Centroids}

\* What iterPrefix visits for getCentroidDocumentPrefix and
\* getDocumentCentroidsPrefix, in the state the iterator is opened in.
CentroidDocumentKeys(c) == {CentroidDocumentKey(c, d) : d \in Docs} \cap db
DocumentCentroidKeys(d) == {DocumentCentroidKey(d, c) : c \in Centroids} \cap db

isDocumentInAnyCentroid(d) == DocumentCentroidKeys(d) # {}

PCs == {"idle", "newDoc.exists", "newDoc.put", "newDoc.created",
        "delDoc.exists", "delDoc.delete", "delDoc.scan", "delDoc.unlink", "delDoc.meta",
        "newCen.exists", "newCen.put", "save.put", "meta.put",
        "delCen.exists", "delCen.delete", "delCen.scan", "delCen.unlink", "delCen.meta",
        "add.centroid", "add.document", "add.linked", "add.put", "add.back",
        "rem.centroid", "rem.document", "rem.back", "rem.exists", "rem.delete",
        "gc.scan", "gc.next", "gc.age", "gc.count"}

TypeOK ==
    /\ db \subseteq Keys
    /\ old \subseteq Docs
    /\ op \in [Threads -> OpNames]
    /\ pc \in [Threads -> PCs]
    /\ ac \in [Threads -> Centroids]
    /\ ad \in [Threads -> Docs]
    /\ todo \in [Threads -> SUBSET Keys]
    /\ queue \in [Threads -> SUBSET Docs]
    /\ deleted \subseteq Docs \cup Centroids

\* An empty store and an idle pool; the arguments are those of the first calls.
Init ==
    /\ db = {}
    /\ old = {}
    /\ op = [t \in Threads |-> "saveNewDocument"]
    /\ pc = [t \in Threads |-> "idle"]
    /\ \E c \in Centroids : ac = [t \in Threads |-> c]
    /\ \E d \in Docs : ad = [t \in Threads |-> d]
    /\ todo = [t \in Threads |-> {}]
    /\ queue = [t \in Threads |-> {}]
    /\ deleted = {}

(***************************************************************************)
(* Single calls of RockHandle                                              *)
(***************************************************************************)
Goto(t, label) == pc' = [pc EXCEPT ![t] = label]

\* exists(key), and the test of del(key) that precedes its Delete.
Exists(t, here, key, yes, no) ==
    /\ pc[t] = here
    /\ Goto(t, IF key \in db THEN yes ELSE no)
    /\ UNCHANGED <<db, old, op, ac, ad, todo, queue, deleted>>

Put(t, here, key, next) ==
    /\ pc[t] = here
    /\ db' = db \cup {key}
    /\ Goto(t, next)
    /\ UNCHANGED <<old, op, ac, ad, todo, queue, deleted>>

Delete(t, here, key, next) ==
    /\ pc[t] = here
    /\ db' = db \ {key}
    /\ Goto(t, next)
    /\ UNCHANGED <<old, op, ac, ad, todo, queue, deleted>>

\* An iterator sees the store as it was when it was opened.
Scan(t, here, keys, next) ==
    /\ pc[t] = here
    /\ todo' = [todo EXCEPT ![t] = keys]
    /\ Goto(t, next)
    /\ UNCHANGED <<db, old, op, ac, ad, queue, deleted>>

\* The iteration calls del(key) for one key after the other.
DeleteEach(t, here, next) ==
    /\ pc[t] = here
    /\ IF todo[t] = {}
         THEN Goto(t, next) /\ UNCHANGED <<db, todo>>
         ELSE \E key \in todo[t] :
                /\ db' = db \ {key}
                /\ todo' = [todo EXCEPT ![t] = @ \ {key}]
                /\ UNCHANGED pc
    /\ UNCHANGED <<old, op, ac, ad, queue, deleted>>

(***************************************************************************)
(* Operations                                                              *)
(***************************************************************************)
FirstStep == [saveNewDocument |-> "newDoc.exists", deleteDocument |-> "delDoc.exists",
              createNewCentroid |-> "newCen.exists", deleteCentroid |-> "delCen.exists",
              saveCentroid |-> "save.put", addDocumentToCentroid |-> "add.centroid",
              removeDocumentFromCentroid |-> "rem.centroid",
              setCentroidMetadata |-> "meta.put",
              deleteOldUnusedDocuments |-> "gc.scan"]

\* Persistence.cpp hands the call to a thread of the pool.
Call(t, o, c, d) ==
    /\ pc[t] = "idle"
    /\ op' = [op EXCEPT ![t] = o]
    /\ ac' = [ac EXCEPT ![t] = c]
    /\ ad' = [ad EXCEPT ![t] = d]
    /\ Goto(t, FirstStep[o])
    /\ deleted' = deleted \cup CASE o = "deleteDocument" -> {d}
                                 [] o = "deleteCentroid" -> {c}
                                 [] OTHER -> {}
    /\ UNCHANGED <<db, old, todo, queue>>

\* saveDocument puts the document before its created_time, which is now.
saveNewDocument(t) ==
    \/ Exists(t, "newDoc.exists", DocumentKey(ad[t]), "idle", "newDoc.put")
    \/ Put(t, "newDoc.put", DocumentKey(ad[t]), "newDoc.created")
    \/ /\ pc[t] = "newDoc.created"
       /\ db' = db \cup {CreatedTimeKey(ad[t])}
       /\ old' = old \ {ad[t]}
       /\ Goto(t, "idle")
       /\ UNCHANGED <<op, ac, ad, todo, queue, deleted>>

\* Where deleteDocument returns to: its caller may be the clean-up.
Return(t) == IF op[t] = "deleteOldUnusedDocuments" THEN "gc.count" ELSE "idle"

deleteDocument(t) ==
    \/ Exists(t, "delDoc.exists", DocumentKey(ad[t]), "delDoc.delete", Return(t))
    \/ Delete(t, "delDoc.delete", DocumentKey(ad[t]), "delDoc.scan")
    \/ Scan(t, "delDoc.scan", DocumentCentroidKeys(ad[t]), "delDoc.unlink")
    \/ DeleteEach(t, "delDoc.unlink", "delDoc.meta")
    \/ Delete(t, "delDoc.meta", CreatedTimeKey(ad[t]), Return(t))

createNewCentroid(t) ==
    \/ Exists(t, "newCen.exists", CentroidKey(ac[t]), "idle", "newCen.put")
    \/ Put(t, "newCen.put", CentroidKey(ac[t]), "idle")

deleteCentroid(t) ==
    \/ Exists(t, "delCen.exists", CentroidKey(ac[t]), "delCen.delete", "idle")
    \/ Delete(t, "delCen.delete", CentroidKey(ac[t]), "delCen.scan")
    \/ Scan(t, "delCen.scan", CentroidDocumentKeys(ac[t]), "delCen.unlink")
    \/ DeleteEach(t, "delCen.unlink", "delCen.meta")
    \/ Delete(t, "delCen.meta", MetadataKey(ac[t]), "idle")

\* The updater stores a centroid without looking whether it is there.
saveCentroid(t) == Put(t, "save.put", CentroidKey(ac[t]), "idle")

setCentroidMetadata(t) == Put(t, "meta.put", MetadataKey(ac[t]), "idle")

\* Mutant: the two puts are swapped.
addBackFirst(t) ==
    \/ Exists(t, "add.centroid", CentroidKey(ac[t]), "add.document", "idle")
    \/ Exists(t, "add.document", DocumentKey(ad[t]), "add.linked", "idle")
    \/ Exists(t, "add.linked", CentroidDocumentKey(ac[t], ad[t]), "idle", "add.put")
    \/ Put(t, "add.put", DocumentCentroidKey(ad[t], ac[t]), "add.back")
    \/ Put(t, "add.back", CentroidDocumentKey(ac[t], ad[t]), "idle")

addDocumentToCentroid(t) ==
    \/ Exists(t, "add.centroid", CentroidKey(ac[t]), "add.document", "idle")
    \/ Exists(t, "add.document", DocumentKey(ad[t]), "add.linked", "idle")
    \/ Exists(t, "add.linked", CentroidDocumentKey(ac[t], ad[t]), "idle", "add.put")
    \/ Put(t, "add.put", CentroidDocumentKey(ac[t], ad[t]), "add.back")
    \/ Put(t, "add.back", DocumentCentroidKey(ad[t], ac[t]), "idle")

\* Mutant: the link from the document is left behind.
removeOneWay(t) ==
    \/ Exists(t, "rem.centroid", CentroidKey(ac[t]), "rem.document", "idle")
    \/ Exists(t, "rem.document", DocumentKey(ad[t]), "rem.exists", "idle")
    \/ Exists(t, "rem.exists", CentroidDocumentKey(ac[t], ad[t]), "rem.delete", "idle")
    \/ Delete(t, "rem.delete", CentroidDocumentKey(ac[t], ad[t]), "idle")

removeDocumentFromCentroid(t) ==
    \/ Exists(t, "rem.centroid", CentroidKey(ac[t]), "rem.document", "idle")
    \/ Exists(t, "rem.document", DocumentKey(ad[t]), "rem.back", "idle")
    \/ Delete(t, "rem.back", DocumentCentroidKey(ad[t], ac[t]), "rem.exists")
    \/ Exists(t, "rem.exists", CentroidDocumentKey(ac[t], ad[t]), "rem.delete", "idle")
    \/ Delete(t, "rem.delete", CentroidDocumentKey(ac[t], ad[t]), "idle")

\* Mutants: the clean-up takes the keys of its iterator for ids; it does not
\* look whether a document is in use.
GcScanKeys(t) ==
    /\ pc[t] = "gc.scan"
    /\ queue' = [queue EXCEPT ![t] = {DocumentKey(d) : d \in Docs} \cap db]
    /\ Goto(t, "gc.next")
    /\ UNCHANGED <<db, old, op, ac, ad, todo, deleted>>

GcNextUsed(t) ==
    /\ pc[t] = "gc.next"
    /\ \E d \in queue[t] :
         /\ ad' = [ad EXCEPT ![t] = d]
         /\ queue' = [queue EXCEPT ![t] = @ \ {d}]
    /\ Goto(t, "gc.age")
    /\ UNCHANGED <<db, old, op, ac, todo, deleted>>

\* The clean-up visits the documents its iterator saw (gc.scan) and deletes
\* those in no centroid (gc.next) that are old or have no created_time (gc.age),
\* until it has deleted as many as its caller's limit, if any (gc.count).
GcScan(t) ==
    /\ pc[t] = "gc.scan"
    /\ queue' = [queue EXCEPT ![t] = {d \in Docs : DocumentKey(d) \in db}]
    /\ Goto(t, "gc.next")
    /\ UNCHANGED <<db, old, op, ac, ad, todo, deleted>>

GcNext(t) ==
    /\ pc[t] = "gc.next"
    /\ IF queue[t] = {}
         THEN Goto(t, "idle") /\ UNCHANGED <<ad, queue>>
         ELSE \E d \in queue[t] :
                /\ ad' = [ad EXCEPT ![t] = d]
                /\ queue' = [queue EXCEPT ![t] = @ \ {d}]
                /\ Goto(t, IF isDocumentInAnyCentroid(d) THEN "gc.next" ELSE "gc.age")
    /\ UNCHANGED <<db, old, op, ac, todo, deleted>>

GcAge(t) ==
    /\ pc[t] = "gc.age"
    /\ Goto(t, IF CreatedTimeKey(ad[t]) \notin db \/ ad[t] \in old
               THEN "delDoc.exists" ELSE "gc.next")
    /\ UNCHANGED <<db, old, op, ac, ad, todo, queue, deleted>>

GcCount(t) ==
    /\ pc[t] = "gc.count"
    /\ \/ Goto(t, "gc.next") /\ UNCHANGED queue
       \/ Goto(t, "idle") /\ queue' = [queue EXCEPT ![t] = {}]
    /\ UNCHANGED <<db, old, op, ac, ad, todo, deleted>>

deleteOldUnusedDocuments(t) == GcScan(t) \/ GcNext(t) \/ GcAge(t) \/ GcCount(t)

\* A document's created_time falls behind the cutoff.
Age(d) ==
    /\ CreatedTimeKey(d) \in db
    /\ d \notin old
    /\ old' = old \cup {d}
    /\ UNCHANGED <<db, op, pc, ac, ad, todo, queue, deleted>>

\* The process dies and starts again on the same store.
Crash ==
    /\ Crashes
    /\ \E t \in Threads : pc[t] # "idle"
    /\ pc' = [t \in Threads |-> "idle"]
    /\ todo' = [t \in Threads |-> {}]
    /\ queue' = [t \in Threads |-> {}]
    /\ UNCHANGED <<db, old, op, ac, ad, deleted>>

Step(t) ==
    \/ saveNewDocument(t) \/ deleteDocument(t)
    \/ createNewCentroid(t) \/ deleteCentroid(t) \/ saveCentroid(t) \/ setCentroidMetadata(t)
    \/ addDocumentToCentroid(t) \/ removeDocumentFromCentroid(t)
    \/ deleteOldUnusedDocuments(t)

Next ==
    \/ \E t \in Threads : \E o \in Ops, c \in Centroids, d \in Docs : Call(t, o, c, d)
    \/ \E t \in Threads : Step(t)
    \/ \E d \in Docs : Age(d)
    \/ Crash

Spec == Init /\ [][Next]_vars

(***************************************************************************)
(* Properties                                                              *)
(***************************************************************************)
Idle == \A t \in Threads : pc[t] = "idle"

\* The order of the two puts of an add and of the two deletes of a remove:
\* a document is never counted as used by a centroid that does not have it,
\* not even after a crash between the two, unless the centroid was deleted.
BackLinkHasLink ==
    \A c \in Centroids \ deleted, d \in Docs :
        DocumentCentroidKey(d, c) \in db => CentroidDocumentKey(c, d) \in db

\* Between operations the two directions of the links agree, so that the
\* clean-up and listUnusedDocuments see exactly the documents in use, for ids
\* that clients have not deleted.
LinksAgree ==
    Idle => \A c \in Centroids \ deleted, d \in Docs \ deleted :
        DocumentCentroidKey(d, c) \in db <=> CentroidDocumentKey(c, d) \in db

\* What a centroid lists exists, whatever the history of operations and of the
\* clean-up, which takes documents without asking for the links to them: the
\* documents, unless a client has deleted them, and the centroid itself, so
\* that the listCentroidDocument... operations report a deleted one as missing.
LinkedExist ==
    Idle => \A c \in Centroids, d \in Docs :
        CentroidDocumentKey(c, d) \in db =>
            /\ CentroidKey(c) \in db
            /\ DocumentKey(d) \in db \/ {c, d} \cap deleted # {}

=============================================================================
