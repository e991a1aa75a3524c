---------------------------- MODULE DocumentStore ----------------------------
(***************************************************************************)
(* What SyncPersistence promises of its store, without keys: which         *)
(* documents and centroids exist, which documents a centroid lists, and    *)
(* which centroids a document is used by.  The two relations are kept      *)
(* apart because a deletion removes the links of one direction only.       *)
(***************************************************************************)
CONSTANTS DocIds, CentroidIds

VARIABLES documents, centroids, members, users

vars == <<documents, centroids, members, users>>

Init ==
    /\ documents = {} /\ centroids = {}
    /\ members = [c \in CentroidIds |-> {}]
    /\ users = [d \in DocIds |-> {}]

saveDocument(d) ==
    /\ documents' = documents \cup {d}
    /\ UNCHANGED <<centroids, members, users>>

deleteDocument(d) ==
    /\ d \in documents
    /\ documents' = documents \ {d}
    /\ users' = [users EXCEPT ![d] = {}]
    /\ UNCHANGED <<centroids, members>>

createNewCentroid(c) ==
    /\ centroids' = centroids \cup {c}
    /\ UNCHANGED <<documents, members, users>>

deleteCentroid(c) ==
    /\ c \in centroids
    /\ centroids' = centroids \ {c}
    /\ members' = [members EXCEPT ![c] = {}]
    /\ UNCHANGED <<documents, users>>

addDocumentToCentroid(c, d) ==
    /\ c \in centroids /\ d \in documents \ members[c]
    /\ members' = [members EXCEPT ![c] = @ \cup {d}]
    /\ users' = [users EXCEPT ![d] = @ \cup {c}]
    /\ UNCHANGED <<documents, centroids>>

removeDocumentFromCentroid(c, d) ==
    /\ c \in centroids /\ d \in documents
    /\ members' = [members EXCEPT ![c] = @ \ {d}]
    /\ users' = [users EXCEPT ![d] = @ \ {c}]
    /\ UNCHANGED <<documents, centroids>>

Next ==
    \/ \E d \in DocIds : saveDocument(d) \/ deleteDocument(d)
    \/ \E c \in CentroidIds : createNewCentroid(c) \/ deleteCentroid(c)
    \/ \E c \in CentroidIds, d \in DocIds :
          addDocumentToCentroid(c, d) \/ removeDocumentFromCentroid(c, d)

Spec == Init /\ [][Next]_vars
=============================================================================
