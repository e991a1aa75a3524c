------------------------ MODULE RelevanceServerProofs ------------------------
(***************************************************************************)
(* Proofs about RelevanceServer for any ids, requests, items and times.    *)
(***************************************************************************)
EXTENDS RelevanceServer, FiniteSetTheorems, WellFoundedInduction, TLAPS

Steps == {"document", "link", "write", "then", "links", "metadata"}
PCs == Steps \cup {"none", "pool", "waiting", "reload", "done"}
UPCs == {"idle", "list", "check", "save", "echo"}
Results == Exceptions \cup {"none", "true", "false"}

\* An item that is worked on belongs to a request that was received; only a change that was made
\* has a timestamp to put.
ItemOK(i) ==
    /\ pc[i] = "done" <=> result[i] # "none"
    /\ pc[i] # "none" => i \in ItemsOf(i[1])
    /\ pc[i] \in {"document", "link", "then"} => Op(i) \in {"add", "remove"}
    /\ pc[i] \in {"links", "metadata"} => Op(i) = "deleteCentroid" /\ Id(i) \in deleted
    /\ pc[i] \in {"waiting", "reload"} => Op(i) = "join"
    /\ i \in asked => pc[i] # "none" /\ Op(i) = "join"
    /\ putChange[i] # None => pc[i] = "done"

\* An update that is under way has started.
UpdateOK(c) == upc[c] \in {"list", "check", "save"} => ustart[c] # None

\* TypeOK with the types of the other variables.
Types ==
    /\ TypeOK
    /\ now \in Nat \ {0}
    /\ call \in Seq(Calls)
    /\ pc \in [Items -> PCs] /\ stamps \in [Items -> [Stamps -> Int]]
    /\ asked \subseteq Items /\ triggered \subseteq Centroids
    /\ upc \in [Centroids -> UPCs]
    /\ ustart \in [Centroids -> 0..now] /\ useen \in [Centroids -> Nat]
    /\ changes \in [Centroids -> Nat] /\ saved \in [Centroids -> Nat]
    /\ \A i \in Items : ItemOK(i)
    /\ \A c \in Centroids : UpdateOK(c)

(***************************************************************************)
(* A change that an update has not seen was made after the update started, *)
(* so that its timestamp, taken later still, is not older than the start:  *)
(* it is still to be taken, about to be put, or in the store, unless an    *)
(* older one has overwritten it (reordered).                               *)
(***************************************************************************)
irregular == deleted \cup replaced \cup reordered

Late(c, start) ==
    \/ \E i \in Items : /\ pc[i] # "none" /\ Of(i) = c
                        /\ pc[i] = "then" \/ (putChange[i] # None /\ putChange[i] >= start)
    \/ metadata[c]["lastDocumentChange"] >= start

\* The starts of the updates that were saved and are, or may get, in the store.
Starts(c) == putCalculated[c] \cup ({metadata[c]["lastCalculated"]} \ {None})

StampOK(c) ==
    /\ upc[c] \in {"check", "save"} /\ useen[c] # changes[c] => Late(c, ustart[c])
    /\ upc[c] \in {"list", "check", "save"} => \A t \in Starts(c) : t <= ustart[c]
    /\ saved[c] # changes[c] => \A t \in Starts(c) : Late(c, t)

StampInv == \A c \in Centroids \ irregular : StampOK(c)

(***************************************************************************)
(* The changes that were made: their items are successful, or have their   *)
(* continuation still to run.  Where no two items were about to write the  *)
(* link at once, the one that is finds what it has looked up.              *)
(***************************************************************************)
Made(op, c, d) ==
    {i \in Items : /\ i \in ItemsOf(i[1])
                   /\ Op(i) = op /\ Of(i) = c /\ Id(i) = d
                   /\ result[i] = "true" \/ pc[i] = "then"}

Member(c, d) == IF d \in members[c] THEN 1 ELSE 0

\* The books of a centroid and a document balance.
Balance(c, d) ==
    Cardinality(Made("add", c, d)) - Cardinality(Made("remove", c, d)) = Member(c, d)

\* What an item looked up is so when it writes, and it is the only one to write.
Alone(c, d) ==
    \A i \in Writers(c, d) :
        /\ d \in members[c] <=> Op(i) = "remove"
        /\ \A j \in Writers(c, d) : j = i

Books(c, d) ==
    /\ <<c, d>> \notin raced => Balance(c, d) /\ Alone(c, d)
    /\ d \in members[c] => Made("add", c, d) # {}
    /\ Made("add", c, d) # {} /\ Made("remove", c, d) = {} => d \in members[c]

AccountInv ==
    /\ \A c \in Centroids \ deleted, d \in Docs : Books(c, d)
    /\ \A q \in Requests : reply[q] # "none" =>
          q \in 1..sent /\ \A i \in ItemsOf(q) : pc[i] = "done"

-----------------------------------------------------------------------------
\* An item that is worked on has a request, and its id is of the kind that the operation takes.
LEMMA CallTypes ==
    ASSUME Types, NEW i \in Items, i \in ItemsOf(i[1])
    PROVE  /\ i[1] \in 1..sent /\ i[2] \in 1..Len(call[i[1]].ids)
           /\ call[i[1]] \in Calls /\ call[i[1]].ignore \subseteq Exceptions
           /\ Op(i) \in Operations /\ Of(i) \in Centroids /\ Id(i) \in IdsOf(Op(i))
<1>1. i[1] \in 1..sent /\ i[2] \in 1..MaxItems /\ i[2] <= Len(call[i[1]].ids)
    BY ServerAssumption DEF Items, Requests, ItemsOf, Types, TypeOK
<1>2. call[i[1]] \in Calls
    BY <1>1 DEF Types, TypeOK
<1>3. /\ call[i[1]].op \in Operations /\ call[i[1]].of \in Centroids
      /\ call[i[1]].ignore \subseteq Exceptions
      /\ call[i[1]].ids \in Seq(IdsOf(call[i[1]].op))
    BY <1>2, ServerAssumption
<1>4. i[2] \in 1..Len(call[i[1]].ids)
    BY <1>1, <1>3, ServerAssumption
<1> QED
    BY <1>1, <1>2, <1>3, <1>4 DEF Op, Of, Id

\* The steps that receive no request leave the requests alone.
LEMMA SameCalls ==
    ASSUME UNCHANGED <<call, sent>>
    PROVE  /\ \A q : ItemsOf(q)' = ItemsOf(q)
           /\ \A i : Op(i)' = Op(i) /\ Of(i)' = Of(i) /\ Id(i)' = Id(i)
BY DEF ItemsOf, Op, Of, Id

\* A request that is received leaves the items of earlier ones alone.
LEMMA EarlierCalls ==
    ASSUME Types, NEW request \in Calls, receive(request), NEW i \in Items, i \in ItemsOf(i[1])
    PROVE  i \in ItemsOf(i[1])' /\ Op(i)' = Op(i) /\ Of(i)' = Of(i) /\ Id(i)' = Id(i)
<1>1. i[1] \in 1..sent
    BY CallTypes
<1>2. call'[i[1]] = call[i[1]] /\ sent' = sent + 1
    BY <1>1 DEF receive, Types, TypeOK
<1>3. i[1] <= sent + 1
    BY <1>1 DEF Types, TypeOK
<1> QED
    BY <1>1, <1>2, <1>3 DEF ItemsOf, Op, Of, Id

\* An exception that is rethrown is the result of an item.
LEMMA FirstExceptionType ==
    ASSUME Types, NEW q \in Requests
    PROVE  FirstException(q) \in Exceptions \cup {"ok"}
<1> DEFINE failed == {i[2] : i \in {j \in ItemsOf(q) : result[j] \in Exceptions}}
<1>1. CASE failed = {}
    BY <1>1 DEF FirstException
<1>2. CASE failed # {}
  <2>1. failed \subseteq Nat
    BY ServerAssumption DEF ItemsOf, Items
  <2>2. \E x \in failed : \A y \in failed : ~(<<y, x>> \in OpToRel(<, Nat))
    BY <1>2, <2>1, NatLessThanWellFounded, WFMin
  <2>3. \E x \in failed : \A y \in failed : x <= y
    <3> HIDE DEF failed
    <3>1. PICK x \in failed : \A y \in failed : ~(<<y, x>> \in OpToRel(<, Nat))
      BY <2>2
    <3>2. \A y \in failed : ~(y < x)
      BY <2>1, <3>1 DEF OpToRel
    <3> QED
      BY <2>1, <3>2
  <2>4. Min(failed) \in failed
    BY <2>3 DEF Min
  <2>5. PICK j \in ItemsOf(q) : result[j] \in Exceptions /\ Min(failed) = j[2]
    BY <2>4
  <2>6. j = <<q, Min(failed)>>
    BY <2>5 DEF ItemsOf, Items
  <2> QED
    BY <1>2, <2>5, <2>6 DEF FirstException
<1> QED
    BY <1>1, <1>2

\* An item that ends: it is done, and has a result.
LEMMA FinishTypes ==
    ASSUME Types, NEW i \in Items, pc[i] \notin {"none", "done"},
           NEW r \in Results \ {"none"}, finish(i, r), UNCHANGED <<call, sent>>,
           asked' \subseteq asked, \A j \in Items : j # i => putChange'[j] = putChange[j],
           deleted \subseteq deleted'
    PROVE  /\ pc' \in [Items -> PCs] /\ result' \in [Items -> Results]
           /\ \A j \in Items : ItemOK(j)'
<1>1. /\ pc' = [pc EXCEPT ![i] = "done"]
      /\ \E x \in Results \ {"none"} : result' = [result EXCEPT ![i] = x]
    BY DEF finish, Results
<1>2. pc' \in [Items -> PCs] /\ result' \in [Items -> Results]
    BY <1>1 DEF Types, TypeOK, PCs, Steps, Results
<1>3. ASSUME NEW j \in Items
      PROVE  ItemOK(j)'
  <2>1. /\ pc'[j] = (IF j = i THEN "done" ELSE pc[j])
        /\ j # i => result'[j] = result[j]
        /\ j = i => result'[j] # "none"
    BY <1>1 DEF Types, TypeOK
  <2>2. ItemOK(j)
    BY DEF Types
  <2>3. pc[j] \in PCs
    BY DEF Types
  <2> QED
    BY <2>1, <2>2, <2>3, SameCalls DEF ItemOK
<1> QED
    BY <1>2, <1>3

\* An item whose task goes on with its next call of the store.
LEMMA GotoTypes ==
    ASSUME Types, NEW i \in Items, pc[i] \notin {"none", "done"}, NEW step \in Steps,
           goto(i, step), UNCHANGED <<call, sent, asked, putChange>>, deleted \subseteq deleted',
           step \in {"document", "link", "then"} => Op(i) \in {"add", "remove"},
           step \in {"links", "metadata"} => Op(i) = "deleteCentroid" /\ Id(i) \in deleted'
    PROVE  /\ pc' \in [Items -> PCs] /\ result' \in [Items -> Results]
           /\ \A j \in Items : ItemOK(j)'
<1>1. pc' = [pc EXCEPT ![i] = step] /\ result' = result
    BY DEF goto
<1>2. pc' \in [Items -> PCs] /\ result' \in [Items -> Results]
    BY <1>1 DEF Types, TypeOK, PCs, Results
<1>3. ASSUME NEW j \in Items
      PROVE  ItemOK(j)'
  <2>1. pc'[j] = (IF j = i THEN step ELSE pc[j]) /\ result'[j] = result[j]
    BY <1>1 DEF Types
  <2>2. ItemOK(j) /\ ItemOK(i) /\ step \notin {"none", "done", "waiting", "reload"}
    BY DEF Types, Steps
  <2> QED
    BY <2>1, <2>2, SameCalls DEF ItemOK
<1> QED
    BY <1>2, <1>3

\* A lookup.
LEMMA CheckTypes ==
    ASSUME Types, NEW i \in Items, pc[i] \notin {"none", "done"}, NEW passes,
           NEW exception \in Exceptions, NEW next \in {"document", "link", "write"},
           check(i, passes, exception, next),
           UNCHANGED <<call, sent, asked, putChange, deleted>>,
           next \in {"document", "link"} => Op(i) \in {"add", "remove"}
    PROVE  /\ pc' \in [Items -> PCs] /\ result' \in [Items -> Results]
           /\ \A j \in Items : ItemOK(j)'
<1>1. exception \in Results \ {"none"} /\ next \in Steps
    BY DEF Results, Exceptions, Steps
<1>2. CASE goto(i, next)
    BY <1>1, <1>2, GotoTypes
<1>3. CASE finish(i, exception)
    BY <1>1, <1>3, FinishTypes
<1> QED
    BY <1>2, <1>3 DEF check

\* Every step of the server keeps the types.
LEMMA NextType == Types /\ [Next]_vars => Types'
<1> SUFFICES ASSUME Types, [Next]_vars
             PROVE  Types'
    OBVIOUS
<1>0. /\ Results = Exceptions \cup {"none", "true", "false"}
      /\ "true" \in Results \ {"none"} /\ "false" \in Results \ {"none"}
      /\ \A e \in Exceptions : e \in Results \ {"none"}
    BY DEF Results, Exceptions
<1>00. (\A j \in Items : ItemOK(j)') => \A j \in Items : pc'[j] = "done" <=> result'[j] # "none"
    BY DEF ItemOK
<1>000. ASSUME NEW c \in Centroids, NEW s \in Stamps, NEW t \in 0..now,
               metadata' = [metadata EXCEPT ![c][s] = t]
        PROVE  metadata' \in [Centroids -> [Stamps -> 0..now]]
  <2>1. metadata[c] \in [Stamps -> 0..now]
    BY DEF Types, TypeOK
  <2>2. [metadata[c] EXCEPT ![s] = t] \in [Stamps -> 0..now]
    BY <2>1
  <2> QED
    BY <1>000, <2>2 DEF Types, TypeOK
<1> USE ServerAssumption DEF store, items, updates, puts, contents, history
<1>1. ASSUME NEW request \in Calls, receive(request)
      PROVE  Types'
  <2>1. sent' = sent + 1 /\ sent' \in 0..MaxRequests /\ call' \in Seq(Calls) /\ Len(call') = sent'
    <3>1. sent \in 0..MaxRequests /\ Len(call) = sent /\ call \in Seq(Calls)
      BY DEF Types, TypeOK
    <3>2. sent' = sent + 1 /\ sent < MaxRequests /\ call' = Append(call, request)
      BY <1>1 DEF receive
    <3>3. call' \in Seq(Calls) /\ Len(call') = Len(call) + 1
      BY <3>1, <3>2
    <3>4. sent' \in 0..MaxRequests
      BY <3>1, <3>2
    <3> QED
      BY <3>1, <3>2, <3>3, <3>4
  <2>2. call'[sent'] = request /\ sent' \in Requests
    BY <1>1, <2>1 DEF receive, Types, TypeOK, Requests
  <2>3. pc' \in [Items -> PCs]
    BY <1>1 DEF receive, Types, PCs, Steps
  <2>4. ASSUME NEW i \in Items
        PROVE  ItemOK(i)'
    <3>1. ItemOK(i)
      BY DEF Types
    <3>2. CASE pc'[i] = pc[i]
      BY <1>1, <3>1, <3>2, EarlierCalls DEF receive, ItemOK
    <3>3. CASE pc'[i] = "pool" /\ i[1] = sent' /\ i[2] <= Len(request.ids)
      <4>1. i \notin ItemsOf(i[1])
        BY <2>1, <3>3 DEF ItemsOf, Types, TypeOK
      <4>2. pc[i] = "none" /\ i \notin asked /\ putChange[i] = None /\ result[i] = "none"
        BY <3>1, <4>1 DEF ItemOK
      <4>3. i \in ItemsOf(i[1])'
        BY <2>1, <2>2, <3>3 DEF ItemsOf
      <4> QED
        BY <1>1, <3>3, <4>2, <4>3 DEF receive, ItemOK
    <3> QED
      BY <1>1, <3>2, <3>3 DEF receive
  <2> QED
    BY <1>00, <1>1, <2>1, <2>3, <2>4 DEF receive, Types, TypeOK, UpdateOK
<1>2. ASSUME NEW i \in Items, createDocumentWithID(i) \/ deleteDocument(i)
      PROVE  Types'
  <2>1. /\ pc[i] \in {"pool", "write"} /\ i \in ItemsOf(i[1])
        /\ Op(i) \in {"createDocument", "deleteDocument"}
    BY <1>2 DEF createDocumentWithID, deleteDocument, At, Types, ItemOK
  <2>2. Id(i) \in Docs
    BY <2>1, CallTypes DEF IdsOf
  <2>3. \/ finish(i, "true")
        \/ check(i, Id(i) \notin documents, "EDocumentAlreadyExists", "write")
        \/ check(i, Id(i) \in documents, "EDocumentDoesNotExist", "write")
    BY <1>2 DEF createDocumentWithID, deleteDocument
  <2>4. /\ pc' \in [Items -> PCs] /\ result' \in [Items -> Results]
        /\ \A j \in Items : ItemOK(j)'
    <3>1. CASE finish(i, "true")
      BY <1>0, <1>2, <2>1, <3>1, FinishTypes DEF createDocumentWithID, deleteDocument
    <3>2. UNCHANGED <<call, sent, asked, putChange, deleted>>
      BY <1>2 DEF createDocumentWithID, deleteDocument
    <3>3. CASE check(i, Id(i) \notin documents, "EDocumentAlreadyExists", "write")
      BY <2>1, <3>2, <3>3, CheckTypes DEF Exceptions
    <3>4. CASE check(i, Id(i) \in documents, "EDocumentDoesNotExist", "write")
      BY <2>1, <3>2, <3>4, CheckTypes DEF Exceptions
    <3> QED
      BY <2>3, <3>1, <3>3, <3>4
  <2>5. documents' \subseteq Docs
    BY <1>2, <2>2 DEF createDocumentWithID, deleteDocument, Types, TypeOK
  <2> QED
    BY <1>0, <1>00, <1>2, <2>4, <2>5 DEF createDocumentWithID, deleteDocument, Types, TypeOK, UpdateOK
<1>3. ASSUME NEW i \in Items, createCentroid(i)
      PROVE  Types'
  <2>1. pc[i] \in {"pool", "write"} /\ i \in ItemsOf(i[1]) /\ Op(i) = "createCentroid"
    BY <1>3 DEF createCentroid, At, Types, ItemOK
  <2>2. Id(i) \in Centroids
    BY <2>1, CallTypes DEF IdsOf
  <2>3. finish(i, "true") \/ \E passes : check(i, passes, "ECentroidAlreadyExists", "write")
    BY <1>3 DEF createCentroid
  <2>4. /\ pc' \in [Items -> PCs] /\ result' \in [Items -> Results]
        /\ \A j \in Items : ItemOK(j)'
    <3>1. CASE finish(i, "true")
      BY <1>0, <1>3, <2>1, <3>1, FinishTypes DEF createCentroid
    <3>2. ASSUME NEW passes, check(i, passes, "ECentroidAlreadyExists", "write")
          PROVE  /\ pc' \in [Items -> PCs] /\ result' \in [Items -> Results]
                 /\ \A j \in Items : ItemOK(j)'
      BY <1>3, <2>1, <3>2, CheckTypes DEF createCentroid, Exceptions
    <3> QED
      BY <2>3, <3>1, <3>2
  <2>5. centroids' \subseteq Centroids /\ saved' \in [Centroids -> Nat]
    <3>1. centroids \subseteq Centroids /\ saved \in [Centroids -> Nat]
      BY DEF Types, TypeOK
    <3>2. \/ UNCHANGED <<centroids, saved>>
          \/ centroids' = centroids \cup {Id(i)} /\ saved' = [saved EXCEPT ![Id(i)] = 0]
      BY <1>3 DEF createCentroid
    <3> QED
      BY <2>2, <3>1, <3>2
  <2> QED
    BY <1>0, <1>00, <1>3, <2>4, <2>5 DEF createCentroid, Types, TypeOK, UpdateOK
<1>4. ASSUME NEW i \in Items, deleteCentroid(i)
      PROVE  Types'
  <2>1. /\ pc[i] \in {"pool", "write", "links", "metadata"} /\ i \in ItemsOf(i[1])
        /\ Op(i) = "deleteCentroid"
        /\ pc[i] \in {"links", "metadata"} => Id(i) \in deleted
    BY <1>4 DEF deleteCentroid, At, Types, ItemOK
  <2>2. Id(i) \in Centroids
    BY <2>1, CallTypes DEF IdsOf
  <2>3. deleted \subseteq deleted' /\ UNCHANGED <<call, sent, asked, putChange>>
    BY <1>4 DEF deleteCentroid
  <2>4. /\ pc' \in [Items -> PCs] /\ result' \in [Items -> Results]
        /\ \A j \in Items : ItemOK(j)'
    <3>1. CASE finish(i, "true")
      BY <1>0, <2>1, <2>3, <3>1, FinishTypes
    <3>2. CASE check(i, Id(i) \in centroids, "ECentroidDoesNotExist", "write") /\ UNCHANGED deleted
      BY <2>1, <2>3, <3>2, CheckTypes DEF Exceptions
    <3>3. CASE goto(i, "links") /\ deleted' = deleted \cup {Id(i)}
      BY <2>1, <2>3, <3>3, GotoTypes DEF Steps
    <3>4. CASE goto(i, "metadata") /\ Id(i) \in deleted
      BY <2>1, <2>3, <3>4, GotoTypes DEF Steps
    <3> QED
      BY <1>4, <2>1, <3>1, <3>2, <3>3, <3>4 DEF deleteCentroid, At
  <2>5. metadata' \in [Centroids -> [Stamps -> 0..now]]
    <3>1. [s \in Stamps |-> None] \in [Stamps -> 0..now]
      BY DEF Types, None
    <3> QED
      BY <1>4, <2>2, <3>1 DEF deleteCentroid, Types, TypeOK
  <2>6. centroids' \subseteq Centroids /\ members' \in [Centroids -> SUBSET Docs]
    BY <1>4, <2>2 DEF deleteCentroid, Types, TypeOK
  <2> QED
    BY <1>0, <1>00, <1>4, <2>4, <2>5, <2>6 DEF deleteCentroid, Types, TypeOK, UpdateOK
<1>20. ASSUME NEW i \in Items, addDocumentToCentroid(i) \/ removeDocumentFromCentroid(i)
      PROVE  Types'
  <2>1. i \in ItemsOf(i[1]) /\ Op(i) \in {"add", "remove"}
    BY <1>20 DEF addDocumentToCentroid, removeDocumentFromCentroid, Running, Types, ItemOK
  <2>2. Id(i) \in Docs /\ Of(i) \in Centroids
    BY <2>1, CallTypes DEF IdsOf
  <2>3. members[Of(i)] \subseteq Docs
    BY <2>2 DEF Types, TypeOK
  <2>4. CASE checkExistence(i)
    <3>1. /\ pc' \in [Items -> PCs] /\ result' \in [Items -> Results]
          /\ \A j \in Items : ItemOK(j)'
      <4>1. CASE pc[i] = "pool" /\ check(i, Of(i) \in centroids, "ECentroidDoesNotExist", "document")
        BY <2>1, <2>4, <4>1, CheckTypes DEF checkExistence, Exceptions
      <4>2. CASE pc[i] = "document" /\ check(i, Id(i) \in documents, "EDocumentDoesNotExist", "link")
        BY <2>1, <2>4, <4>2, CheckTypes DEF checkExistence, Exceptions
      <4> QED
        BY <2>4, <4>1, <4>2 DEF checkExistence
    <3> QED
      BY <1>0, <1>00, <2>4, <3>1 DEF checkExistence, Types, TypeOK, UpdateOK
  <2>5. ASSUME NEW passes, NEW e \in Exceptions, checkLink(i, passes, e)
        PROVE  Types'
    <3>1. /\ pc' \in [Items -> PCs] /\ result' \in [Items -> Results]
          /\ \A j \in Items : ItemOK(j)'
      BY <2>1, <2>5, CheckTypes DEF checkLink
    <3> QED
      BY <1>0, <1>00, <2>5, <3>1 DEF checkLink, Types, TypeOK, UpdateOK
  <2>6. ASSUME NEW after \in SUBSET Docs, changeMembers(i, after)
        PROVE  Types'
    <3>1. /\ pc' \in [Items -> PCs] /\ result' \in [Items -> Results]
          /\ \A j \in Items : ItemOK(j)'
      BY <2>1, <2>6, GotoTypes DEF changeMembers, Steps
    <3> QED
      BY <1>0, <1>00, <2>2, <2>6, <3>1 DEF changeMembers, Types, TypeOK, UpdateOK
  <2>7. members[Of(i)] \cup {Id(i)} \in SUBSET Docs /\ members[Of(i)] \ {Id(i)} \in SUBSET Docs
    BY <2>2, <2>3
  <2>8. "EDocumentAlreadyInCentroid" \in Exceptions /\ "EDocumentNotInCentroid" \in Exceptions
    BY DEF Exceptions
  <2> QED
    BY <1>20, <2>4, <2>5, <2>6, <2>7, <2>8 DEF addDocumentToCentroid, removeDocumentFromCentroid
<1>5. ASSUME NEW i \in Items, afterChange(i)
      PROVE  Types'
  <2>1. pc[i] = "then" /\ i \in ItemsOf(i[1]) /\ finish(i, "true")
    BY <1>5 DEF afterChange, Types, ItemOK
  <2>2. Of(i) \in Centroids
    BY <2>1, CallTypes
  <2>3. /\ pc' \in [Items -> PCs] /\ result' \in [Items -> Results]
        /\ \A j \in Items : ItemOK(j)'
    BY <1>0, <1>5, <2>1, FinishTypes DEF afterChange, Types, TypeOK
  <2>4. putChange' \in [Items -> 0..now]
    BY <1>5 DEF afterChange, Types, TypeOK
  <2> QED
    BY <1>0, <1>00, <1>5, <2>2, <2>3, <2>4 DEF afterChange, Types, TypeOK, UpdateOK
<1>6. ASSUME NEW i \in Items, setLastDocumentChangeTimestamp(i)
      PROVE  Types'
  <2>1. putChange[i] # None /\ pc[i] = "done" /\ Of(i) \in Centroids
    BY <1>6, CallTypes DEF setLastDocumentChangeTimestamp, Types, ItemOK
  <2>2. metadata' \in [Centroids -> [Stamps -> 0..now]] /\ putChange' \in [Items -> 0..now]
    <3>1. putChange[i] \in 0..now /\ "lastDocumentChange" \in Stamps
      BY DEF Types, TypeOK, Stamps
    <3> QED
      BY <1>000, <1>6, <2>1, <3>1 DEF setLastDocumentChangeTimestamp, Types, TypeOK, None
  <2>3. \A j \in Items : ItemOK(j)'
    BY <1>6, SameCalls DEF setLastDocumentChangeTimestamp, Types, TypeOK, ItemOK
  <2> QED
    BY <1>6, <2>1, <2>2, <2>3 DEF setLastDocumentChangeTimestamp, Types, TypeOK, UpdateOK
<1>7. ASSUME NEW c \in Centroids, NEW t \in putCalculated[c], setLastCalculatedTimestamp(c, t)
      PROVE  Types'
  <2>1. metadata' \in [Centroids -> [Stamps -> 0..now]]
    <3>1. t \in 0..now /\ "lastCalculated" \in Stamps
      BY DEF Types, TypeOK, Stamps
    <3> QED
      BY <1>000, <1>7, <3>1 DEF setLastCalculatedTimestamp
  <2>2. \A j \in Items : ItemOK(j)'
    BY <1>7, SameCalls DEF setLastCalculatedTimestamp, Types, ItemOK
  <2> QED
    BY <1>7, <2>1, <2>2 DEF setLastCalculatedTimestamp, Types, TypeOK, UpdateOK
<1>8. ASSUME NEW c \in Centroids, update(c)
      PROVE  /\ upc' \in [Centroids -> UPCs] /\ ustart' \in [Centroids -> 0..now]
             /\ useen' = useen
             /\ \A e \in Centroids : UpdateOK(e)'
    BY <1>8 DEF update, Types, UpdateOK, UPCs, None
<1>9. ASSUME NEW c \in Centroids, deliver(c)
      PROVE  Types'
  <2>1. \A j \in Items : ItemOK(j)'
    BY <1>9, SameCalls DEF deliver, Types, ItemOK
  <2> QED
    BY <1>8, <1>9, <2>1 DEF deliver, Types, TypeOK
<1>10. ASSUME NEW c \in Centroids, listDocuments(c) \/ checkAgain(c)
      PROVE  Types'
  <2>1. \A j \in Items : ItemOK(j)'
    BY <1>10, SameCalls DEF listDocuments, checkAgain, Types, ItemOK
  <2>2. CASE listDocuments(c)
    BY <2>1, <2>2 DEF listDocuments, Types, TypeOK, UpdateOK, UPCs
  <2>3. CASE checkAgain(c)
    BY <2>1, <2>3 DEF checkAgain, Types, TypeOK, UpdateOK, UPCs
  <2> QED
    BY <1>10, <2>2, <2>3
<1>11. ASSUME NEW c \in Centroids, saveCentroid(c)
      PROVE  Types'
  <2>1. \A j \in Items : ItemOK(j)'
    BY <1>11, SameCalls DEF saveCentroid, Types, ItemOK
  <2>2. ustart[c] \in 1..now
    BY <1>11 DEF saveCentroid, Types, UpdateOK, None
  <2> QED
    BY <1>11, <2>1, <2>2 DEF saveCentroid, Types, TypeOK, UpdateOK, UPCs
<1>12. ASSUME NEW c \in Centroids, echoUpdated(c)
      PROVE  Types'
  <2>1. \A j \in Items : ItemOK(j)'
    BY <1>12, SameCalls DEF echoUpdated, Types, ItemOK
  <2> QED
    BY <1>12, <2>1 DEF echoUpdated, Types, TypeOK, UpdateOK, UPCs, PCs, Steps, None
<1>13. ASSUME NEW i \in Items, NEW s \in Stamps, getMetadata(i, s)
      PROVE  Types'
  <2>1. \A j \in Items : ItemOK(j)'
    BY <1>13, SameCalls DEF getMetadata, Types, ItemOK
  <2>2. Id(i) \in Centroids
    BY <1>13, CallTypes DEF getMetadata, At, IdsOf, Types, ItemOK
  <2>3. stamps' \in [Items -> [Stamps -> Int]]
    BY <1>13, <2>2 DEF getMetadata, Types, TypeOK
  <2> QED
    BY <1>13, <2>1, <2>3 DEF getMetadata, Types, TypeOK, UpdateOK
<1>14. ASSUME NEW i \in Items, isCentroidUpToDate(i)
      PROVE  Types'
  <2>1. pc[i] = "pool" /\ i \in ItemsOf(i[1]) /\ Op(i) = "join"
    BY <1>14 DEF isCentroidUpToDate, At, Types, ItemOK
  <2>2. stamps' \in [Items -> [Stamps -> Int]]
    BY <1>14 DEF isCentroidUpToDate, Types, Unread
  <2>3. CASE \E r \in Results \ {"none"} : finish(i, r) /\ UNCHANGED asked
    <3>1. /\ pc' \in [Items -> PCs] /\ result' \in [Items -> Results]
          /\ \A j \in Items : ItemOK(j)'
      BY <1>14, <2>1, <2>3, FinishTypes DEF isCentroidUpToDate
    <3> QED
      BY <1>0, <1>00, <1>14, <2>2, <2>3, <3>1 DEF isCentroidUpToDate, Types, TypeOK, UpdateOK
  <2>4. CASE pc' = [pc EXCEPT ![i] = "waiting"] /\ asked' = asked \cup {i} /\ UNCHANGED result
    <3>1. \A j \in Items : ItemOK(j)'
      BY <1>14, <2>1, <2>4, SameCalls DEF isCentroidUpToDate, Types, ItemOK
    <3> QED
      BY <1>00, <1>14, <2>2, <2>4, <3>1 DEF isCentroidUpToDate, Types, TypeOK, UpdateOK, PCs, Steps
  <2> QED
    BY <1>0, <1>14, <2>3, <2>4 DEF isCentroidUpToDate, Exceptions
<1>15. ASSUME NEW i \in Items, joinUpdate(i)
      PROVE  Types'
  <2>1. Id(i) \in Centroids
    BY <1>15, CallTypes DEF joinUpdate, IdsOf, Types, ItemOK
  <2>2. \A j \in Items : ItemOK(j)'
    BY <1>15, SameCalls DEF joinUpdate, Types, ItemOK
  <2> QED
    BY <1>8, <1>15, <2>1, <2>2 DEF joinUpdate, Types, TypeOK
<1>16. ASSUME NEW i \in Items, joinCentroid(i)
      PROVE  Types'
  <2>1. /\ pc' \in [Items -> PCs] /\ result' \in [Items -> Results]
        /\ \A j \in Items : ItemOK(j)'
    BY <1>0, <1>16, FinishTypes DEF joinCentroid
  <2> QED
    BY <1>0, <1>00, <1>16, <2>1 DEF joinCentroid, Types, TypeOK, UpdateOK
<1>17. ASSUME NEW q \in Requests, respond(q)
      PROVE  Types'
  <2>1. \A j \in Items : ItemOK(j)'
    BY <1>17, SameCalls DEF respond, Types, ItemOK
  <2> QED
    BY <1>17, <2>1, FirstExceptionType DEF respond, Types, TypeOK, UpdateOK
<1>18. CASE tick
  <2>1. \A j \in Items : ItemOK(j)'
    BY <1>18, SameCalls DEF tick, Types, ItemOK
  <2> QED
    BY <1>18, <2>1 DEF tick, Types, TypeOK, UpdateOK
<1>19. CASE UNCHANGED vars
  <2>1. \A j \in Items : ItemOK(j)'
    BY <1>19, SameCalls DEF vars, Types, ItemOK
  <2> QED
    BY <1>19, <2>1 DEF vars, Types, TypeOK, UpdateOK
<1> QED
    BY <1>1, <1>2, <1>3, <1>4, <1>5, <1>6, <1>7, <1>9, <1>10, <1>11, <1>12, <1>13, <1>14, <1>15,
       <1>16, <1>17, <1>18, <1>19, <1>20
    DEF Next, ServerStep, StoreTask, JoinStep, MetadataPut, UpdateStep

LEMMA InitType == Init => Types
<1> SUFFICES ASSUME Init
             PROVE  Types
    OBVIOUS
<1>1. metadata \in [Centroids -> [Stamps -> 0..now]] /\ stamps \in [Items -> [Stamps -> Int]]
    BY DEF Init, None, Unread
<1>2. \A i \in Items : ItemOK(i)
    BY DEF Init, ItemOK, None
<1>3. TypeOK
    BY <1>1, ServerAssumption DEF Init, TypeOK, None
<1> QED
    BY <1>1, <1>2, <1>3 DEF Init, Types, UpdateOK, PCs, Steps, UPCs, None

\* A timestamp is never ahead of the clock, and an item has a result exactly when it is done,
\* whatever requests, updates and metadata puts interleave.
THEOREM TypeCorrect == Spec => []TypeOK
<1>1. Types => TypeOK
    BY DEF Types
<1> QED
    BY <1>1, InitType, NextType, PTL DEF Spec

-----------------------------------------------------------------------------
\* A step of an item's task on the store's pool.
Task(i) ==
    \/ createDocumentWithID(i) \/ deleteDocument(i) \/ createCentroid(i) \/ deleteCentroid(i)
    \/ addDocumentToCentroid(i) \/ removeDocumentFromCentroid(i)

\* It moves its item alone, and only the write of a link leads to a continuation.
LEMMA TaskSteps ==
    ASSUME Types, NEW i \in Items, Task(i)
    PROVE  /\ pc[i] \in {"pool", "document", "link", "write", "links", "metadata"}
           /\ pc'[i] # "none" /\ i \in ItemsOf(i[1])
           /\ \A j \in Items : j # i => pc'[j] = pc[j] /\ result'[j] = result[j]
           /\ UNCHANGED <<call, sent, now, reply, putChange, putCalculated, upc, ustart, useen>>
<1>1. i \in ItemsOf(i[1])
    BY DEF Task, createDocumentWithID, deleteDocument, createCentroid, deleteCentroid, At,
           addDocumentToCentroid, removeDocumentFromCentroid, Running, Types, ItemOK
<1>2. UNCHANGED <<call, sent, now, reply, putChange, putCalculated, upc, ustart, useen>>
    BY DEF Task, createDocumentWithID, deleteDocument, createCentroid, deleteCentroid,
           addDocumentToCentroid, removeDocumentFromCentroid, checkExistence, checkLink,
           changeMembers, puts, updates
<1>3. pc[i] \in {"pool", "document", "link", "write", "links", "metadata"}
    BY DEF Task, createDocumentWithID, deleteDocument, createCentroid, deleteCentroid, At,
           addDocumentToCentroid, removeDocumentFromCentroid, checkExistence, checkLink,
           changeMembers
<1>4. \/ \E r : finish(i, r)
      \/ \E step \in Steps : goto(i, step)
    BY DEF Task, createDocumentWithID, deleteDocument, createCentroid, deleteCentroid,
           addDocumentToCentroid, removeDocumentFromCentroid, checkExistence, checkLink,
           changeMembers, check, Steps
<1>5. \E step \in Steps \cup {"done"} : \E r : /\ pc' = [pc EXCEPT ![i] = step]
                                              /\ result' = [result EXCEPT ![i] = r]
  <2>1. result = [result EXCEPT ![i] = result[i]]
    BY DEF Types, TypeOK
  <2> QED
    BY <1>4, <2>1 DEF finish, goto
<1>6. pc \in [Items -> PCs] /\ result \in [Items -> Results]
    BY DEF Types, TypeOK, Results
<1> QED
    BY <1>1, <1>2, <1>3, <1>5, <1>6 DEF Steps

-----------------------------------------------------------------------------
\* A step that leaves timestamps of changes alone and ends no item with a timestamp to take.
LEMMA LateSame ==
    ASSUME NEW c \in Centroids, NEW start, Late(c, start), UNCHANGED <<call, sent, putChange>>,
           \A j \in Items : /\ pc[j] = "then" => pc'[j] = "then"
                            /\ pc[j] # "none" => pc'[j] # "none",
           metadata'[c]["lastDocumentChange"] = metadata[c]["lastDocumentChange"]
    PROVE  Late(c, start)'
BY SameCalls DEF Late

\* The task that deletes the metadata of a centroid has deleted the centroid.
LEMMA DeletedMetadata ==
    ASSUME Types, NEW i \in Items, Task(i), NEW c \in Centroids \ deleted'
    PROVE  /\ metadata'[c] = metadata[c]
           /\ Op(i) \notin {"add", "remove"} => members'[c] = members[c]
<1>1. CASE deleteCentroid(i)
  <2>1. pc[i] \in {"links", "metadata"} => Id(i) \in deleted
    BY DEF Types, ItemOK
  <2>2. deleted \subseteq deleted'
    BY <1>1 DEF deleteCentroid
  <2> QED
    BY <1>1, <2>1, <2>2 DEF deleteCentroid, At, Types, TypeOK
<1>2. CASE createDocumentWithID(i) \/ deleteDocument(i) \/ createCentroid(i)
    BY <1>2 DEF createDocumentWithID, deleteDocument, createCentroid
<1>3. CASE addDocumentToCentroid(i) \/ removeDocumentFromCentroid(i)
    BY <1>3 DEF addDocumentToCentroid, removeDocumentFromCentroid, Running, checkExistence,
                checkLink, changeMembers
<1> QED
    BY <1>1, <1>2, <1>3 DEF Task

\* A change that comes later than the start of an update keeps a timestamp that says so.
LEMMA LateKept ==
    ASSUME Types, [Next]_vars, NEW c \in Centroids \ irregular', NEW start \in 1..now,
           Late(c, start)
    PROVE  Late(c, start)'
<1> USE DEF store, items, updates, puts, contents, history
<1>0. ASSUME NEW i \in Items, NEW r, pc[i] # "then", finish(i, r)
      PROVE  \A j \in Items : /\ pc[j] = "then" => pc'[j] = "then"
                              /\ pc[j] # "none" => pc'[j] # "none"
    BY <1>0 DEF finish, Types
<1>1. ASSUME NEW request \in Calls, receive(request)
      PROVE  Late(c, start)'
  <2>1. CASE metadata[c]["lastDocumentChange"] >= start
    BY <1>1, <2>1 DEF receive, Late
  <2>2. ASSUME NEW i \in Items, pc[i] # "none", Of(i) = c,
               pc[i] = "then" \/ (putChange[i] # None /\ putChange[i] >= start)
        PROVE  Late(c, start)'
    <3>1. i \in ItemsOf(i[1])
      BY <2>2 DEF Types, ItemOK
    <3>2. Of(i)' = Of(i) /\ i[1] \in 1..sent
      BY <1>1, <3>1, CallTypes, EarlierCalls
    <3>3. i[1] # sent'
      BY <1>1, <3>2 DEF receive, Types, TypeOK
    <3> QED
      BY <1>1, <2>2, <3>2, <3>3 DEF receive, Late
  <2> QED
    BY <2>1, <2>2 DEF Late
<1>2. ASSUME NEW i \in Items, Task(i)
      PROVE  Late(c, start)'
  <2>1. /\ UNCHANGED <<call, sent, putChange>>
        /\ \A j \in Items : /\ pc[j] = "then" => pc'[j] = "then"
                            /\ pc[j] # "none" => pc'[j] # "none"
    BY <1>2, TaskSteps
  <2>2. metadata'[c] = metadata[c]
    BY <1>2, DeletedMetadata DEF irregular
  <2> QED
    BY <2>1, <2>2, LateSame
<1>6. ASSUME NEW i \in Items, afterChange(i)
      PROVE  Late(c, start)'
  <2>1. /\ putChange' = [putChange EXCEPT ![i] = now] /\ pc' = [pc EXCEPT ![i] = "done"]
        /\ metadata' = metadata /\ \A j : Of(j)' = Of(j)
    BY <1>6, SameCalls DEF afterChange, finish
  <2>2. now # None /\ now >= start
    BY DEF Types, None
  <2> QED
    BY <2>1, <2>2 DEF Late, Types, TypeOK
<1>7. ASSUME NEW i \in Items, setLastDocumentChangeTimestamp(i)
      PROVE  Late(c, start)'
  <2>0. /\ putChange[i] # None /\ Of(i) \in Centroids /\ pc' = pc
        /\ putChange' = [putChange EXCEPT ![i] = None] /\ \A j : Of(j)' = Of(j)
    BY <1>7, CallTypes, SameCalls DEF setLastDocumentChangeTimestamp, Types, ItemOK
  <2>1. metadata' = [metadata EXCEPT ![Of(i)]["lastDocumentChange"] = putChange[i]]
    BY <1>7 DEF setLastDocumentChangeTimestamp
  <2>2. Of(i) = c => /\ metadata'[c]["lastDocumentChange"] = putChange[i]
                     /\ ~(metadata[c]["lastDocumentChange"] > putChange[i])
    BY <1>7, <2>0, <2>1 DEF irregular, setLastDocumentChangeTimestamp, Types, TypeOK, Stamps
  <2>3. Of(i) # c => metadata'[c] = metadata[c]
    BY <2>0, <2>1 DEF Types, TypeOK
  <2>4. putChange[i] \in Nat /\ metadata[c]["lastDocumentChange"] \in Nat
    BY DEF Types, TypeOK, Stamps
  <2> QED
    BY <2>0, <2>2, <2>3, <2>4 DEF Late, Types, TypeOK
<1>8. ASSUME NEW e \in Centroids, NEW t, setLastCalculatedTimestamp(e, t)
      PROVE  Late(c, start)'
  <2>1. metadata'[c]["lastDocumentChange"] = metadata[c]["lastDocumentChange"]
    BY <1>8 DEF setLastCalculatedTimestamp, Types, TypeOK, Stamps
  <2> QED
    BY <1>8, <2>1, LateSame DEF setLastCalculatedTimestamp
<1>9. ASSUME NEW e \in Centroids, deliver(e) \/ listDocuments(e) \/ checkAgain(e) \/ saveCentroid(e)
      PROVE  Late(c, start)'
    BY <1>9, LateSame DEF deliver, listDocuments, checkAgain, saveCentroid
<1>10. ASSUME NEW e \in Centroids, echoUpdated(e)
      PROVE  Late(c, start)'
    BY <1>10, LateSame DEF echoUpdated
<1>11. ASSUME NEW i \in Items, NEW s \in Stamps, getMetadata(i, s) \/ joinUpdate(i)
      PROVE  Late(c, start)'
    BY <1>11, LateSame DEF getMetadata, joinUpdate
<1>12. ASSUME NEW i \in Items, isCentroidUpToDate(i)
      PROVE  Late(c, start)'
    BY <1>0, <1>12, LateSame DEF isCentroidUpToDate, At, Types
<1>13. ASSUME NEW i \in Items, joinCentroid(i)
      PROVE  Late(c, start)'
    BY <1>0, <1>13, LateSame DEF joinCentroid
<1>14. ASSUME NEW q \in Requests, respond(q)
      PROVE  Late(c, start)'
    BY <1>14, LateSame DEF respond
<1>15. CASE tick \/ UNCHANGED vars
    BY <1>15, LateSame DEF tick, vars
<1> QED
    BY <1>1, <1>2, <1>6, <1>7, <1>8, <1>9, <1>10, <1>11, <1>12, <1>13, <1>14, <1>15
    DEF Next, ServerStep, StoreTask, Task, JoinStep, MetadataPut, UpdateStep, Stamps

\* Irregular centroids stay so.
LEMMA IrregularStays ==
    [Next]_vars => irregular \subseteq irregular' /\ deleted \subseteq deleted'
BY DEF Next, ServerStep, StoreTask, JoinStep, MetadataPut, UpdateStep, vars, history, irregular,
       receive, createDocumentWithID, deleteDocument, createCentroid, deleteCentroid,
       addDocumentToCentroid, removeDocumentFromCentroid, checkExistence, checkLink, changeMembers,
       afterChange, setLastDocumentChangeTimestamp, setLastCalculatedTimestamp, deliver,
       listDocuments, checkAgain, saveCentroid, echoUpdated, getMetadata, isCentroidUpToDate,
       joinUpdate, joinCentroid, respond, tick

\* Starts are times.
LEMMA StartsType ==
    ASSUME Types, NEW c \in Centroids
    PROVE  Starts(c) \subseteq 1..now
BY DEF Types, TypeOK, Starts, Stamps, None

\* A step that changes neither the contents of a centroid nor its updates.
LEMMA StampSame ==
    ASSUME Types, StampInv, [Next]_vars, NEW c \in Centroids \ irregular',
           upc'[c] = upc[c] /\ ustart'[c] = ustart[c] /\ useen'[c] = useen[c],
           changes'[c] = changes[c] /\ saved'[c] \in {saved[c], changes[c]},
           Starts(c)' \subseteq Starts(c)
    PROVE  StampOK(c)'
<1>1. StampOK(c)
    BY IrregularStays DEF StampInv
<1>2. \A start \in 1..now : Late(c, start) => Late(c, start)'
    BY LateKept
<1>3. Starts(c) \subseteq 1..now
    BY StartsType
<1>4. ASSUME upc'[c] \in {"check", "save"}, useen'[c] # changes'[c]
      PROVE  Late(c, ustart[c])'
  <2>1. PICK u \in 1..now : u = ustart[c]
    BY <1>4 DEF Types, UpdateOK, None
  <2>2. Late(c, u)'
    BY <1>1, <1>2, <1>4, <2>1 DEF StampOK
  <2> QED
    BY <2>1, <2>2 DEF Late
<1>5. \A t \in Starts(c)' : saved'[c] # changes'[c] => Late(c, t)'
    BY <1>1, <1>2, <1>3 DEF StampOK
<1> QED
    BY <1>1, <1>4, <1>5 DEF StampOK

\* Every step keeps StampInv.
LEMMA NextStamp ==
    ASSUME Types, StampInv, [Next]_vars
    PROVE  StampInv'
<1> SUFFICES ASSUME NEW c \in Centroids \ irregular'
             PROVE  StampOK(c)'
    BY DEF StampInv
<1>0. StampOK(c) /\ c \in Centroids \ irregular
    BY IrregularStays DEF StampInv
<1>1. \A start \in 1..now : Late(c, start) => Late(c, start)'
    BY LateKept
<1>2. Starts(c) \subseteq 1..now
    BY StartsType
<1> USE DEF store, items, updates, puts, contents, history
<1>3. ASSUME UNCHANGED <<upc, ustart, useen, contents, putCalculated, metadata>>
      PROVE  StampOK(c)'
    BY <1>3, StampSame DEF Starts
<1>4. ASSUME NEW i \in Items, createCentroid(i)
      PROVE  StampOK(c)'
  <2>1. saved'[c] = saved[c]
    BY <1>4 DEF createCentroid, irregular, Types
  <2> QED
    BY <1>4, <2>1, StampSame DEF createCentroid, Starts
<1>5. ASSUME NEW i \in Items, deleteCentroid(i)
      PROVE  StampOK(c)'
  <2>1. metadata'[c] = metadata[c]
    BY <1>5, DeletedMetadata DEF Task, irregular
  <2> QED
    BY <1>5, <2>1, StampSame DEF deleteCentroid, Starts
<1>6. ASSUME NEW i \in Items, i \in ItemsOf(i[1]), NEW after, changeMembers(i, after)
      PROVE  StampOK(c)'
  <2>1. Of(i) \in Centroids
    BY <1>6, CallTypes
  <2>2. Starts(c)' = Starts(c)
    BY <1>6 DEF changeMembers, Starts
  <2>3. CASE Of(i) # c
    BY <1>6, <2>2, <2>3, StampSame DEF changeMembers, Types
  <2>4. CASE Of(i) = c
    <3>1. pc'[i] = "then" /\ Of(i)' = c
      BY <1>6, <2>4, SameCalls DEF changeMembers, goto, Types
    <3>2. \A t : Late(c, t)'
      BY <3>1 DEF Late
    <3>3. Late(c, ustart[c])'
      BY <3>1 DEF Late
    <3> QED
      BY <1>0, <1>6, <2>2, <3>2, <3>3 DEF StampOK, changeMembers
  <2> QED
    BY <2>3, <2>4
<1>7. ASSUME NEW i \in Items, addDocumentToCentroid(i) \/ removeDocumentFromCentroid(i)
      PROVE  StampOK(c)'
  <2>1. i \in ItemsOf(i[1])
    BY <1>7, TaskSteps DEF Task
  <2>2. CASE \E after : changeMembers(i, after)
    BY <1>6, <2>1, <2>2
  <2>3. CASE checkExistence(i) \/ \E passes, e : checkLink(i, passes, e)
    BY <1>3, <2>3 DEF checkExistence, checkLink
  <2> QED
    BY <1>7, <2>2, <2>3 DEF addDocumentToCentroid, removeDocumentFromCentroid
<1>8. ASSUME NEW i \in Items, setLastDocumentChangeTimestamp(i)
      PROVE  StampOK(c)'
  <2>1. Of(i) \in Centroids
    BY <1>8, CallTypes DEF setLastDocumentChangeTimestamp, Types, ItemOK
  <2>2. metadata'[c]["lastCalculated"] = metadata[c]["lastCalculated"]
    BY <1>8, <2>1 DEF setLastDocumentChangeTimestamp, Types, TypeOK, Stamps
  <2> QED
    BY <1>8, <2>2, StampSame DEF setLastDocumentChangeTimestamp, Starts
<1>9. ASSUME NEW e \in Centroids, NEW t \in putCalculated[e], setLastCalculatedTimestamp(e, t)
      PROVE  StampOK(c)'
  <2>1. CASE e # c
    BY <1>9, <2>1, StampSame DEF setLastCalculatedTimestamp, Starts, Types, TypeOK
  <2>2. CASE e = c
    <3>1. /\ metadata'[c]["lastCalculated"] = t
          /\ putCalculated'[c] = putCalculated[c] \ {t}
      BY <1>9, <2>2 DEF setLastCalculatedTimestamp, Types, TypeOK, Stamps
    <3>2. Starts(c)' \subseteq Starts(c)
      BY <2>2, <3>1 DEF Starts
    <3> QED
      BY <1>9, <3>2, StampSame DEF setLastCalculatedTimestamp
  <2> QED
    BY <2>1, <2>2
<1>10. ASSUME NEW e \in Centroids, update(e), UNCHANGED <<contents, putCalculated, metadata>>
      PROVE  StampOK(c)'
  <2>1. CASE upc'[c] = upc[c] /\ ustart'[c] = ustart[c]
    BY <1>10, <2>1, StampSame DEF update, Starts
  <2>2. CASE upc'[c] = "list" /\ ustart'[c] = now
    <3>1. \A t \in Starts(c)' : t <= ustart'[c]
      BY <1>2, <1>10, <2>2 DEF Starts, Types
    <3>2. Starts(c)' = Starts(c)
      BY <1>10 DEF Starts
    <3>3. saved'[c] # changes'[c] => \A t \in Starts(c)' : Late(c, t)'
      BY <1>0, <1>1, <1>2, <1>10, <3>2 DEF StampOK
    <3> QED
      BY <2>2, <3>1, <3>3 DEF StampOK
  <2> QED
    BY <1>10, <2>1, <2>2 DEF update, Types
<1>11. ASSUME NEW e \in Centroids, deliver(e)
      PROVE  StampOK(c)'
    BY <1>10, <1>11 DEF deliver
<1>12. ASSUME NEW i \in Items, joinUpdate(i)
      PROVE  StampOK(c)'
  <2>1. Id(i) \in Centroids
    BY <1>12, CallTypes DEF joinUpdate, IdsOf, Types, ItemOK
  <2> QED
    BY <1>10, <1>12, <2>1 DEF joinUpdate
<1>13. ASSUME NEW e \in Centroids, listDocuments(e)
      PROVE  StampOK(c)'
  <2>1. Starts(c)' = Starts(c)
    BY <1>13 DEF listDocuments, Starts
  <2>2. CASE e # c
    BY <1>13, <2>1, <2>2, StampSame DEF listDocuments, Types
  <2>3. CASE e = c
    <3>1. useen'[c] = changes'[c] /\ ustart'[c] = ustart[c] /\ upc[c] = "list"
      BY <1>13, <2>3 DEF listDocuments, Types
    <3>2. saved'[c] # changes'[c] => \A t \in Starts(c)' : Late(c, t)'
      BY <1>0, <1>1, <1>2, <1>13, <2>1 DEF StampOK, listDocuments
    <3> QED
      BY <1>0, <2>1, <3>1, <3>2 DEF StampOK
  <2> QED
    BY <2>2, <2>3
<1>14. ASSUME NEW e \in Centroids, checkAgain(e)
      PROVE  StampOK(c)'
  <2>1. Starts(c)' = Starts(c)
    BY <1>14 DEF checkAgain, Starts
  <2>2. CASE e # c
    BY <1>14, <2>1, <2>2, StampSame DEF checkAgain, Types
  <2>3. CASE e = c
    <3>1. PICK u \in 1..now : u = ustart[c]
      BY <1>14, <2>3 DEF checkAgain, Types, UpdateOK, None
    <3>2. /\ useen'[c] = useen[c] /\ changes'[c] = changes[c] /\ ustart'[c] = u
          /\ saved'[c] = saved[c] /\ upc[c] = "check"
      BY <1>14, <2>3, <3>1 DEF checkAgain, Types
    <3>3. useen'[c] # changes'[c] => Late(c, u)'
      BY <1>0, <1>1, <3>1, <3>2 DEF StampOK
    <3>4. useen'[c] # changes'[c] => Late(c, ustart[c])'
      BY <3>2, <3>3 DEF Late
    <3>5. saved'[c] # changes'[c] => \A t \in Starts(c)' : Late(c, t)'
      BY <1>0, <1>1, <1>2, <2>1, <3>2 DEF StampOK
    <3> QED
      BY <1>0, <2>1, <3>1, <3>2, <3>4, <3>5 DEF StampOK
  <2> QED
    BY <2>2, <2>3
<1>15. ASSUME NEW e \in Centroids, saveCentroid(e)
      PROVE  StampOK(c)'
  <2>1. CASE e # c
    BY <1>15, <2>1, StampSame DEF saveCentroid, Starts, Types, TypeOK
  <2>2. CASE e = c
    <3>1. PICK u \in 1..now : u = ustart[c]
      BY <1>15, <2>2 DEF saveCentroid, Types, UpdateOK, None
    <3>2. /\ upc[c] = "save" /\ upc'[c] = "echo" /\ changes'[c] = changes[c]
          /\ saved'[c] = useen[c] /\ putCalculated'[c] = putCalculated[c] \cup {u}
          /\ metadata' = metadata
      BY <1>15, <2>2, <3>1 DEF saveCentroid, Types, TypeOK
    <3>3. Starts(c)' = Starts(c) \cup {u}
      BY <3>2 DEF Starts
    <3>4. \A t \in Starts(c)' : t \in 1..now /\ t <= u
      BY <1>0, <1>2, <3>1, <3>2, <3>3 DEF StampOK
    <3>5. ASSUME saved'[c] # changes'[c], NEW t \in Starts(c)'
          PROVE  Late(c, t)'
      <4>1. Late(c, u)
        BY <1>0, <3>1, <3>2, <3>5 DEF StampOK
      <4>2. Late(c, u)'
        BY <1>1, <4>1
      <4>3. \A j \in Items : putChange'[j] \in Nat
        <5>1. Types'
          BY NextType
        <5> QED
          BY <5>1 DEF Types, TypeOK
      <4>4. metadata'[c]["lastDocumentChange"] \in Nat
        BY <3>2 DEF Types, TypeOK, Stamps
      <4> QED
        BY <3>4, <4>2, <4>3, <4>4 DEF Late
    <3> QED
      BY <3>2, <3>5 DEF StampOK
  <2> QED
    BY <2>1, <2>2
<1>16. ASSUME NEW e \in Centroids, echoUpdated(e)
      PROVE  StampOK(c)'
  <2>1. Starts(c)' = Starts(c)
    BY <1>16 DEF echoUpdated, Starts
  <2>2. CASE e # c
    BY <1>16, <2>1, <2>2, StampSame DEF echoUpdated, Types
  <2>3. CASE e = c
    <3>1. upc'[c] = "idle" /\ saved'[c] = saved[c] /\ changes'[c] = changes[c]
      BY <1>16, <2>3 DEF echoUpdated, Types
    <3>2. saved'[c] # changes'[c] => \A t \in Starts(c)' : Late(c, t)'
      BY <1>0, <1>1, <1>2, <2>1, <3>1 DEF StampOK
    <3> QED
      BY <3>1, <3>2 DEF StampOK
  <2> QED
    BY <2>2, <2>3
<1> QED
  <2>1. ASSUME NEW i \in Items, isCentroidUpToDate(i)
        PROVE  StampOK(c)'
    BY <1>3, <2>1 DEF isCentroidUpToDate
  <2>2. ASSUME NEW request \in Calls, receive(request)
        PROVE  StampOK(c)'
    BY <1>3, <2>2 DEF receive
  <2>3. ASSUME NEW i \in Items,
               \/ createDocumentWithID(i) \/ deleteDocument(i) \/ afterChange(i)
               \/ joinCentroid(i) \/ \E s \in Stamps : getMetadata(i, s)
        PROVE  StampOK(c)'
    BY <1>3, <2>3 DEF createDocumentWithID, deleteDocument, afterChange, joinCentroid, getMetadata
  <2>4. ASSUME (\E q \in Requests : respond(q)) \/ tick \/ UNCHANGED vars
        PROVE  StampOK(c)'
    BY <1>3, <2>4 DEF respond, tick, vars
  <2> QED
    BY <1>4, <1>5, <1>7, <1>8, <1>9, <1>11, <1>12, <1>13, <1>14, <1>15, <1>16,
       <2>1, <2>2, <2>3, <2>4
    DEF Next, ServerStep, StoreTask, JoinStep, MetadataPut, UpdateStep

\* What isCentroidUpToDate() relies on holds for any number of requests, items and updates and
\* any delay of the metadata puts: the contents of a centroid whose last update started in a
\* later second than its last change reflect every change that has its timestamp in the store.
THEOREM UpToDateIsCurrent == Spec => []OlderChangesAreIn
<1>1. Init => StampInv
    BY DEF Init, StampInv, StampOK, Starts, Stamps, None
<1>2. Types /\ StampInv /\ [Next]_vars => StampInv'
    BY NextStamp
<1>3. Types /\ StampInv => OlderChangesAreIn
  <2> SUFFICES ASSUME Types, StampInv, NEW c \in centroids \ irregular, Unstamped(c) = {},
                      metadata[c]["lastDocumentChange"] < metadata[c]["lastCalculated"]
               PROVE  saved[c] = changes[c]
    BY DEF OlderChangesAreIn, irregular
  <2>1. c \in Centroids /\ metadata[c]["lastDocumentChange"] \in Nat
        /\ metadata[c]["lastCalculated"] \in Nat
    BY DEF Types, TypeOK, Stamps
  <2>2. metadata[c]["lastCalculated"] \in Starts(c)
    BY <2>1 DEF Starts, None
  <2>3. ~Late(c, metadata[c]["lastCalculated"])
    BY <2>1 DEF Late, Unstamped
  <2> QED
    BY <2>1, <2>2, <2>3 DEF StampInv, StampOK
<1> QED
    BY <1>1, <1>2, <1>3, InitType, NextType, PTL DEF Spec

-----------------------------------------------------------------------------
LEMMA MadeFinite == \A op, c, d : IsFiniteSet(Made(op, c, d)) /\ IsFiniteSet(Made(op, c, d)')
<1>1. IsFiniteSet(Requests) /\ IsFiniteSet(1..MaxItems)
    BY ServerAssumption, FS_Interval DEF Requests
<1>2. IsFiniteSet(Items)
    BY <1>1, FS_Product DEF Items
<1>3. \A op, c, d : Made(op, c, d) \subseteq Items /\ Made(op, c, d)' \subseteq Items
    BY DEF Made
<1> QED
    BY <1>2, <1>3, FS_Subset

\* The result of an item is final.
LEMMA ResultsStay ==
    ASSUME Types, [Next]_vars, NEW j \in Items, pc[j] = "done"
    PROVE  pc'[j] = "done" /\ result'[j] = result[j]
<1> USE DEF items
<1>0. ASSUME NEW i \in Items, NEW r, pc[i] # "done", finish(i, r)
      PROVE  pc'[j] = "done" /\ result'[j] = result[j]
    BY <1>0 DEF finish, Types, TypeOK
<1>1. ASSUME NEW request \in Calls, receive(request)
      PROVE  pc'[j] = "done" /\ result'[j] = result[j]
  <2>1. j[1] \in 1..sent
    BY CallTypes DEF Types, ItemOK
  <2>2. j[1] # sent'
    BY <1>1, <2>1 DEF receive, Types, TypeOK
  <2> QED
    BY <1>1, <2>2 DEF receive
<1>2. ASSUME NEW i \in Items, Task(i)
      PROVE  pc'[j] = "done" /\ result'[j] = result[j]
    BY <1>2, TaskSteps
<1>3. ASSUME NEW i \in Items, afterChange(i) \/ joinCentroid(i)
      PROVE  pc'[j] = "done" /\ result'[j] = result[j]
    BY <1>0, <1>3 DEF afterChange, joinCentroid
<1>6. ASSUME NEW i \in Items, isCentroidUpToDate(i)
      PROVE  pc'[j] = "done" /\ result'[j] = result[j]
    BY <1>0, <1>6 DEF isCentroidUpToDate, At, Types
<1>7. ASSUME NEW c \in Centroids, echoUpdated(c)
      PROVE  pc'[j] = "done" /\ result'[j] = result[j]
    BY <1>7 DEF echoUpdated
<1> QED
    BY <1>1, <1>2, <1>3, <1>6, <1>7
    DEF Next, ServerStep, StoreTask, Task, JoinStep, MetadataPut, UpdateStep, vars,
        setLastDocumentChangeTimestamp, setLastCalculatedTimestamp, deliver, listDocuments,
        checkAgain, saveCentroid, getMetadata, joinUpdate, respond, tick

Counts(i) == result[i] = "true" \/ pc[i] = "then"

\* A step that makes no change, and starts and ends no write of a link.
LEMMA BooksSame ==
    ASSUME Types, NEW c \in Centroids, NEW d \in Docs, Books(c, d), UNCHANGED <<call, sent, raced>>,
           members'[c] = members[c],
           \A i \in Items : i \in ItemsOf(i[1]) /\ Op(i) \in {"add", "remove"} =>
                                (Counts(i)' <=> Counts(i)) /\ (pc'[i] = "write" <=> pc[i] = "write"),
           \A i \in Items : i \notin ItemsOf(i[1]) => pc'[i] # "write"
    PROVE  Books(c, d)'
<1>1. Made("add", c, d)' = Made("add", c, d)
    BY SameCalls DEF Made, Counts
<1>2. Made("remove", c, d)' = Made("remove", c, d)
    BY SameCalls DEF Made, Counts
<1>3. Writers(c, d)' = Writers(c, d)
  <2>1. \A i \in Items : pc[i] = "write" => i \in ItemsOf(i[1])
    BY DEF Types, ItemOK
  <2> QED
    BY <2>1, SameCalls DEF Writers
<1>4. Balance(c, d)' <=> Balance(c, d)
    BY <1>1, <1>2 DEF Balance, Member
<1>5. Alone(c, d)' <=> Alone(c, d)
    BY <1>3, SameCalls DEF Alone
<1> QED
    BY <1>1, <1>2, <1>4, <1>5 DEF Books

\* A step of an item that is neither a change nor its lookup of the link.
LEMMA OtherItem ==
    ASSUME Types, NEW i \in Items, i \in ItemsOf(i[1]), UNCHANGED <<call, sent, raced>>,
           \A j \in Items : j # i => pc'[j] = pc[j] /\ result'[j] = result[j],
           pc'[i] # "none", pc[i] # "none",
           Op(i) \in {"add", "remove"} =>
               (Counts(i)' <=> Counts(i)) /\ pc[i] # "write" /\ pc'[i] # "write",
           NEW c \in Centroids, NEW d \in Docs, Books(c, d), members'[c] = members[c]
    PROVE  Books(c, d)'
<1>1. \A j \in Items : j \in ItemsOf(j[1]) /\ Op(j) \in {"add", "remove"} =>
                            (Counts(j)' <=> Counts(j)) /\ (pc'[j] = "write" <=> pc[j] = "write")
    BY DEF Counts
<1>2. \A j \in Items : j \notin ItemsOf(j[1]) => pc'[j] # "write"
    BY DEF Types, ItemOK
<1> QED
    BY <1>1, <1>2, BooksSame

\* An item that ends and makes no change, or has made it before.
LEMMA FinishCounts ==
    ASSUME Types, NEW i \in Items, i \in ItemsOf(i[1]), pc[i] \notin {"none", "done"},
           NEW r, finish(i, r), pc[i] = "then" <=> r = "true"
    PROVE  /\ Counts(i)' <=> Counts(i)
           /\ pc'[i] = "done" /\ \A j \in Items : j # i => pc'[j] = pc[j] /\ result'[j] = result[j]
<1>1. "true" \notin call[i[1]].ignore
    BY CallTypes DEF Exceptions
<1>2. pc'[i] = "done" /\ (result'[i] = "true" <=> r = "true")
    BY <1>1 DEF finish, Types, TypeOK
<1>3. result[i] # "true"
    BY DEF Types, ItemOK
<1>4. \A j \in Items : j # i => result'[j] = result[j] /\ pc'[j] = pc[j]
    BY DEF finish, Types, TypeOK
<1> QED
    BY <1>2, <1>3, <1>4 DEF Counts

\* The lookup of a link: the item is the only one about to write it, or there was a race.
LEMMA LinkBooks ==
    ASSUME Types, NEW i \in Items, i \in ItemsOf(i[1]), Op(i) \in {"add", "remove"},
           NEW passes \in BOOLEAN, NEW e \in Exceptions, checkLink(i, passes, e),
           passes <=> (Id(i) \in members[Of(i)] <=> Op(i) = "remove"),
           NEW c \in Centroids, NEW d \in Docs, Books(c, d)
    PROVE  Books(c, d)'
<1> USE DEF store, history
<1>0. UNCHANGED <<call, sent, members>> /\ pc[i] = "link"
    BY DEF checkLink
<1>1. CASE ~passes
  <2>1. finish(i, e) /\ UNCHANGED raced /\ e # "true"
    BY <1>1 DEF checkLink, check, Exceptions
  <2> QED
    BY <1>0, <2>1, FinishCounts, OtherItem
<1>2. CASE passes
  <2>1. pc' = [pc EXCEPT ![i] = "write"] /\ UNCHANGED result
    BY <1>2 DEF checkLink, check, goto
  <2>2. \A j \in Items : pc'[j] = IF j = i THEN "write" ELSE pc[j]
    BY <2>1 DEF Types
  <2>3. \A op : Made(op, c, d)' = Made(op, c, d)
    BY <1>0, <2>1, <2>2, SameCalls DEF Made
  <2>4. Balance(c, d)' <=> Balance(c, d)
    BY <1>0, <2>3 DEF Balance, Member
  <2>5. CASE Of(i) = c /\ Id(i) = d
    <3>1. Writers(c, d)' = Writers(c, d) \cup {i}
      BY <1>0, <2>2, <2>5, SameCalls DEF Writers
    <3>2. CASE Writers(c, d) = {}
      <4>1. raced' = raced
        BY <2>5, <3>2 DEF checkLink
      <4>2. Alone(c, d)'
        BY <1>0, <1>2, <2>5, <3>1, <3>2, SameCalls DEF Alone
      <4> QED
        BY <1>0, <2>3, <2>4, <4>1, <4>2 DEF Books
    <3>3. CASE Writers(c, d) # {}
      <4>1. <<c, d>> \in raced'
        BY <1>2, <2>5, <3>3 DEF checkLink
      <4> QED
        BY <1>0, <2>3, <4>1 DEF Books
    <3> QED
      BY <3>2, <3>3
  <2>6. CASE ~(Of(i) = c /\ Id(i) = d)
    <3>1. Writers(c, d)' = Writers(c, d)
      BY <1>0, <2>2, <2>6, SameCalls DEF Writers
    <3>2. <<c, d>> \in raced' <=> <<c, d>> \in raced
      BY <2>6 DEF checkLink
    <3>3. Alone(c, d)' <=> Alone(c, d)
      BY <1>0, <3>1, SameCalls DEF Alone
    <3> QED
      BY <1>0, <2>3, <2>4, <3>2, <3>3 DEF Books
  <2> QED
    BY <2>5, <2>6
<1> QED
    BY <1>1, <1>2

\* A change that is made is one more item, of a document that was not, or was, a member, where no
\* other item was about to make one.
LEMMA ChangeBooks ==
    ASSUME Types, NEW i \in Items, i \in ItemsOf(i[1]), NEW after, changeMembers(i, after),
           \/ Op(i) = "add" /\ after = members[Of(i)] \cup {Id(i)}
           \/ Op(i) = "remove" /\ after = members[Of(i)] \ {Id(i)},
           NEW c \in Centroids, NEW d \in Docs, Books(c, d)
    PROVE  Books(c, d)'
<1> USE DEF history
<1>0. UNCHANGED <<call, sent, raced>> /\ pc[i] = "write"
    BY DEF changeMembers
<1>1. Of(i) \in Centroids /\ result[i] = "none" /\ members \in [Centroids -> SUBSET Docs]
    BY <1>0, CallTypes DEF Types, TypeOK, ItemOK
<1>2. /\ members' = [members EXCEPT ![Of(i)] = after]
      /\ pc' = [pc EXCEPT ![i] = "then"] /\ result' = result
    BY DEF changeMembers, goto
<1>3. \A j \in Items : pc'[j] = IF j = i THEN "then" ELSE pc[j]
    BY <1>2 DEF Types
<1>4. \A op : i \notin Made(op, c, d)
    BY <1>0, <1>1 DEF Made
<1>5. CASE Of(i) = c /\ Id(i) = d
  <2>1. \A op : Made(op, c, d)' = IF op = Op(i) THEN Made(op, c, d) \cup {i} ELSE Made(op, c, d)
    BY <1>0, <1>2, <1>3, <1>5, SameCalls DEF Made
  <2>2. d \in members'[c] <=> Op(i) = "add"
    BY <1>1, <1>2, <1>5
  <2>3. ASSUME <<c, d>> \notin raced
        PROVE  Balance(c, d)' /\ Alone(c, d)'
    <3>1. i \in Writers(c, d) /\ Balance(c, d) /\ Alone(c, d)
      BY <1>0, <1>5, <2>3 DEF Writers, Books
    <3>2. Writers(c, d)' = {}
      BY <1>0, <1>3, <3>1, SameCalls DEF Writers, Alone
    <3>3. d \in members[c] <=> Op(i) = "remove"
      BY <3>1 DEF Alone
    <3>4. Cardinality(Made(Op(i), c, d) \cup {i}) = Cardinality(Made(Op(i), c, d)) + 1
      BY <1>4, MadeFinite, FS_AddElement
    <3>5. \A op : Cardinality(Made(op, c, d)) \in Nat
      BY MadeFinite, FS_CardinalityType
    <3>6. CASE Op(i) = "add"
      <4>1. Member(c, d) = 0 /\ Member(c, d)' = 1
        BY <2>2, <3>3, <3>6 DEF Member
      <4>2. /\ Cardinality(Made("add", c, d)') = Cardinality(Made("add", c, d)) + 1
            /\ Made("remove", c, d)' = Made("remove", c, d)
        BY <2>1, <3>4, <3>6
      <4> QED
        BY <3>1, <3>2, <3>5, <4>1, <4>2 DEF Balance, Alone
    <3>7. CASE Op(i) = "remove"
      <4>1. Member(c, d) = 1 /\ Member(c, d)' = 0
        BY <2>2, <3>3, <3>7 DEF Member
      <4>2. /\ Cardinality(Made("remove", c, d)') = Cardinality(Made("remove", c, d)) + 1
            /\ Made("add", c, d)' = Made("add", c, d)
        BY <2>1, <3>4, <3>7
      <4> QED
        BY <3>1, <3>2, <3>5, <4>1, <4>2 DEF Balance, Alone
    <3> QED
      BY <3>6, <3>7
  <2> QED
    BY <1>0, <2>1, <2>2, <2>3 DEF Books
<1>6. CASE Of(i) # c \/ Id(i) # d
  <2>1. \A op : Made(op, c, d)' = Made(op, c, d)
    BY <1>0, <1>2, <1>3, <1>6, SameCalls DEF Made
  <2>2. d \in members'[c] <=> d \in members[c]
    BY <1>1, <1>2, <1>6
  <2>3. Writers(c, d)' = Writers(c, d)
    BY <1>0, <1>3, <1>6, SameCalls DEF Writers
  <2>4. Balance(c, d)' <=> Balance(c, d)
    BY <2>1, <2>2 DEF Balance, Member
  <2>5. Alone(c, d)' <=> Alone(c, d)
    BY <1>0, <2>2, <2>3, SameCalls DEF Alone
  <2> QED
    BY <1>0, <2>1, <2>2, <2>4, <2>5 DEF Books
<1> QED
    BY <1>5, <1>6

\* Every step keeps the books of the centroids that were not deleted.
LEMMA NextBooks ==
    ASSUME Types, [Next]_vars, NEW c \in Centroids \ deleted', NEW d \in Docs, Books(c, d)
    PROVE  Books(c, d)'
<1> USE DEF store, items, updates, puts, contents, history
<1>1. ASSUME NEW request \in Calls, receive(request)
      PROVE  Books(c, d)'
  <2>1. ASSUME NEW i \in Items
        PROVE  (Counts(i)' <=> Counts(i)) /\ (pc'[i] = "write" <=> pc[i] = "write")
    <3>1. CASE pc'[i] = pc[i]
      BY <1>1, <3>1 DEF receive, Counts
    <3>2. CASE pc'[i] = "pool" /\ i[1] = sent'
      <4>1. i \notin ItemsOf(i[1])
        BY <1>1, <3>2 DEF receive, ItemsOf, Types, TypeOK
      <4>2. pc[i] = "none" /\ result[i] = "none"
        BY <4>1 DEF Types, ItemOK
      <4> QED
        BY <1>1, <3>2, <4>2 DEF receive, Counts
    <3> QED
      BY <1>1, <3>1, <3>2 DEF receive
  <2>2. \A i \in Items : i \notin ItemsOf(i[1]) => ~Counts(i) /\ pc[i] # "write"
    BY DEF Types, ItemOK, Counts
  <2>3. \A op : Made(op, c, d)' = Made(op, c, d)
    <3> SUFFICES ASSUME NEW op
                 PROVE  Made(op, c, d)' = Made(op, c, d)
      OBVIOUS
    <3>1. ASSUME NEW i \in Items, i \in ItemsOf(i[1])
          PROVE  i \in Made(op, c, d)' <=> i \in Made(op, c, d)
      BY <1>1, <2>1, <3>1, EarlierCalls DEF Made, Counts
    <3>2. ASSUME NEW i \in Items, i \notin ItemsOf(i[1])
          PROVE  i \notin Made(op, c, d)' /\ i \notin Made(op, c, d)
      BY <2>1, <2>2, <3>2 DEF Made, Counts
    <3> QED
      BY <3>1, <3>2 DEF Made
  <2>4. Writers(c, d)' = Writers(c, d) /\ \A i \in Writers(c, d) : Op(i)' = Op(i)
    BY <1>1, <2>1, <2>2, EarlierCalls DEF Writers
  <2>5. UNCHANGED <<members, raced>>
    BY <1>1 DEF receive
  <2>6. Balance(c, d)' <=> Balance(c, d)
    BY <2>3, <2>5 DEF Balance, Member
  <2>7. Alone(c, d)' <=> Alone(c, d)
    BY <2>4, <2>5 DEF Alone
  <2> QED
    BY <2>3, <2>5, <2>6, <2>7 DEF Books
<1>2. ASSUME NEW i \in Items,
             \/ createDocumentWithID(i) \/ deleteDocument(i)
             \/ createCentroid(i) \/ deleteCentroid(i)
      PROVE  Books(c, d)'
  <2>1. Op(i) \notin {"add", "remove"} /\ Task(i) /\ UNCHANGED raced
    BY <1>2 DEF createDocumentWithID, deleteDocument, createCentroid, deleteCentroid, At, Task
  <2>2. members'[c] = members[c]
    BY <2>1, DeletedMetadata
  <2> QED
    BY <2>1, <2>2, TaskSteps, OtherItem
<1>3. ASSUME NEW i \in Items, addDocumentToCentroid(i) \/ removeDocumentFromCentroid(i)
      PROVE  Books(c, d)'
  <2>1. i \in ItemsOf(i[1]) /\ Op(i) \in {"add", "remove"}
    BY <1>3, TaskSteps DEF Task, addDocumentToCentroid, removeDocumentFromCentroid, Running
  <2>2. CASE checkExistence(i)
    <3>1. UNCHANGED <<call, sent, raced, members>> /\ pc[i] \in {"pool", "document"}
      BY <2>2 DEF checkExistence
    <3>2. ASSUME NEW e \in Exceptions, finish(i, e)
          PROVE  Books(c, d)'
      <4>1. e # "true"
        BY <3>2 DEF Exceptions
      <4> QED
        BY <2>1, <3>1, <3>2, <4>1, FinishCounts, OtherItem
    <3>3. ASSUME NEW step \in {"document", "link"}, goto(i, step)
          PROVE  Books(c, d)'
      <4>1. \A j \in Items : /\ pc'[j] = IF j = i THEN step ELSE pc[j]
                             /\ result'[j] = result[j]
        BY <3>3 DEF goto, Types
      <4> QED
        BY <2>1, <3>1, <4>1, OtherItem DEF Counts
    <3> QED
      BY <2>2, <3>2, <3>3 DEF checkExistence, check, Exceptions
  <2>3. CASE addDocumentToCentroid(i)
    <3>1. Op(i) = "add"
      BY <2>3 DEF addDocumentToCentroid, Running
    <3>2. CASE checkLink(i, Id(i) \notin members[Of(i)], "EDocumentAlreadyInCentroid")
      BY <2>1, <3>1, <3>2, LinkBooks DEF Exceptions
    <3>3. CASE changeMembers(i, members[Of(i)] \cup {Id(i)})
      BY <2>1, <3>1, <3>3, ChangeBooks
    <3> QED
      BY <2>2, <2>3, <3>2, <3>3 DEF addDocumentToCentroid
  <2>4. CASE removeDocumentFromCentroid(i)
    <3>1. Op(i) = "remove"
      BY <2>4 DEF removeDocumentFromCentroid, Running
    <3>2. CASE checkLink(i, Id(i) \in members[Of(i)], "EDocumentNotInCentroid")
      <4>1. "EDocumentNotInCentroid" \in Exceptions
        BY DEF Exceptions
      <4>2. (Id(i) \in members[Of(i)]) <=> (Id(i) \in members[Of(i)] <=> Op(i) = "remove")
        BY <3>1
      <4>3. (Id(i) \in members[Of(i)]) \in BOOLEAN
        OBVIOUS
      <4> QED
        BY <2>1, <3>2, <4>1, <4>2, <4>3, LinkBooks
    <3>3. CASE changeMembers(i, members[Of(i)] \ {Id(i)})
      BY <2>1, <3>1, <3>3, ChangeBooks
    <3> QED
      BY <2>2, <2>4, <3>2, <3>3 DEF removeDocumentFromCentroid
  <2> QED
    BY <1>3, <2>3, <2>4
<1>6. ASSUME NEW i \in Items, afterChange(i)
      PROVE  Books(c, d)'
  <2>1. pc[i] = "then" /\ i \in ItemsOf(i[1]) /\ UNCHANGED <<call, sent, raced, members>>
    BY <1>6 DEF afterChange, Types, ItemOK
  <2>2. finish(i, "true")
    BY <1>6 DEF afterChange
  <2> QED
    BY <2>1, <2>2, FinishCounts, OtherItem
<1>7. ASSUME NEW i \in Items, isCentroidUpToDate(i) \/ joinCentroid(i)
      PROVE  Books(c, d)'
  <2>1. /\ pc[i] \in {"pool", "reload"} /\ i \in ItemsOf(i[1]) /\ Op(i) = "join"
        /\ UNCHANGED <<call, sent, raced, members>>
    BY <1>7 DEF isCentroidUpToDate, joinCentroid, At, Types, ItemOK
  <2>2. /\ \A j \in Items : j # i => pc'[j] = pc[j] /\ result'[j] = result[j]
        /\ pc'[i] # "none"
    BY <1>7 DEF isCentroidUpToDate, joinCentroid, finish, Types, TypeOK
  <2> QED
    BY <2>1, <2>2, OtherItem
<1>9. ASSUME NEW e \in Centroids, echoUpdated(e)
      PROVE  Books(c, d)'
  <2>1. \A j \in Items : (Counts(j)' <=> Counts(j)) /\ (pc'[j] = "write" <=> pc[j] = "write")
    BY <1>9 DEF echoUpdated, Counts, Types
  <2>2. \A j \in Items : j \notin ItemsOf(j[1]) => pc'[j] # "write"
    BY <2>1 DEF Types, ItemOK
  <2> QED
    BY <1>9, <2>1, <2>2, BooksSame DEF echoUpdated
<1>10. ASSUME UNCHANGED <<call, sent, members, pc, result, raced>>
      PROVE  Books(c, d)'
  <2>1. \A j \in Items : j \notin ItemsOf(j[1]) => pc'[j] # "write"
    BY <1>10 DEF Types, ItemOK
  <2> QED
    BY <1>10, <2>1, BooksSame DEF Counts
<1> QED
    BY <1>1, <1>2, <1>3, <1>6, <1>7, <1>9, <1>10
    DEF Next, ServerStep, StoreTask, JoinStep, MetadataPut, UpdateStep, vars,
        setLastDocumentChangeTimestamp, setLastCalculatedTimestamp, deliver, listDocuments,
        checkAgain, saveCentroid, getMetadata, joinUpdate, respond, tick

\* A request is answered when its items are done, and they stay so.
LEMMA NextAnswered ==
    ASSUME Types, AccountInv, [Next]_vars
    PROVE  AccountInv'
<1>1. ASSUME NEW c \in Centroids \ deleted', NEW d \in Docs
      PROVE  Books(c, d)'
  <2>1. c \in Centroids \ deleted
    BY IrregularStays
  <2> QED
    BY <2>1, NextBooks DEF AccountInv
<1>2. ASSUME NEW q \in Requests, reply'[q] # "none"
      PROVE  q \in 1..sent' /\ \A i \in ItemsOf(q)' : pc'[i] = "done"
  <2>1. q \in 1..sent /\ \A i \in ItemsOf(q) : pc[i] = "done"
    <3>1. CASE reply'[q] = reply[q]
      BY <1>2, <3>1 DEF AccountInv
    <3>2. CASE reply'[q] # reply[q]
      <4>1. respond(q)
        BY <3>2
        DEF Next, ServerStep, StoreTask, JoinStep, MetadataPut, UpdateStep, vars, Types, TypeOK,
            receive, createDocumentWithID, deleteDocument, createCentroid, deleteCentroid,
            addDocumentToCentroid, removeDocumentFromCentroid, checkExistence, checkLink,
            changeMembers, afterChange,
            setLastDocumentChangeTimestamp, setLastCalculatedTimestamp, deliver, listDocuments,
            checkAgain, saveCentroid, echoUpdated, getMetadata, isCentroidUpToDate, joinUpdate,
            joinCentroid, respond, tick
      <4> QED
        BY <4>1 DEF respond, Requests, Types, TypeOK
    <3> QED
      BY <3>1, <3>2
  <2>2. ItemsOf(q)' = ItemsOf(q) /\ q \in 1..sent'
    <3>1. CASE UNCHANGED <<call, sent>>
      BY <2>1, <3>1, SameCalls
    <3>2. ASSUME NEW request \in Calls, receive(request)
          PROVE  ItemsOf(q)' = ItemsOf(q) /\ q \in 1..sent'
      BY <2>1, <3>2 DEF receive, ItemsOf, Types, TypeOK
    <3> QED
      BY <3>1, <3>2
      DEF Next, ServerStep, StoreTask, JoinStep, MetadataPut, UpdateStep, vars,
          createDocumentWithID, deleteDocument, createCentroid, deleteCentroid,
          addDocumentToCentroid, removeDocumentFromCentroid, checkExistence, checkLink,
            changeMembers, afterChange,
          setLastDocumentChangeTimestamp, setLastCalculatedTimestamp, deliver, listDocuments,
          checkAgain, saveCentroid, echoUpdated, getMetadata, isCentroidUpToDate, joinUpdate,
          joinCentroid, respond, tick
  <2>3. \A i \in ItemsOf(q) : i \in Items
    BY DEF ItemsOf
  <2> QED
    BY <2>1, <2>2, <2>3, ResultsStay
<1> QED
    BY <1>1, <1>2 DEF AccountInv

LEMMA InitAccount == Init => AccountInv
<1> SUFFICES ASSUME Init
             PROVE  AccountInv
    OBVIOUS
<1>1. \A op, c, d : Made(op, c, d) = {}
    BY DEF Init, Made
<1>2. \A c \in Centroids, d \in Docs : d \notin members[c] /\ Member(c, d) = 0
    BY DEF Init, Member
<1>3. Cardinality({}) = 0
    BY FS_EmptySet
<1>4. ASSUME NEW c \in Centroids, NEW d \in Docs
      PROVE  Books(c, d)
  <2>1. Made("add", c, d) = {} /\ Made("remove", c, d) = {}
    BY <1>1
  <2>2. Member(c, d) = 0 /\ d \notin members[c]
    BY <1>2
  <2>3. Balance(c, d)
    BY <1>3, <2>1, <2>2 DEF Balance
  <2>4. Writers(c, d) = {}
    BY DEF Init, Writers
  <2>5. Alone(c, d)
    BY <2>4 DEF Alone
  <2> QED
    BY <2>1, <2>2, <2>3, <2>5 DEF Books
<1>5. \A q \in Requests : reply[q] = "none"
    BY DEF Init
<1> QED
    BY <1>4, <1>5 DEF AccountInv

\* What clients can conclude from their responses, for any requests and any interleaving of the
\* lookups and writes of their items: where no two items were about to change the same document of
\* a centroid at once, what the answered requests report to have added and removed is what the
\* centroid has; and where two were, an addition that was reported is still not lost without a
\* removal, and no document is in the centroid that nobody was told to have added.
THEOREM ResponsesAreBooks == Spec => []ResponsesAccount
<1>1. Types /\ AccountInv /\ [Next]_vars => AccountInv'
    BY NextAnswered
<1>2. Types /\ AccountInv => ResponsesAccount
  <2> SUFFICES ASSUME Types, AccountInv, \A q \in 1..sent : reply[q] # "none",
                      NEW c \in Centroids \ deleted, NEW d \in Docs
               PROVE  /\ <<c, d>> \notin raced =>
                            Cardinality(Reported("add", c, d)) - Cardinality(Reported("remove", c, d))
                                = IF d \in members[c] THEN 1 ELSE 0
                      /\ d \in members[c] => Reported("add", c, d) # {}
                      /\ Reported("add", c, d) # {} /\ Reported("remove", c, d) = {} => d \in members[c]
    BY DEF ResponsesAccount
  <2>1. \A i \in Items : i \in ItemsOf(i[1]) => pc[i] = "done"
    <3> SUFFICES ASSUME NEW i \in Items, i \in ItemsOf(i[1])
                 PROVE  pc[i] = "done"
      OBVIOUS
    <3>1. i[1] \in 1..sent /\ i[1] \in Requests
      BY CallTypes DEF Items
    <3> QED
      BY <3>1 DEF AccountInv
  <2>2. \A op : Reported(op, c, d) = Made(op, c, d)
    BY <2>1 DEF Made, Reported
  <2> QED
    BY <2>2 DEF AccountInv, Books, Balance, Member
<1> QED
    BY <1>1, <1>2, InitAccount, InitType, NextType, PTL DEF Spec
=============================================================================
