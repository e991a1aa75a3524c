--------------------------- MODULE RelevanceServer ---------------------------
(***************************************************************************)
(* RelevanceServer and the Thrift handlers in front of it: requests that   *)
(* change documents, centroids and the documents of centroids, the joins   *)
(* of centroids, and the timestamps by which a centroid is taken to be up  *)
(* to date.                                                                *)
(*                                                                         *)
(* A request is split into items, one for every id it names.  Each item    *)
(* is a task of the store's pool with a continuation, and the request is   *)
(* answered when collect() has the results of all of them.  A task is a    *)
(* sequence of calls of the store, and the tasks of the pool's threads     *)
(* interleave between them: each lookup of a key is a step, and so is each *)
(* write.  The metadata puts are not awaited by those who ask for them.    *)
(* The update worker is reduced to its promise: one update of a centroid   *)
(* at a time, and another one that is asked for meanwhile is dropped.      *)
(*                                                                         *)
(* The documents of a centroid are read by an update in one step; what it  *)
(* saves is abstracted to the number of changes that it has seen.          *)
(***************************************************************************)
EXTENDS Integers, Sequences, FiniteSets, FiniteSetsExt

CONSTANTS
    Docs, Centroids,    \* ids
    Calls,              \* the requests that clients may send
    MaxRequests,        \* bound: requests of a behaviour
    MaxItems,           \* bound: ids of a request
    MaxTime             \* bound: seconds of the clock

Requests == 1..MaxRequests
Items == Requests \X (1..MaxItems)
Stamps == {"lastCalculated", "lastDocumentChange"}
None == 0       \* a timestamp that is not in the store
Unread == -1
Operations == {"createDocument", "deleteDocument", "createCentroid", "deleteCentroid",
               "add", "remove", "join"}
Exceptions == {"EDocumentDoesNotExist", "EDocumentAlreadyExists", "ECentroidDoesNotExist",
               "ECentroidAlreadyExists", "EDocumentAlreadyInCentroid", "EDocumentNotInCentroid"}

\* What the ids of a request are those of.
IdsOf(op) ==
    IF op \in {"createDocument", "deleteDocument", "add", "remove"} THEN Docs ELSE Centroids

\* A request: an operation, the centroid whose documents it changes, the ids, and what the
\* flags ignoreMissing, ignoreExisting, ... of the request let pass.
ASSUME ServerAssumption ==
    /\ MaxTime \in Nat \ {0} /\ MaxRequests \in Nat /\ MaxItems \in Nat
    /\ \A call \in Calls :
          /\ call.op \in Operations /\ call.of \in Centroids /\ call.ignore \subseteq Exceptions
          /\ call.ids \in Seq(IdsOf(call.op)) /\ Len(call.ids) \in 1..MaxItems

VARIABLES
    documents, centroids,   \* what exists in the store
    members,                \* of a centroid: its documents in the store
    metadata,               \* of a centroid: its timestamps in the store
    now,                    \* the clock, in seconds
    call, sent,             \* the requests, and how many were received
    pc, result,             \* of an item: its next step, and what became of it
    stamps,                 \* of an item of a join: the timestamps it has read
    reply,                  \* of a request: "none", "ok" or the exception
    putChange,              \* of an item: the timestamp it is about to put, or None
    putCalculated,          \* of a centroid: the timestamps its updates are about to put
    triggered,              \* centroids that the update queue has to deliver
    asked,                  \* joins whose task on the update worker's pool is to run
    upc, ustart, useen,     \* the update of a centroid: next step, startTimestamp, changes seen
    changes, saved,         \* of a centroid: its changes, and those its stored contents reflect
    deleted, replaced,      \* history: centroids that were deleted, or created over their contents
    reordered, dropped,     \* history: centroids with a late timestamp, or a dropped update
    raced                   \* history: <<c, d>> that two items were about to change at once

store == <<documents, centroids, members>>
items == <<pc, result, stamps>>
updates == <<asked, upc, ustart, useen>>
puts == <<putChange, putCalculated>>
contents == <<changes, saved>>
history == <<deleted, replaced, reordered, dropped, raced>>
vars == <<store, metadata, now, call, sent, items, reply, puts, triggered, updates,
          contents, history>>

\* A store in which some documents and centroids were created.
Init ==
    /\ documents \in SUBSET Docs /\ centroids \in SUBSET Centroids
    /\ members = [c \in Centroids |-> {}]
    /\ metadata = [c \in Centroids |-> [s \in Stamps |-> None]]
    /\ now = 1
    /\ call = <<>> /\ sent = 0
    /\ pc = [i \in Items |-> "none"] /\ result = [i \in Items |-> "none"]
    /\ stamps = [i \in Items |-> [s \in Stamps |-> Unread]]
    /\ reply = [q \in Requests |-> "none"]
    /\ putChange = [i \in Items |-> None] /\ putCalculated = [c \in Centroids |-> {}]
    /\ triggered = {} /\ asked = {}
    /\ upc = [c \in Centroids |-> "idle"]
    /\ ustart = [c \in Centroids |-> None] /\ useen = [c \in Centroids |-> 0]
    /\ changes = [c \in Centroids |-> 0] /\ saved = [c \in Centroids |-> 0]
    /\ deleted = {} /\ replaced = {} /\ reordered = {} /\ dropped = {} /\ raced = {}

-----------------------------------------------------------------------------
\* Clients, and the results of items.

ItemsOf(q) == {i \in Items : i[1] = q /\ q <= sent /\ i[2] <= Len(call[q].ids)}
Op(i) == call[i[1]].op
Of(i) == call[i[1]].of
Id(i) == call[i[1]].ids[i[2]]

\* A handler of ThriftRelevanceServer hands every id to the pool of the store.
receive(request) ==
    /\ sent < MaxRequests
    /\ sent' = sent + 1
    /\ call' = Append(call, request)
    /\ pc' = [i \in Items |-> IF i[1] = sent' /\ i[2] <= Len(request.ids) THEN "pool" ELSE pc[i]]
    /\ UNCHANGED <<store, metadata, now, result, stamps, reply, puts, triggered, updates,
                   contents, history>>

\* A plausible error: an ignored exception counts as success.
IgnoredIsTrue(i, r) ==
    /\ pc' = [pc EXCEPT ![i] = "done"]
    /\ result' = [result EXCEPT ![i] = IF r \in call[i[1]].ignore THEN "true" ELSE r]

\* The continuation of an item: exceptions that a flag ignores become false.
finish(i, r) ==
    /\ pc' = [pc EXCEPT ![i] = "done"]
    /\ result' = [result EXCEPT ![i] = IF r \in call[i[1]].ignore THEN "false" ELSE r]

Running(i, op) == pc[i] # "none" /\ Op(i) = op
At(i, op, step) == pc[i] = step /\ Op(i) = op

goto(i, step) == pc' = [pc EXCEPT ![i] = step] /\ UNCHANGED result

\* A lookup in the store: the task goes on, or ends in an exception.
check(i, passes, exception, next) == IF passes THEN goto(i, next) ELSE finish(i, exception)

-----------------------------------------------------------------------------
\* Documents and centroids.

createDocumentWithID(i) ==
    /\ \/ /\ At(i, "createDocument", "pool")
          /\ check(i, Id(i) \notin documents, "EDocumentAlreadyExists", "write")
          /\ UNCHANGED documents
       \/ /\ At(i, "createDocument", "write")
          /\ documents' = documents \cup {Id(i)}
          /\ finish(i, "true")
    /\ UNCHANGED <<centroids, members, metadata, now, call, sent, stamps, reply, puts, triggered,
                   updates, contents, history>>

\* The centroids that list the document keep listing it.
deleteDocument(i) ==
    /\ \/ /\ At(i, "deleteDocument", "pool")
          /\ check(i, Id(i) \in documents, "EDocumentDoesNotExist", "write")
          /\ UNCHANGED documents
       \/ /\ At(i, "deleteDocument", "write")
          /\ documents' = documents \ {Id(i)}
          /\ finish(i, "true")
    /\ UNCHANGED <<centroids, members, metadata, now, call, sent, stamps, reply, puts, triggered,
                   updates, contents, history>>

\* An empty centroid is stored, over one that was created since the lookup too.
createCentroid(i) ==
    LET c == Id(i)
    IN  /\ \/ /\ At(i, "createCentroid", "pool")
              /\ check(i, c \notin centroids, "ECentroidAlreadyExists", "write")
              /\ UNCHANGED <<centroids, saved, replaced>>
           \/ /\ At(i, "createCentroid", "write")
              /\ centroids' = centroids \cup {c}
              /\ saved' = [saved EXCEPT ![c] = 0]
              /\ replaced' = IF saved[c] # 0 THEN replaced \cup {c} ELSE replaced
              /\ finish(i, "true")
        /\ UNCHANGED <<documents, members, metadata, now, call, sent, stamps, reply, puts,
                       triggered, updates, changes, deleted, reordered, dropped, raced>>

\* The key of the centroid goes first, then the keys of its documents, then its metadata.
deleteCentroid(i) ==
    LET c == Id(i)
    IN  /\ \/ /\ At(i, "deleteCentroid", "pool")
              /\ check(i, c \in centroids, "ECentroidDoesNotExist", "write")
              /\ UNCHANGED <<centroids, members, metadata, deleted>>
           \/ /\ At(i, "deleteCentroid", "write")
              /\ centroids' = centroids \ {c} /\ deleted' = deleted \cup {c}
              /\ goto(i, "links")
              /\ UNCHANGED <<members, metadata>>
           \/ /\ At(i, "deleteCentroid", "links")
              /\ members' = [members EXCEPT ![c] = {}]
              /\ goto(i, "metadata")
              /\ UNCHANGED <<centroids, metadata, deleted>>
           \/ /\ At(i, "deleteCentroid", "metadata")
              /\ metadata' = [metadata EXCEPT ![c] = [s \in Stamps |-> None]]
              /\ finish(i, "true")
              /\ UNCHANGED <<centroids, members, deleted>>
        /\ UNCHANGED <<documents, now, call, sent, stamps, reply, puts, triggered, updates,
                       contents, replaced, reordered, dropped, raced>>

-----------------------------------------------------------------------------
\* The documents of a centroid: lookups of the centroid, the document and the link, and the write
\* of the link, each a call of the store.

\* The items that have looked up the link of a document and are about to write it.
Writers(c, d) == {i \in Items : /\ pc[i] = "write" /\ Op(i) \in {"add", "remove"}
                                /\ Of(i) = c /\ Id(i) = d}

checkExistence(i) ==
    /\ \/ /\ pc[i] = "pool"
          /\ check(i, Of(i) \in centroids, "ECentroidDoesNotExist", "document")
       \/ /\ pc[i] = "document"
          /\ check(i, Id(i) \in documents, "EDocumentDoesNotExist", "link")
    /\ UNCHANGED <<store, metadata, now, call, sent, stamps, reply, puts, triggered, updates,
                   contents, history>>

checkLink(i, passes, exception) ==
    /\ pc[i] = "link"
    /\ check(i, passes, exception, "write")
    /\ raced' = IF passes /\ Writers(Of(i), Id(i)) # {} THEN raced \cup {<<Of(i), Id(i)>>} ELSE raced
    /\ UNCHANGED <<store, metadata, now, call, sent, stamps, reply, puts, triggered, updates,
                   contents, deleted, replaced, reordered, dropped>>

\* The write; a change that was made has a continuation to run.
changeMembers(i, after) ==
    /\ pc[i] = "write"
    /\ members' = [members EXCEPT ![Of(i)] = after]
    /\ changes' = [changes EXCEPT ![Of(i)] = @ + 1]
    /\ goto(i, "then")
    /\ UNCHANGED <<documents, centroids, metadata, now, call, sent, stamps, reply, puts, triggered,
                   updates, saved, history>>

addDocumentToCentroid(i) ==
    /\ Running(i, "add")
    /\ \/ checkExistence(i)
       \/ checkLink(i, Id(i) \notin members[Of(i)], "EDocumentAlreadyInCentroid")
       \/ changeMembers(i, members[Of(i)] \cup {Id(i)})

removeDocumentFromCentroid(i) ==
    /\ Running(i, "remove")
    /\ \/ checkExistence(i)
       \/ checkLink(i, Id(i) \in members[Of(i)], "EDocumentNotInCentroid")
       \/ changeMembers(i, members[Of(i)] \ {Id(i)})

\* A plausible error: a document that was removed does not trigger an update.
TriggerAdded(i) ==
    /\ pc[i] = "then"
    /\ putChange' = [putChange EXCEPT ![i] = now]
    /\ triggered' = IF Op(i) = "add" THEN triggered \cup {Of(i)} ELSE triggered
    /\ finish(i, "true")
    /\ UNCHANGED <<store, metadata, now, call, sent, stamps, reply, putCalculated, updates,
                   contents, history>>

\* A plausible error: the timestamp is rounded up.
StampRoundedUp(i) ==
    /\ pc[i] = "then"
    /\ putChange' = [putChange EXCEPT ![i] = now + 1]
    /\ triggered' = triggered \cup {Of(i)}
    /\ finish(i, "true")
    /\ UNCHANGED <<store, metadata, now, call, sent, stamps, reply, putCalculated, updates,
                   contents, history>>

\* The continuations of addOneDocumentToCentroid() and removeOneDocumentFromCentroid(): the
\* timestamp is put by a task of its own, and the update queue gets the centroid.
afterChange(i) ==
    /\ pc[i] = "then"
    /\ putChange' = [putChange EXCEPT ![i] = now]
    /\ triggered' = triggered \cup {Of(i)}
    /\ finish(i, "true")
    /\ UNCHANGED <<store, metadata, now, call, sent, stamps, reply, putCalculated, updates,
                   contents, history>>

-----------------------------------------------------------------------------
\* CentroidMetadataDb: the puts, whether or not the centroid still exists, in any order.

setLastDocumentChangeTimestamp(i) ==
    LET c == Of(i)
        t == putChange[i]
    IN  /\ t # None
        /\ metadata' = [metadata EXCEPT ![c]["lastDocumentChange"] = t]
        /\ putChange' = [putChange EXCEPT ![i] = None]
        /\ reordered' = IF metadata[c]["lastDocumentChange"] > t THEN reordered \cup {c}
                        ELSE reordered
        /\ UNCHANGED <<store, now, call, sent, items, reply, putCalculated, triggered, updates,
                       contents, deleted, replaced, dropped, raced>>

setLastCalculatedTimestamp(c, t) ==
    /\ metadata' = [metadata EXCEPT ![c]["lastCalculated"] = t]
    /\ putCalculated' = [putCalculated EXCEPT ![c] = @ \ {t}]
    /\ UNCHANGED <<store, now, call, sent, items, reply, putChange, triggered, updates, contents,
                   history>>

-----------------------------------------------------------------------------
\* Updates: the update queue, and CentroidUpdater::run().

\* A call of CentroidUpdateWorker::update(): it is dropped while an update is under way.
update(c) ==
    /\ upc' = [upc EXCEPT ![c] = IF @ = "idle" /\ c \in centroids THEN "list" ELSE @]
    /\ ustart' = IF upc'[c] = upc[c] THEN ustart ELSE [ustart EXCEPT ![c] = now]
    /\ UNCHANGED useen

deliver(c) ==
    /\ c \in triggered
    /\ triggered' = triggered \ {c}
    /\ update(c)
    /\ UNCHANGED asked
    /\ dropped' = IF upc[c] = "idle" THEN dropped ELSE dropped \cup {c}
    /\ UNCHANGED <<store, metadata, now, call, sent, items, reply, puts, contents,
                   deleted, replaced, reordered, raced>>

listDocuments(c) ==
    /\ upc[c] = "list"
    /\ upc' = [upc EXCEPT ![c] = IF c \in centroids THEN "check" ELSE "idle"]
    /\ useen' = [useen EXCEPT ![c] = changes[c]]
    /\ UNCHANGED <<store, metadata, now, call, sent, items, reply, puts, triggered, ustart,
                   contents, history, asked>>

checkAgain(c) ==
    /\ upc[c] = "check"
    /\ upc' = [upc EXCEPT ![c] = IF c \in centroids THEN "save" ELSE "idle"]
    /\ UNCHANGED <<store, metadata, now, call, sent, items, reply, puts, triggered, ustart, useen,
                   contents, history, asked>>

\* A plausible error: the timestamp is that of the save.
StampAtSave(c) ==
    /\ upc[c] = "save"
    /\ centroids' = centroids \cup {c}
    /\ saved' = [saved EXCEPT ![c] = useen[c]]
    /\ putCalculated' = [putCalculated EXCEPT ![c] = @ \cup {now}]
    /\ upc' = [upc EXCEPT ![c] = "echo"]
    /\ UNCHANGED <<documents, members, metadata, now, call, sent, items, reply, putChange,
                   triggered, ustart, useen, changes, history, asked>>

\* A centroid that was deleted since the check is stored again.
saveCentroid(c) ==
    /\ upc[c] = "save"
    /\ centroids' = centroids \cup {c}
    /\ saved' = [saved EXCEPT ![c] = useen[c]]
    /\ putCalculated' = [putCalculated EXCEPT ![c] = @ \cup {ustart[c]}]
    /\ upc' = [upc EXCEPT ![c] = "echo"]
    /\ UNCHANGED <<documents, members, metadata, now, call, sent, items, reply, putChange,
                   triggered, ustart, useen, changes, history, asked>>

\* The joins that wait for the centroid go on.
echoUpdated(c) ==
    /\ upc[c] = "echo"
    /\ upc' = [upc EXCEPT ![c] = "idle"]
    /\ ustart' = [ustart EXCEPT ![c] = None] /\ useen' = [useen EXCEPT ![c] = 0]
    /\ pc' = [i \in Items |-> IF pc[i] = "waiting" /\ Id(i) = c THEN "reload" ELSE pc[i]]
    /\ UNCHANGED <<store, metadata, now, call, sent, result, stamps, reply, puts, triggered,
                   asked, contents, history>>

-----------------------------------------------------------------------------
\* joinCentroid()

\* isCentroidUpToDate(): each timestamp is read by a task of its own.
getMetadata(i, s) ==
    /\ At(i, "join", "pool") /\ stamps[i][s] = Unread
    /\ stamps' = [stamps EXCEPT ![i][s] = metadata[Id(i)][s]]
    /\ UNCHANGED <<store, metadata, now, call, sent, pc, result, reply, puts, triggered, updates,
                   contents, history>>

\* The comparison of the timestamps, where the centroid has one.
Outdated(changed, calculated) == changed # None /\ (calculated = None \/ changed > calculated)

\* joinUpdate() registers a callback and asks for an update, a task of the worker's pool.
isCentroidUpToDate(i) ==
    LET changed == stamps[i]["lastDocumentChange"]
        calculated == stamps[i]["lastCalculated"]
    IN  /\ At(i, "join", "pool") /\ Unread \notin {changed, calculated}
        /\ \/ /\ changed = None /\ calculated = None
              /\ finish(i, IF Id(i) \in centroids THEN "false" ELSE "ECentroidDoesNotExist")
              /\ UNCHANGED asked
           \/ /\ ~(changed = None /\ calculated = None)
              /\ ~Outdated(changed, calculated)
              /\ finish(i, "false")
              /\ UNCHANGED asked
           \/ /\ Outdated(changed, calculated)
              /\ pc' = [pc EXCEPT ![i] = "waiting"]
              /\ asked' = asked \cup {i}
              /\ UNCHANGED result
        /\ stamps' = [stamps EXCEPT ![i] = [s \in Stamps |-> Unread]]
        /\ UNCHANGED <<store, metadata, now, call, sent, reply, puts, triggered, upc, ustart, useen,
                       contents, history>>

joinUpdate(i) ==
    /\ i \in asked
    /\ asked' = asked \ {i}
    /\ update(Id(i))
    /\ UNCHANGED <<store, metadata, now, call, sent, items, reply, puts, triggered, contents, history>>

\* reloadCentroid(), whatever it returns.
joinCentroid(i) ==
    /\ pc[i] = "reload"
    /\ finish(i, "true")
    /\ UNCHANGED <<store, metadata, now, call, sent, stamps, reply, puts, triggered, updates,
                   contents, history>>

-----------------------------------------------------------------------------
\* A plausible error: a request with an exception waits for one that has none.
RespondIfAllSucceed(q) ==
    /\ q <= sent /\ reply[q] = "none"
    /\ \A i \in ItemsOf(q) : pc[i] = "done" /\ result[i] \notin Exceptions
    /\ reply' = [reply EXCEPT ![q] = "ok"]
    /\ UNCHANGED <<store, metadata, now, call, sent, items, puts, triggered, updates, contents,
                   history>>

\* The handlers look through the results in order and rethrow the first exception.
FirstException(q) ==
    LET failed == {i[2] : i \in {j \in ItemsOf(q) : result[j] \in Exceptions}}
    IN  IF failed = {} THEN "ok" ELSE result[<<q, Min(failed)>>]

\* collect(), and the response: an exception, or the results of all items.
respond(q) ==
    /\ q <= sent /\ reply[q] = "none"
    /\ \A i \in ItemsOf(q) : pc[i] = "done"
    /\ reply' = [reply EXCEPT ![q] = FirstException(q)]
    /\ UNCHANGED <<store, metadata, now, call, sent, items, puts, triggered, updates, contents,
                   history>>

tick ==
    /\ now < MaxTime
    /\ now' = now + 1
    /\ UNCHANGED <<store, metadata, call, sent, items, reply, puts, triggered, updates, contents,
                   history>>

StoreTask(i) ==
    \/ createDocumentWithID(i) \/ deleteDocument(i) \/ createCentroid(i) \/ deleteCentroid(i)
    \/ addDocumentToCentroid(i) \/ removeDocumentFromCentroid(i) \/ afterChange(i)

JoinStep(i) ==
    \/ \E s \in Stamps : getMetadata(i, s)
    \/ isCentroidUpToDate(i) \/ joinUpdate(i) \/ joinCentroid(i)

MetadataPut ==
    \/ \E i \in Items : setLastDocumentChangeTimestamp(i)
    \/ \E c \in Centroids : \E t \in putCalculated[c] : setLastCalculatedTimestamp(c, t)

UpdateStep(c) == listDocuments(c) \/ checkAgain(c) \/ saveCentroid(c) \/ echoUpdated(c)

ServerStep ==
    \/ \E i \in Items : StoreTask(i) \/ JoinStep(i)
    \/ \E c \in Centroids : deliver(c) \/ UpdateStep(c)
    \/ \E q \in Requests : respond(q)
    \/ MetadataPut

Next ==
    \/ \E request \in Calls : receive(request)
    \/ ServerStep
    \/ tick

\* The pools run the tasks they are given, and the update queue delivers what was written to it:
\* as there are finitely many, it is enough that the server does not stop while it has one.
Fairness == WF_vars(ServerStep)

Spec == Init /\ [][Next]_vars /\ Fairness

-----------------------------------------------------------------------------
\* Types; in particular a timestamp is never ahead of the clock.
TypeOK ==
    /\ documents \subseteq Docs /\ centroids \subseteq Centroids
    /\ members \in [Centroids -> SUBSET Docs]
    /\ metadata \in [Centroids -> [Stamps -> 0..now]]
    /\ sent \in 0..MaxRequests /\ Len(call) = sent
    /\ result \in [Items -> Exceptions \cup {"none", "true", "false"}]
    /\ reply \in [Requests -> Exceptions \cup {"none", "ok"}]
    /\ putChange \in [Items -> 0..now] /\ putCalculated \in [Centroids -> SUBSET (1..now)]
    /\ \A i \in Items : pc[i] = "done" <=> result[i] # "none"

\* The changes of a centroid's documents whose timestamp is not in the store yet.
Unstamped(c) == {i \in Items : pc[i] # "none" /\ Of(i) = c /\ (pc[i] = "then" \/ putChange[i] # None)}

\* A centroid whose last update started in a later second than its last change reflects every
\* change that has its timestamp in the store: what isCentroidUpToDate() relies on.  It does not
\* hold for equal timestamps, nor where an older timestamp was stored over a later one (reordered),
\* nor for a centroid that was deleted or created over.
OlderChangesAreIn ==
    \A c \in centroids \ (deleted \cup replaced \cup reordered) :
        LET stamp == metadata[c]
        IN  Unstamped(c) = {} /\ stamp["lastDocumentChange"] < stamp["lastCalculated"]
                => saved[c] = changes[c]

\* The items of an operation on a centroid's documents that were reported as made.
Reported(op, c, d) ==
    {i \in Items : /\ i \in ItemsOf(i[1])
                   /\ Op(i) = op /\ Of(i) = c /\ Id(i) = d
                   /\ result[i] = "true"}

\* What clients can conclude from their responses when every request is answered, unless the
\* centroid was deleted.  Where no two items were about to change the same document of the same
\* centroid at once, they can keep the books: it is a member exactly when one more of the items
\* that added it than of those that removed it was successful.  Where two were, both may be
\* successful and one in vain; still, a member was added by someone, and a document that was
\* added and that nobody removed is a member.  A request that ends in an exception has
\* nevertheless made the changes of its successful items.
ResponsesAccount ==
    (\A q \in 1..sent : reply[q] # "none") =>
        \A c \in Centroids \ deleted, d \in Docs :
            LET added == Reported("add", c, d)
                removed == Reported("remove", c, d)
            IN  /\ <<c, d>> \notin raced =>
                       Cardinality(added) - Cardinality(removed) = IF d \in members[c] THEN 1 ELSE 0
                /\ d \in members[c] => added # {}
                /\ added # {} /\ removed = {} => d \in members[c]

\* Every request is answered, and a join too, unless the centroid is deleted while it waits for
\* its update.
RequestsAnswered ==
    []<>(\A q \in 1..sent :
            \/ reply[q] # "none"
            \/ \E i \in ItemsOf(q) : pc[i] = "waiting" /\ Id(i) \in deleted)

\* The stored contents of a centroid catch up with the changes of its documents, without a
\* join, unless the centroid is deleted or created over, or an update that was triggered is
\* dropped because one is under way.
ChangesReachContents ==
    []<>(\A c \in Centroids :
            saved[c] = changes[c] \/ c \in deleted \cup replaced \cup dropped)

\* What the documentation promises of a burst of changes: the contents catch up with all of them.
BurstReachesContents ==
    []<>(\A c \in Centroids : saved[c] = changes[c] \/ c \in deleted \cup replaced)
=============================================================================
