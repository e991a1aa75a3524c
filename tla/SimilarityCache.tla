--------------------------- MODULE SimilarityCache ---------------------------
(***************************************************************************)
(* SimilarityScoreWorker: the centroids kept in memory for scoring, how    *)
(* they are reloaded after an update, and how requests read them.          *)
(*                                                                         *)
(* The cache is a ConcurrentMap of MultiVersionPtr proxies.  A reload      *)
(* loads the stored centroid on the pool of the store, wraps it in a new   *)
(* MultiVersionPtr, its base, and makes the proxy of the map point there.  *)
(* A request copies the proxy: it reads the base and then counts itself on *)
(* it, in two atomic steps.  A base is freed when its count returns to     *)
(* zero.  Neither side takes a lock, so that the steps of both interleave. *)
(*                                                                         *)
(* Bases are named after what creates them: a reload, or a centroid for    *)
(* the ones that initialize() has loaded.  The compare-and-exchange loops  *)
(* are single exchanges.  Contents are version numbers of a centroid, 0    *)
(* standing for a centroid that does not exist.                            *)
(***************************************************************************)
EXTENDS Integers, FiniteSets

CONSTANTS
    Centroids,
    Reloads,        \* calls of reloadCentroid(); each happens once
    Handles,        \* the centroids of one request, or the two of getCentroidSimilarity()
    MaxVersion      \* the number of versions of a centroid

None == "none"
Bases == Reloads \cup Centroids

\* Calls and requests are finite, and the names of proxies and bases are distinct.
ASSUME CacheAssumption ==
    /\ MaxVersion \in Nat \ {0}
    /\ IsFiniteSet(Centroids) /\ IsFiniteSet(Reloads) /\ IsFiniteSet(Handles)
    /\ Centroids \cap Reloads = {} /\ Handles \cap Bases = {} /\ None \notin Bases

VARIABLES
    saved,          \* the version of each centroid in the store, 0 for none
    versions,       \* the number of versions made of each centroid
    due,            \* centroids saved by an update whose callbacks are still to be called
    known,          \* centroids saved by an update, or present at start-up
    map,            \* the base that the proxy of each centroid points at, None without a node
    content, usage, alive,  \* of each base: ptr_, usage_, and whether it was not freed
    rpc, rcentroid, rversion, rprev,    \* of each reload: next step, arguments, old base
    kind,           \* the request under way, or its answer
    hpc, hcentroid, hbase, hscore,      \* of each handle: next step, base, version scored
    raced, overlapped   \* history: see below

store == <<saved, versions, due, known>>
heap == <<content, usage, alive>>
reload == <<rpc, rcentroid, rversion, rprev>>
request == <<kind, hpc, hcentroid, hbase, hscore>>
history == <<raced, overlapped>>
vars == <<store, map, heap, reload, request, history>>

-----------------------------------------------------------------------------
\* SimilarityScoreWorker::initialize(): every centroid in the store is loaded.
Init ==
    /\ saved \in [Centroids -> 0..1]
    /\ versions = saved
    /\ due = {}
    /\ known = {c \in Centroids : saved[c] # 0}
    /\ map = [c \in Centroids |-> IF saved[c] # 0 THEN c ELSE None]
    /\ content = [b \in Bases |-> IF b \in Centroids THEN saved[b] ELSE 0]
    /\ usage = [b \in Bases |-> IF b \in known THEN 1 ELSE 0]
    /\ alive = [b \in Bases |-> b \in known]
    /\ rpc = [r \in Reloads |-> "new"]
    /\ rcentroid \in [Reloads -> Centroids]
    /\ rversion = [r \in Reloads |-> 0]
    /\ rprev = [r \in Reloads |-> None]
    /\ kind = "none"
    /\ hpc = [h \in Handles |-> "idle"]
    /\ hcentroid \in [Handles -> Centroids]
    /\ hbase = [h \in Handles |-> None]
    /\ hscore = [h \in Handles |-> 0]
    /\ raced = FALSE
    /\ overlapped = {}

\* Two windows of MultiVersionPtr: a request has read a base and not counted itself, and
\* a base is in the map and its reload has not counted it.
Uncounted(b) ==
    \/ \E h \in Handles : hpc[h] = "count" /\ hbase[h] = b
    \/ b \in Reloads /\ rpc[b] = "incr"

Active(c) == {r \in Reloads : rcentroid[r] = c /\ rpc[r] \notin {"new", "done"}}
Loaded(c) == {r \in Active(c) : rpc[r] # "load"}
Unused(c) == {r \in Reloads : rcentroid[r] = c /\ rpc[r] = "new"}

-----------------------------------------------------------------------------
\* The store, and the calls of reloadCentroid().

createNewCentroid(c) ==
    /\ saved[c] = 0 /\ versions[c] < MaxVersion
    /\ saved' = [saved EXCEPT ![c] = versions[c] + 1]
    /\ versions' = [versions EXCEPT ![c] = @ + 1]
    /\ known' = known \ {c}
    /\ UNCHANGED <<due, map, heap, reload, request, history>>

deleteCentroid(c) ==
    /\ saved[c] # 0
    /\ saved' = [saved EXCEPT ![c] = 0]
    /\ UNCHANGED <<versions, due, known, map, heap, reload, request, history>>

\* The save of CentroidUpdater::run().
saveCentroid(c) ==
    /\ saved[c] # 0 /\ versions[c] < MaxVersion
    /\ Unused(c) # {} /\ c \notin due
    /\ saved' = [saved EXCEPT ![c] = versions[c] + 1]
    /\ versions' = [versions EXCEPT ![c] = @ + 1]
    /\ due' = due \cup {c}
    /\ known' = known \cup {c}
    /\ UNCHANGED <<map, heap, reload, request, history>>

\* A plausible error: the callback reloads the centroids that are in the cache already.
ReloadCached(r) ==
    /\ rpc[r] = "new" /\ rcentroid[r] \in due /\ map[rcentroid[r]] # None
    /\ due' = due \ {rcentroid[r]}
    /\ rpc' = [rpc EXCEPT ![r] = "load"]
    /\ UNCHANGED <<saved, versions, known, map, heap, rcentroid, rversion, rprev, request, history>>

\* The callback of onUpdate() that RelevanceServer::initialize() has registered.
onUpdate(r) ==
    /\ rpc[r] = "new" /\ rcentroid[r] \in due
    /\ due' = due \ {rcentroid[r]}
    /\ rpc' = [rpc EXCEPT ![r] = "load"]
    /\ UNCHANGED <<saved, versions, known, map, heap, rcentroid, rversion, rprev, request, history>>

\* The second reload, by a joinCentroid() that the update has answered.
joinCentroid(r) ==
    /\ rpc[r] = "new" /\ rcentroid[r] \in known \ due
    /\ rpc' = [rpc EXCEPT ![r] = "load"]
    /\ UNCHANGED <<store, map, heap, rcentroid, rversion, rprev, request, history>>

-----------------------------------------------------------------------------
\* reloadCentroid(): the load, and insertOrUpdate() in its continuation.

loadCentroidUniqueOption(r) ==
    /\ rpc[r] = "load"
    /\ rversion' = [rversion EXCEPT ![r] = saved[rcentroid[r]]]
    /\ rpc' = [rpc EXCEPT ![r] = IF saved[rcentroid[r]] = 0 THEN "done" ELSE "find"]
    /\ overlapped' = IF Loaded(rcentroid[r]) # {} THEN overlapped \cup {rcentroid[r]} ELSE overlapped
    /\ UNCHANGED <<store, map, heap, rcentroid, rprev, request, raced>>

\* A plausible error: an item that is found keeps its value.
InsertOnly(r) ==
    LET found == map[rcentroid[r]] # None
    IN  /\ rpc[r] = "find"
        /\ content' = [content EXCEPT ![r] = rversion[r]]
        /\ alive' = [alive EXCEPT ![r] = ~found]
        /\ usage' = [usage EXCEPT ![r] = IF found THEN 0 ELSE 1]
        /\ rpc' = [rpc EXCEPT ![r] = IF found THEN "done" ELSE "add"]
        /\ UNCHANGED <<store, map, rcentroid, rversion, rprev, request, history>>

\* A plausible error: an item that is found is erased, and added again.
EraseAndAdd(r) ==
    LET old == {map[rcentroid[r]]} \ {None}
    IN  /\ rpc[r] = "find"
        /\ content' = [content EXCEPT ![r] = rversion[r]]
        /\ usage' = [b \in Bases |-> IF b \in old THEN usage[b] - 1 ELSE IF b = r THEN 1 ELSE usage[b]]
        /\ alive' = [b \in Bases |-> b = r \/ (alive[b] /\ usage'[b] # 0)]
        /\ map' = [map EXCEPT ![rcentroid[r]] = None]
        /\ rpc' = [rpc EXCEPT ![r] = "add"]
        /\ UNCHANGED <<store, rcentroid, rversion, rprev, request, history>>

\* accessor.find(), and the new MultiVersionPtr.  An item that is to be added holds it by a
\* proxy of its own.
insertOrUpdate(r) ==
    LET found == map[rcentroid[r]] # None
    IN  /\ rpc[r] = "find"
        /\ content' = [content EXCEPT ![r] = rversion[r]]
        /\ alive' = [alive EXCEPT ![r] = TRUE]
        /\ usage' = [usage EXCEPT ![r] = IF found THEN 0 ELSE 1]
        /\ rpc' = [rpc EXCEPT ![r] = IF found THEN "set" ELSE "add"]
        /\ UNCHANGED <<store, map, rcentroid, rversion, rprev, request, history>>

\* Proxy::setBase of the proxy in the map: the exchange, the count of the new base, and the
\* release of the old one.
setBase(r) ==
    LET c == rcentroid[r]
    IN  /\ rpc[r] = "set"
        /\ rprev' = [rprev EXCEPT ![r] = map[c]]
        /\ map' = [map EXCEPT ![c] = r]
        /\ rpc' = [rpc EXCEPT ![r] = "incr"]
        /\ raced' = (raced \/ Uncounted(map[c]))
        /\ UNCHANGED <<store, heap, rcentroid, rversion, request, overlapped>>

setBaseCounts(r) ==
    /\ rpc[r] = "incr"
    /\ usage' = [usage EXCEPT ![r] = @ + 1]
    /\ rpc' = [rpc EXCEPT ![r] = "decr"]
    /\ UNCHANGED <<store, map, content, alive, rcentroid, rversion, rprev, request, history>>

\* A plausible error: the old base is freed whatever its count.
FreeAtOnce(b) ==
    /\ usage' = [usage EXCEPT ![b] = @ - 1]
    /\ alive' = [alive EXCEPT ![b] = FALSE]
    /\ UNCHANGED content

decrCount(b) ==
    /\ usage' = [usage EXCEPT ![b] = @ - 1]
    /\ alive' = [alive EXCEPT ![b] = @ /\ usage'[b] # 0]
    /\ UNCHANGED content

setBaseReleases(r) ==
    /\ rpc[r] = "decr"
    /\ decrCount(rprev[r])
    /\ rpc' = [rpc EXCEPT ![r] = "done"]
    /\ UNCHANGED <<store, map, rcentroid, rversion, rprev, request, history>>

\* The item is copied into a new node, unless another reload has added one meanwhile: then
\* it is dropped, and the value with it.
addOrGetData(r) ==
    LET c == rcentroid[r]
        added == map[c] = None
    IN  /\ rpc[r] = "add"
        /\ map' = IF added THEN [map EXCEPT ![c] = r] ELSE map
        /\ usage' = IF added THEN [usage EXCEPT ![r] = @ + 1] ELSE usage
        /\ rpc' = [rpc EXCEPT ![r] = "drop"]
        /\ UNCHANGED <<store, content, alive, rcentroid, rversion, rprev, request, history>>

dropItem(r) ==
    /\ rpc[r] = "drop"
    /\ decrCount(r)
    /\ rpc' = [rpc EXCEPT ![r] = "done"]
    /\ UNCHANGED <<store, map, rcentroid, rversion, rprev, request, history>>

-----------------------------------------------------------------------------
\* Requests.  One of a document's similarity loads the document first; one of a text's has
\* the text processed.  Then each centroid is a task of the score worker's pool.

getDocumentSimilarity ==
    /\ kind = "none"
    /\ kind' = "load"
    /\ UNCHANGED <<store, map, heap, reload, hpc, hcentroid, hbase, hscore, history>>

documentMissing ==
    /\ kind = "load"
    /\ kind' = "EDocumentDoesNotExist"
    /\ UNCHANGED <<store, map, heap, reload, hpc, hcentroid, hbase, hscore, history>>

multiGetDocumentSimilarity ==
    /\ kind = "load"
    /\ kind' = "document"
    /\ hpc' = [h \in Handles |-> "find"]
    /\ UNCHANGED <<store, map, heap, reload, hcentroid, hbase, hscore, history>>

getTextSimilarity ==
    /\ kind = "none"
    /\ kind' = "document"
    /\ hpc' = [h \in Handles |-> "find"]
    /\ UNCHANGED <<store, map, heap, reload, hcentroid, hbase, hscore, history>>

\* Both centroids are read by one task, which holds them until it has the score.
getCentroidSimilarity ==
    /\ kind = "none"
    /\ kind' = "centroid"
    /\ hpc' = [h \in Handles |-> "find"]
    /\ UNCHANGED <<store, map, heap, reload, hcentroid, hbase, hscore, history>>

\* A task of getCentroidSimilarity() reads one centroid after the other.
Turn(h) == kind = "centroid" => \A g \in Handles \ {h} : hpc[g] \notin {"copy", "count"}

\* A plausible error: the iterator is used without it.good().
GetUnchecked(h) ==
    /\ hpc[h] = "find" /\ Turn(h)
    /\ hpc' = [hpc EXCEPT ![h] = "copy"]
    /\ UNCHANGED <<store, map, heap, reload, kind, hcentroid, hbase, hscore, history>>

\* ConcurrentMap::getOption()
getOption(h) ==
    /\ hpc[h] = "find" /\ Turn(h)
    /\ hpc' = [hpc EXCEPT ![h] = IF map[hcentroid[h]] = None THEN "null" ELSE "copy"]
    /\ UNCHANGED <<store, map, heap, reload, kind, hcentroid, hbase, hscore, history>>

\* Proxy(const Proxy&): other.base.load(), and incrCount() by setBase().
ProxyCopy(h) ==
    /\ hpc[h] = "copy"
    /\ hbase' = [hbase EXCEPT ![h] = map[hcentroid[h]]]
    /\ hpc' = [hpc EXCEPT ![h] = "count"]
    /\ raced' = (raced \/ (hbase'[h] \in Reloads /\ rpc[hbase'[h]] = "incr"))
    /\ UNCHANGED <<store, map, heap, reload, kind, hcentroid, hscore, overlapped>>

ProxyCounts(h) ==
    /\ hpc[h] = "count"
    /\ usage' = [usage EXCEPT ![hbase[h]] = @ + 1]
    /\ hpc' = [hpc EXCEPT ![h] = "score"]
    /\ UNCHANGED <<store, map, content, alive, reload, kind, hcentroid, hbase, hscore, history>>

\* Centroid::score(), on what the base points at; nothing is scored against a missing one.
score(h) ==
    /\ hpc[h] = "score"
    /\ kind = "centroid" => \A g \in Handles : hpc[g] \in {"score", "release", "done", "null"}
    /\ hscore' = [hscore EXCEPT ![h] = content[hbase[h]]]
    /\ hpc' = [hpc EXCEPT ![h] = "release"]
    /\ UNCHANGED <<store, map, heap, reload, kind, hcentroid, hbase, history>>

\* ~Proxy()
release(h) ==
    /\ hpc[h] = "release"
    /\ kind = "centroid" => \A g \in Handles : hpc[g] # "score"
    /\ decrCount(hbase[h])
    /\ hpc' = [hpc EXCEPT ![h] = "done"]
    /\ UNCHANGED <<store, map, reload, kind, hcentroid, hbase, hscore, history>>

\* What the handlers of ThriftRelevanceServer answer: the scores, or the exception they rethrow.
Answers == {"scores", "ECentroidDoesNotExist", "EDocumentDoesNotExist"}

\* collect(): the map of scores, or the exception of the first centroid without one.
respond ==
    /\ kind \in {"document", "centroid"}
    /\ \A h \in Handles : hpc[h] \in {"done", "null"}
    /\ kind' = IF \E h \in Handles : hpc[h] = "null" THEN "ECentroidDoesNotExist" ELSE "scores"
    /\ UNCHANGED <<store, map, heap, reload, hpc, hcentroid, hbase, hscore, history>>

-----------------------------------------------------------------------------
ReloadStep(r) ==
    \/ loadCentroidUniqueOption(r) \/ insertOrUpdate(r) \/ setBase(r) \/ setBaseCounts(r)
    \/ setBaseReleases(r) \/ addOrGetData(r) \/ dropItem(r)

HandleStep(h) == getOption(h) \/ ProxyCopy(h) \/ ProxyCounts(h) \/ score(h) \/ release(h)

LoadDocument == documentMissing \/ multiGetDocumentSimilarity

Next ==
    \/ \E c \in Centroids : createNewCentroid(c) \/ deleteCentroid(c) \/ saveCentroid(c)
    \/ \E r \in Reloads : onUpdate(r) \/ joinCentroid(r) \/ ReloadStep(r)
    \/ getDocumentSimilarity \/ getTextSimilarity \/ getCentroidSimilarity
    \/ LoadDocument \/ respond
    \/ \E h \in Handles : HandleStep(h)

\* The pools run every task they are given, and the callbacks of an update are called.
Fairness ==
    /\ \A r \in Reloads : WF_vars(ReloadStep(r))
    /\ WF_vars(\E r \in Reloads : onUpdate(r))
    /\ \A h \in Handles : WF_vars(HandleStep(h))
    /\ WF_vars(LoadDocument) /\ WF_vars(respond)

Spec == Init /\ [][Next]_vars /\ Fairness

-----------------------------------------------------------------------------
\* Types.
TypeOK ==
    /\ saved \in [Centroids -> 0..MaxVersion] /\ versions \in [Centroids -> 0..MaxVersion]
    /\ map \in [Centroids -> Bases \cup {None}]
    /\ content \in [Bases -> 0..MaxVersion]
    /\ usage \in [Bases -> Int] /\ alive \in [Bases -> BOOLEAN]
    /\ \A r \in Reloads : rpc[r] \in {"incr", "decr"} => rprev[r] \in Bases
    /\ \A h \in Handles : hpc[h] \in {"count", "score", "release"} => hbase[h] \in Bases
    /\ hscore \in [Handles -> 0..MaxVersion]
    /\ kind \in Answers \cup {"none", "load", "document", "centroid"}

\* The proxies that point at a base and are counted on it.
Proxies(b) ==
    {c \in Centroids : map[c] = b /\ (b \in Reloads => rpc[b] # "incr")}
        \cup {h \in Handles : hpc[h] \in {"score", "release"} /\ hbase[h] = b}
        \cup {r \in Reloads : rpc[r] \in {"incr", "decr"} /\ rprev[r] = b}
        \cup {r \in Reloads : rpc[r] \in {"add", "drop"} /\ r = b}

\* As long as neither window of MultiVersionPtr was hit, the count of every base is the number
\* of its proxies, and a base lives exactly as long as it has one, or is about to get its first:
\* none is freed in use, freed twice or leaked, whatever reloads and requests overlap.
CountsExact ==
    raced \/ \A b \in Bases :
                /\ usage[b] = Cardinality(Proxies(b))
                /\ alive[b] <=> \/ Proxies(b) # {}
                                \/ b \in Reloads /\ rpc[b] \in {"set", "incr"}

\* Once its reloads have finished, a centroid that an update has saved, or that was there at
\* start-up, is scored with the contents in the store.  The exceptions: two reloads that have
\* loaded at the same time, where the older contents may come last, and a centroid deleted and
\* created again, which is scored with its old contents until its first update.
CacheCurrent ==
    \A c \in (known \ due) \ overlapped :
        saved[c] # 0 /\ Active(c) = {} /\ ~raced =>
            map[c] # None /\ alive[map[c]] /\ content[map[c]] = saved[c]

\* The contents a centroid is scored with never get older, when no two of its reloads overlap.
NeverOlder ==
    [][\A c \in Centroids \ overlapped' :
          map[c] # None => map'[c] # None /\ content'[map'[c]] >= content[map[c]]]_vars

\* Every update that saves a centroid reaches the cache, unless the centroid is deleted first.
UpdatesReachCache ==
    \A c \in Centroids : \A v \in 1..MaxVersion :
        (c \in due /\ saved[c] = v) ~>
            \/ map[c] # None /\ content[map[c]] >= v
            \/ saved[c] = 0 \/ c \in overlapped

\* MultiVersionPtr.h:34: "making sure that any other thread that may have just grabbed the
\* previous T* is able to continue using it".
GrabbedStaysUsable ==
    \A h \in Handles : hpc[h] \in {"score", "release"} => alive[hbase[h]]
=============================================================================
