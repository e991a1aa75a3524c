------------------------ MODULE SimilarityCacheProofs ------------------------
(***************************************************************************)
(* Proofs about SimilarityCache for any centroids, reloads, handles and    *)
(* versions: the types, the reference counts of MultiVersionPtr, and the   *)
(* contents that centroids are scored with.                                *)
(***************************************************************************)
EXTENDS SimilarityCache, FiniteSetTheorems, TLAPS

RPCs == {"new", "load", "find", "set", "incr", "decr", "add", "drop", "done"}
HPCs == {"idle", "find", "copy", "count", "score", "release", "done", "null"}

\* TypeOK with the types of the other variables; an item that was found stays in the map.
Types ==
    /\ TypeOK
    /\ due \subseteq Centroids /\ known \subseteq Centroids
    /\ rpc \in [Reloads -> RPCs] /\ rcentroid \in [Reloads -> Centroids]
    /\ rversion \in [Reloads -> 0..MaxVersion] /\ rprev \in [Reloads -> Bases \cup {None}]
    /\ hpc \in [Handles -> HPCs] /\ hcentroid \in [Handles -> Centroids]
    /\ hbase \in [Handles -> Bases \cup {None}]
    /\ raced \in BOOLEAN /\ overlapped \subseteq Centroids
    /\ \A r \in Reloads : rpc[r] = "set" => map[rcentroid[r]] # None
    /\ \A h \in Handles : hpc[h] = "copy" => map[hcentroid[h]] # None

\* No request and no other reload has a base before its own reload has put it in the map.
Taken(b) == (\E h \in Handles : hbase[h] = b) \/ (\E r \in Reloads : rprev[r] = b)

Private ==
    \A r \in Reloads : rpc[r] \in {"new", "load", "find", "set", "add"} =>
        ~Taken(r) /\ \A c \in Centroids : map[c] # r

\* A base is only ever in the map under the centroid it was loaded from.
Homes ==
    \A c \in Centroids : /\ map[c] \in Centroids => map[c] = c
                         /\ map[c] \in Reloads => rcentroid[map[c]] = c

\* As long as no window was hit, a base that is published and not counted is still in the map
\* and nobody else has it, and what a request is about to count itself on is still in the map.
Windows ==
    raced \/ /\ \A r \in Reloads : rpc[r] = "incr" => map[rcentroid[r]] = r /\ ~Taken(r)
             /\ \A h \in Handles : hpc[h] = "count" =>
                    /\ map[hcentroid[h]] = hbase[h]
                    /\ hbase[h] \in Reloads => rpc[hbase[h]] # "incr"

CountInv == Types /\ Private /\ Homes /\ Windows /\ CountsExact

(***************************************************************************)
(* The contents.  Those in the store are the newest there are; of a        *)
(* centroid whose reloads do not overlap, at most one reload is past its   *)
(* load, and it carries contents at least as new as those in the map.      *)
(***************************************************************************)
StoreNewest ==
    /\ \A c \in Centroids : saved[c] \in {0, versions[c]}
    /\ \A c \in Centroids : map[c] # None => content[map[c]] <= versions[c]
    /\ \A r \in Reloads : /\ rversion[r] <= versions[rcentroid[r]]
                          /\ rpc[r] \in {"set", "add"} => content[r] = rversion[r]

OneLoaded ==
    \A c \in Centroids \ overlapped : \A r \in Loaded(c) :
        /\ \A q \in Loaded(c) : q = r
        /\ rpc[r] \in {"find", "set"} /\ map[c] # None => rversion[r] >= content[map[c]]
        /\ rpc[r] = "add" => map[c] = None

\* A centroid saved by an update is current in the map, or a reload will make it so.
Arriving(c) ==
    \/ map[c] # None /\ content[map[c]] = saved[c]
    \/ \E r \in Reloads : /\ rcentroid[r] = c
                          /\ \/ rpc[r] = "load"
                             \/ rpc[r] \in {"find", "set", "add"} /\ rversion[r] = saved[c]

Promised == \A c \in (known \ due) \ overlapped : saved[c] # 0 => Arriving(c)

ContentInv == StoreNewest /\ OneLoaded /\ Promised
-----------------------------------------------------------------------------
\* Every step keeps the types.
LEMMA NextType == Types /\ [Next]_vars => Types'
<1> SUFFICES ASSUME Types, [Next]_vars
             PROVE  Types'
    OBVIOUS
<1> USE CacheAssumption DEF Types, TypeOK, Bases, RPCs, HPCs, store, heap, reload, request, history
<1>1. ASSUME NEW c \in Centroids, createNewCentroid(c)
      PROVE  Types'
    BY <1>1 DEF createNewCentroid
<1>2. ASSUME NEW c \in Centroids, deleteCentroid(c)
      PROVE  Types'
    BY <1>2 DEF deleteCentroid
<1>3. ASSUME NEW c \in Centroids, saveCentroid(c)
      PROVE  Types'
    BY <1>3 DEF saveCentroid, Unused
<1>4. ASSUME NEW r \in Reloads, onUpdate(r)
      PROVE  Types'
    BY <1>4 DEF onUpdate
<1>5. ASSUME NEW r \in Reloads, joinCentroid(r)
      PROVE  Types'
    BY <1>5 DEF joinCentroid
<1>6. ASSUME NEW r \in Reloads, loadCentroidUniqueOption(r)
      PROVE  Types'
    BY <1>6 DEF loadCentroidUniqueOption
<1>7. ASSUME NEW r \in Reloads, insertOrUpdate(r)
      PROVE  Types'
    BY <1>7 DEF insertOrUpdate
<1>8. ASSUME NEW r \in Reloads, setBase(r)
      PROVE  Types'
    BY <1>8 DEF setBase
<1>9. ASSUME NEW r \in Reloads, setBaseCounts(r)
      PROVE  Types'
    BY <1>9 DEF setBaseCounts
<1>10. ASSUME NEW r \in Reloads, setBaseReleases(r)
      PROVE  Types'
    BY <1>10 DEF setBaseReleases, decrCount
<1>11. ASSUME NEW r \in Reloads, addOrGetData(r)
      PROVE  Types'
    BY <1>11 DEF addOrGetData
<1>12. ASSUME NEW r \in Reloads, dropItem(r)
      PROVE  Types'
    BY <1>12 DEF dropItem, decrCount
<1>13. CASE getDocumentSimilarity
    BY <1>13 DEF getDocumentSimilarity
<1>14. CASE documentMissing
    BY <1>14 DEF documentMissing, Answers
<1>15. CASE multiGetDocumentSimilarity
    BY <1>15 DEF multiGetDocumentSimilarity
<1>16. CASE getTextSimilarity
    BY <1>16 DEF getTextSimilarity
<1>17. CASE getCentroidSimilarity
    BY <1>17 DEF getCentroidSimilarity
<1>18. CASE respond
    BY <1>18 DEF respond, Answers
<1>19. ASSUME NEW h \in Handles, getOption(h)
      PROVE  Types'
    BY <1>19 DEF getOption
<1>20. ASSUME NEW h \in Handles, ProxyCopy(h)
      PROVE  Types'
    BY <1>20 DEF ProxyCopy
<1>21. ASSUME NEW h \in Handles, ProxyCounts(h)
      PROVE  Types'
    BY <1>21 DEF ProxyCounts
<1>22. ASSUME NEW h \in Handles, score(h)
      PROVE  Types'
    BY <1>22 DEF score
<1>23. ASSUME NEW h \in Handles, release(h)
      PROVE  Types'
    BY <1>23 DEF release, decrCount
<1>24. CASE UNCHANGED vars
    BY <1>24 DEF vars
<1> QED
    BY <1>1, <1>2, <1>3, <1>4, <1>5, <1>6, <1>7, <1>8, <1>9, <1>10, <1>11, <1>12, <1>13, <1>14,
       <1>15, <1>16, <1>17, <1>18, <1>19, <1>20, <1>21, <1>22, <1>23, <1>24
    DEF Next, ReloadStep, HandleStep, LoadDocument

LEMMA InitType == Init => Types
<1> SUFFICES ASSUME Init
             PROVE  Types
    OBVIOUS
<1>1. saved \in [Centroids -> 0..MaxVersion]
    BY CacheAssumption DEF Init
<1>2. content \in [Bases -> 0..MaxVersion] /\ usage \in [Bases -> Int]
    BY <1>1, CacheAssumption DEF Init
<1>3. alive \in [Bases -> BOOLEAN]
    BY DEF Init
<1>4. map \in [Centroids -> Bases \cup {None}]
    BY <1>1 DEF Init, Bases
<1>5. TypeOK
    BY <1>1, <1>2, <1>3, <1>4, CacheAssumption DEF Init, TypeOK, Answers
<1>6. rpc \in [Reloads -> RPCs] /\ hpc \in [Handles -> HPCs]
    BY DEF Init, RPCs, HPCs
<1>7. raced \in BOOLEAN
    BY DEF Init
<1> QED
    BY <1>5, <1>6, <1>7, CacheAssumption DEF Init, Types

\* A request only ever follows a base that its copy has read, and the release of an old base
\* is that of one a setBase() has replaced, whatever interleaves.
THEOREM TypeCorrect == Spec => []TypeOK
<1>1. Types => TypeOK
    BY DEF Types
<1> QED
    BY <1>1, InitType, NextType, PTL DEF Spec

\* A base is private until its own reload publishes it.
LEMMA NextPrivate ==
    Types /\ Private /\ [Next]_vars => Private'
<1> SUFFICES ASSUME Types, Private, Types', [Next]_vars
             PROVE  Private'
    BY NextType
<1> USE CacheAssumption DEF Types, TypeOK, Bases, RPCs, store, heap, reload, request, history,
        Private, Taken
<1>1. ASSUME NEW c \in Centroids, createNewCentroid(c) \/ deleteCentroid(c) \/ saveCentroid(c)
      PROVE  Private'
    BY <1>1 DEF createNewCentroid, deleteCentroid, saveCentroid
<1>2. ASSUME NEW r \in Reloads, onUpdate(r) \/ joinCentroid(r) \/ loadCentroidUniqueOption(r)
      PROVE  Private'
    BY <1>2 DEF onUpdate, joinCentroid, loadCentroidUniqueOption
<1>3. ASSUME NEW r \in Reloads, insertOrUpdate(r)
      PROVE  Private'
    BY <1>3 DEF insertOrUpdate
<1>4. ASSUME NEW r \in Reloads, setBase(r)
      PROVE  Private'
    BY <1>4 DEF setBase
<1>5. ASSUME NEW r \in Reloads, setBaseCounts(r) \/ setBaseReleases(r) \/ dropItem(r)
      PROVE  Private'
    BY <1>5 DEF setBaseCounts, setBaseReleases, dropItem, decrCount
<1>6. ASSUME NEW r \in Reloads, addOrGetData(r)
      PROVE  Private'
    BY <1>6 DEF addOrGetData
<1>7. CASE getDocumentSimilarity \/ getTextSimilarity \/ getCentroidSimilarity
    BY <1>7 DEF getDocumentSimilarity, getTextSimilarity, getCentroidSimilarity
<1>8. CASE documentMissing \/ multiGetDocumentSimilarity \/ respond
    BY <1>8 DEF documentMissing, multiGetDocumentSimilarity, respond
<1>9. ASSUME NEW h \in Handles, getOption(h) \/ score(h) \/ release(h)
      PROVE  Private'
    BY <1>9 DEF getOption, score, release, decrCount
<1>10. ASSUME NEW h \in Handles, ProxyCopy(h)
      PROVE  Private'
    BY <1>10 DEF ProxyCopy
<1>11. ASSUME NEW h \in Handles, ProxyCounts(h)
      PROVE  Private'
    BY <1>11 DEF ProxyCounts
<1>12. CASE UNCHANGED vars
    BY <1>12 DEF vars
<1> QED
    BY <1>1, <1>2, <1>3, <1>4, <1>5, <1>6, <1>7, <1>8, <1>9, <1>10, <1>11, <1>12
    DEF Next, ReloadStep, HandleStep, LoadDocument

\* A reload publishes its base under its own centroid.
LEMMA NextHomes ==
    Types /\ Private /\ Homes /\ [Next]_vars => Homes'
<1> SUFFICES ASSUME Types, Private, Homes, Types', [Next]_vars
             PROVE  Homes'
    BY NextType
<1> USE CacheAssumption DEF Types, TypeOK, Bases, RPCs, store, heap, reload, request, history,
        Private, Homes
<1>1. ASSUME NEW c \in Centroids, createNewCentroid(c) \/ deleteCentroid(c) \/ saveCentroid(c)
      PROVE  Homes'
    BY <1>1 DEF createNewCentroid, deleteCentroid, saveCentroid
<1>2. ASSUME NEW r \in Reloads, onUpdate(r) \/ joinCentroid(r) \/ loadCentroidUniqueOption(r)
      PROVE  Homes'
    BY <1>2 DEF onUpdate, joinCentroid, loadCentroidUniqueOption
<1>3. ASSUME NEW r \in Reloads, insertOrUpdate(r)
      PROVE  Homes'
    BY <1>3 DEF insertOrUpdate
<1>4. ASSUME NEW r \in Reloads, setBase(r)
      PROVE  Homes'
    BY <1>4 DEF setBase
<1>5. ASSUME NEW r \in Reloads, setBaseCounts(r) \/ setBaseReleases(r) \/ dropItem(r)
      PROVE  Homes'
    BY <1>5 DEF setBaseCounts, setBaseReleases, dropItem, decrCount
<1>6. ASSUME NEW r \in Reloads, addOrGetData(r)
      PROVE  Homes'
    BY <1>6 DEF addOrGetData
<1>7. CASE getDocumentSimilarity \/ getTextSimilarity \/ getCentroidSimilarity
    BY <1>7 DEF getDocumentSimilarity, getTextSimilarity, getCentroidSimilarity
<1>8. CASE documentMissing \/ multiGetDocumentSimilarity \/ respond
    BY <1>8 DEF documentMissing, multiGetDocumentSimilarity, respond
<1>9. ASSUME NEW h \in Handles, getOption(h) \/ score(h) \/ release(h)
      PROVE  Homes'
    BY <1>9 DEF getOption, score, release, decrCount
<1>10. ASSUME NEW h \in Handles, ProxyCopy(h)
      PROVE  Homes'
    BY <1>10 DEF ProxyCopy
<1>11. ASSUME NEW h \in Handles, ProxyCounts(h)
      PROVE  Homes'
    BY <1>11 DEF ProxyCounts
<1>12. CASE UNCHANGED vars
    BY <1>12 DEF vars
<1> QED
    BY <1>1, <1>2, <1>3, <1>4, <1>5, <1>6, <1>7, <1>8, <1>9, <1>10, <1>11, <1>12
    DEF Next, ReloadStep, HandleStep, LoadDocument

\* The history variable records every step that would break Windows.
LEMMA NextWindows ==
    Types /\ Private /\ Homes /\ Windows /\ [Next]_vars => Windows'
<1> SUFFICES ASSUME Types, Private, Homes, Windows, Types', [Next]_vars
             PROVE  Windows'
    BY NextType
<1> USE CacheAssumption DEF Types, TypeOK, Bases, RPCs, store, heap, reload, request, history,
        Private, Homes, Taken, Windows, Uncounted
<1>1. ASSUME NEW c \in Centroids, createNewCentroid(c) \/ deleteCentroid(c) \/ saveCentroid(c)
      PROVE  Windows'
    BY <1>1 DEF createNewCentroid, deleteCentroid, saveCentroid
<1>2. ASSUME NEW r \in Reloads, onUpdate(r) \/ joinCentroid(r) \/ loadCentroidUniqueOption(r)
      PROVE  Windows'
    BY <1>2 DEF onUpdate, joinCentroid, loadCentroidUniqueOption
<1>3. ASSUME NEW r \in Reloads, insertOrUpdate(r)
      PROVE  Windows'
    BY <1>3 DEF insertOrUpdate
<1>4. ASSUME NEW r \in Reloads, setBase(r)
      PROVE  Windows'
  <2> SUFFICES ASSUME ~raced'
               PROVE  Windows'
    OBVIOUS
  <2>0. ~raced /\ ~Uncounted(map[rcentroid[r]])
    BY <1>4, Zenon DEF setBase
  <2>1. ~raced /\ ~Uncounted(map[rcentroid[r]]) /\ map[rcentroid[r]] # r /\ ~Taken(r)
    BY <1>4, <2>0 DEF setBase
  <2>2. ASSUME NEW q \in Reloads, rpc'[q] = "incr"
        PROVE  map'[rcentroid'[q]] = q /\ ~Taken(q)'
    <3>1. CASE q = r
      BY <1>4, <2>1, <3>1 DEF setBase
    <3>2. CASE q # r
      BY <1>4, <2>1, <2>2, <3>2 DEF setBase
    <3> QED
      BY <3>1, <3>2
  <2>3. ASSUME NEW h \in Handles, hpc'[h] = "count"
        PROVE  /\ map'[hcentroid'[h]] = hbase'[h]
               /\ hbase'[h] \in Reloads => rpc'[hbase'[h]] # "incr"
    BY <1>4, <2>1, <2>3 DEF setBase
  <2> QED
    BY <2>2, <2>3
<1>5. ASSUME NEW r \in Reloads, setBaseCounts(r) \/ setBaseReleases(r) \/ dropItem(r)
      PROVE  Windows'
    BY <1>5 DEF setBaseCounts, setBaseReleases, dropItem, decrCount
<1>6. ASSUME NEW r \in Reloads, addOrGetData(r)
      PROVE  Windows'
    BY <1>6 DEF addOrGetData
<1>7. CASE getDocumentSimilarity \/ getTextSimilarity \/ getCentroidSimilarity
    BY <1>7 DEF getDocumentSimilarity, getTextSimilarity, getCentroidSimilarity
<1>8. CASE documentMissing \/ multiGetDocumentSimilarity \/ respond
    BY <1>8 DEF documentMissing, multiGetDocumentSimilarity, respond
<1>9. ASSUME NEW h \in Handles, getOption(h) \/ score(h) \/ release(h)
      PROVE  Windows'
    BY <1>9 DEF getOption, score, release, decrCount
<1>10. ASSUME NEW h \in Handles, ProxyCopy(h)
      PROVE  Windows'
  <2> SUFFICES ASSUME ~raced'
               PROVE  Windows'
    OBVIOUS
  <2>0. ~raced /\ ~(hbase'[h] \in Reloads /\ rpc[hbase'[h]] = "incr")
    BY <1>10, Zenon DEF ProxyCopy
  <2>1. /\ hbase' = [hbase EXCEPT ![h] = map[hcentroid[h]]] /\ map[hcentroid[h]] \in Bases
        /\ ~raced /\ (map[hcentroid[h]] \in Reloads => rpc[map[hcentroid[h]]] # "incr")
    BY <1>10, <2>0 DEF ProxyCopy
  <2>2. ASSUME NEW q \in Reloads, rpc'[q] = "incr"
        PROVE  map'[rcentroid'[q]] = q /\ ~Taken(q)'
    BY <1>10, <2>1, <2>2 DEF ProxyCopy
  <2>3. ASSUME NEW g \in Handles, hpc'[g] = "count"
        PROVE  /\ map'[hcentroid'[g]] = hbase'[g]
               /\ hbase'[g] \in Reloads => rpc'[hbase'[g]] # "incr"
    BY <1>10, <2>1, <2>3 DEF ProxyCopy
  <2> QED
    BY <2>2, <2>3
<1>11. ASSUME NEW h \in Handles, ProxyCounts(h)
      PROVE  Windows'
    BY <1>11 DEF ProxyCounts
<1>12. CASE UNCHANGED vars
    BY <1>12 DEF vars
<1> QED
    BY <1>1, <1>2, <1>3, <1>4, <1>5, <1>6, <1>7, <1>8, <1>9, <1>10, <1>11, <1>12
    DEF Next, ReloadStep, HandleStep, LoadDocument

-----------------------------------------------------------------------------
\* CountsExact for one base; a base is pending between its creation and its first count.
Pending(b) == b \in Reloads /\ rpc[b] \in {"set", "incr"}

Exact(b) ==
    /\ usage[b] = Cardinality(Proxies(b))
    /\ alive[b] <=> Proxies(b) # {} \/ Pending(b)

LEMMA ProxiesFinite == \A b : IsFiniteSet(Proxies(b)) /\ IsFiniteSet(Proxies(b)')
<1>1. IsFiniteSet(Centroids \cup Handles \cup Reloads)
    BY CacheAssumption, FS_Union
<1>2. \A b : /\ Proxies(b) \subseteq Centroids \cup Handles \cup Reloads
             /\ Proxies(b)' \subseteq Centroids \cup Handles \cup Reloads
    BY DEF Proxies
<1> QED
    BY <1>1, <1>2, FS_Subset

\* A step that neither counts on a base nor changes its proxies.
LEMMA SameProxies ==
    ASSUME NEW b, Exact(b), Proxies(b)' = Proxies(b), Pending(b)' <=> Pending(b),
           usage'[b] = usage[b], alive'[b] = alive[b]
    PROVE  Exact(b)'
BY DEF Exact

\* A step that adds a counted proxy to a base that lives.
LEMMA ProxyAdded ==
    ASSUME NEW b, Exact(b), NEW x, x \notin Proxies(b), Proxies(b)' = Proxies(b) \cup {x},
           usage'[b] = usage[b] + 1, alive[b], alive'[b] = alive[b]
    PROVE  Exact(b)'
<1>1. Cardinality(Proxies(b)') = Cardinality(Proxies(b)) + 1
    BY ProxiesFinite, FS_AddElement
<1> QED
    BY <1>1 DEF Exact

\* A step that releases a proxy, and frees the base when none is left.
LEMMA ProxyReleased ==
    ASSUME NEW b \in Bases, usage \in [Bases -> Int], alive \in [Bases -> BOOLEAN],
           Exact(b), NEW x \in Proxies(b), Proxies(b)' = Proxies(b) \ {x},
           ~Pending(b)', decrCount(b)
    PROVE  Exact(b)'
<1>1. Cardinality(Proxies(b)') = Cardinality(Proxies(b)) - 1
    BY ProxiesFinite, FS_RemoveElement
<1>2. Cardinality(Proxies(b)') = 0 <=> Proxies(b)' = {}
    BY ProxiesFinite, FS_EmptySet
<1>3. usage'[b] = usage[b] - 1 /\ alive'[b] = (alive[b] /\ usage'[b] # 0)
    BY DEF decrCount
<1>4. alive[b]
    BY DEF Exact
<1>5. usage'[b] = Cardinality(Proxies(b)')
    BY <1>1, <1>3 DEF Exact
<1>6. alive'[b] <=> Proxies(b)' # {}
    BY <1>2, <1>3, <1>4, <1>5
<1> QED
    BY <1>5, <1>6 DEF Exact

\* The proxies of the map and of other reloads move, the number stays.
LEMMA ProxyMoved ==
    ASSUME NEW b, Exact(b), NEW x \in Proxies(b), NEW y, y \notin Proxies(b),
           Proxies(b)' = (Proxies(b) \ {x}) \cup {y},
           usage'[b] = usage[b], alive'[b] = alive[b]
    PROVE  Exact(b)'
<1>1. Cardinality(Proxies(b) \ {x}) = Cardinality(Proxies(b)) - 1 /\ IsFiniteSet(Proxies(b) \ {x})
    BY ProxiesFinite, FS_RemoveElement
<1>2. Cardinality(Proxies(b)') = Cardinality(Proxies(b) \ {x}) + 1
    BY <1>1, FS_AddElement
<1>3. Cardinality(Proxies(b)) \in Nat
    BY ProxiesFinite, FS_CardinalityType
<1> QED
    BY <1>1, <1>2, <1>3 DEF Exact

\* A step that leaves the counts alone and changes no proxy that is counted.
LEMMA QuietStep ==
    ASSUME Types, CountsExact, ~raced, UNCHANGED <<map, usage, alive, rprev>>,
           \A r \in Reloads : \/ rpc'[r] = rpc[r]
                              \/ {rpc[r], rpc'[r]} \subseteq {"new", "load", "find", "done"},
           \A h \in Handles : \/ hpc'[h] = hpc[h] /\ hbase'[h] = hbase[h]
                              \/ {hpc[h], hpc'[h]} = {"score", "release"} /\ hbase'[h] = hbase[h]
                              \/ {hpc[h], hpc'[h]} \cap {"score", "release"} = {}
    PROVE  CountsExact'
<1>1. \A r \in Reloads : \A S \in {{"incr"}, {"incr", "decr"}, {"add", "drop"}, {"set", "incr"}} :
        rpc'[r] \in S <=> rpc[r] \in S
    OBVIOUS
<1>2. \A h \in Handles : /\ hpc'[h] \in {"score", "release"} <=> hpc[h] \in {"score", "release"}
                         /\ hpc'[h] \in {"score", "release"} => hbase'[h] = hbase[h]
    OBVIOUS
<1>3. ASSUME NEW b \in Bases
      PROVE  Exact(b)'
  <2>1. Proxies(b)' = Proxies(b)
    BY <1>1, <1>2 DEF Proxies
  <2>2. Pending(b)' <=> Pending(b)
    BY <1>1 DEF Pending
  <2> QED
    BY <2>1, <2>2, SameProxies DEF CountsExact, Exact, Pending
<1> QED
    BY <1>3 DEF CountsExact, Exact, Pending

\* The steps of reloads and requests that count, release or move a proxy.
LEMMA NextCounts ==
    CountInv /\ [Next]_vars => CountsExact'
<1> SUFFICES ASSUME CountInv, ~raced, ~raced', [Next]_vars
             PROVE  CountsExact'
  <2>1. CountInv /\ [Next]_vars /\ ~raced' => ~raced
    <3> SUFFICES ASSUME CountInv, [Next]_vars, raced
                 PROVE  raced'
        OBVIOUS
    <3>1. ASSUME NEW r \in Reloads, setBase(r)
          PROVE  raced'
        BY <3>1 DEF setBase
    <3>2. ASSUME NEW h \in Handles, ProxyCopy(h)
          PROVE  raced'
        BY <3>2 DEF ProxyCopy
    <3> QED
        BY <3>1, <3>2 DEF Next, ReloadStep, HandleStep, LoadDocument, history, vars,
            createNewCentroid, deleteCentroid, saveCentroid, onUpdate, joinCentroid,
            loadCentroidUniqueOption, insertOrUpdate, setBaseCounts, setBaseReleases,
            addOrGetData, dropItem, getDocumentSimilarity, documentMissing,
            multiGetDocumentSimilarity, getTextSimilarity, getCentroidSimilarity, respond,
            getOption, ProxyCounts, score, release
  <2> QED
    BY <2>1 DEF CountsExact
<1>0. \A b \in Bases : Exact(b)
    BY DEF CountInv, CountsExact, Exact, Pending
<1> DEFINE AllExact == \A b \in Bases : Exact(b)'
<1>1. AllExact => CountsExact'
    BY DEF CountsExact, Exact, Pending
<1>2. Types /\ Private /\ Homes /\ Windows /\ CountsExact
    BY DEF CountInv
<1>3. Types'
    BY <1>2, NextType
<1> USE CacheAssumption DEF Types, TypeOK, Bases, RPCs, HPCs, store, heap, reload, request, history
<1>4. ASSUME NEW c \in Centroids, createNewCentroid(c) \/ deleteCentroid(c) \/ saveCentroid(c)
      PROVE  CountsExact'
    BY <1>2, <1>4, QuietStep DEF createNewCentroid, deleteCentroid, saveCentroid
<1>5. ASSUME NEW r \in Reloads, onUpdate(r)
      PROVE  CountsExact'
    BY <1>2, <1>5, QuietStep DEF onUpdate
<1>6. ASSUME NEW r \in Reloads, joinCentroid(r)
      PROVE  CountsExact'
    BY <1>2, <1>6, QuietStep DEF joinCentroid
<1>7. ASSUME NEW r \in Reloads, loadCentroidUniqueOption(r)
      PROVE  CountsExact'
    BY <1>2, <1>7, QuietStep DEF loadCentroidUniqueOption
<1>8. ASSUME NEW r \in Reloads, insertOrUpdate(r)
      PROVE  CountsExact'
  <2>1. ASSUME NEW b \in Bases, b # r
        PROVE  Exact(b)'
    <3>1. Proxies(b)' = Proxies(b)
      BY <1>8, <2>1 DEF Proxies, insertOrUpdate
    <3>2. Pending(b)' <=> Pending(b)
      BY <1>8, <2>1 DEF Pending, insertOrUpdate
    <3> QED
      BY <1>0, <1>2, <1>8, <2>1, <3>1, <3>2, SameProxies DEF insertOrUpdate
  <2>2. Proxies(r) = {} /\ alive'[r]
    BY <1>2, <1>8 DEF Proxies, Private, Taken, insertOrUpdate
  <2>3. CASE rpc'[r] = "set"
    <3>1. Proxies(r)' = {} /\ usage'[r] = 0 /\ Pending(r)'
      BY <1>2, <1>8, <2>3 DEF Proxies, Private, Taken, Pending, insertOrUpdate
    <3> QED
      BY <1>1, <2>1, <2>2, <3>1, FS_EmptySet DEF Exact
  <2>4. CASE rpc'[r] = "add"
    <3>1. Proxies(r)' = {r} /\ usage'[r] = 1
      BY <1>2, <1>8, <2>4 DEF Proxies, Private, Taken, insertOrUpdate
    <3> QED
      BY <1>1, <2>1, <2>2, <3>1, FS_Singleton DEF Exact
  <2> QED
    BY <1>2, <1>8, <2>3, <2>4 DEF insertOrUpdate
<1>9. ASSUME NEW r \in Reloads, setBase(r)
      PROVE  CountsExact'
  <2>0. PICK c \in Centroids, old \in Bases : c = rcentroid[r] /\ old = map[c]
    BY <1>2, <1>9 DEF setBase
  <2>1. /\ c = rcentroid[r] /\ old = map[c] /\ old # r /\ rpc[r] = "set"
        /\ map' = [map EXCEPT ![c] = r] /\ rpc' = [rpc EXCEPT ![r] = "incr"]
        /\ rprev' = [rprev EXCEPT ![r] = old]
        /\ UNCHANGED <<usage, alive, hpc, hbase>>
    BY <1>2, <1>9, <2>0 DEF setBase, Private
  <2>2. ~Uncounted(old)
    BY <1>9, <2>0, Zenon DEF setBase
  <2>3. ASSUME NEW b \in Bases, b # old
        PROVE  Exact(b)'
    <3>1. Proxies(b)' = Proxies(b)
      <4>1. CASE b = r
        BY <1>2, <2>1, <2>3, <4>1 DEF Proxies, Private
      <4>2. CASE b # r
        BY <1>2, <2>1, <2>3, <4>2 DEF Proxies
      <4> QED
        BY <4>1, <4>2
    <3>2. Pending(b)' <=> Pending(b)
      BY <2>1 DEF Pending
    <3> QED
      BY <1>0, <2>1, <3>1, <3>2, SameProxies
  <2>4. c \in Proxies(old) /\ r \notin Proxies(old) /\ ~Pending(old) /\ ~Pending(old)'
    BY <1>2, <2>1, <2>2 DEF Proxies, Pending, Private, Uncounted
  <2>5. Proxies(old)' = (Proxies(old) \ {c}) \cup {r}
    BY <1>2, <2>1, <2>2 DEF Proxies, Homes, Uncounted
  <2>6. Exact(old)'
    BY <1>0, <2>1, <2>4, <2>5, ProxyMoved
  <2> QED
    BY <1>1, <2>3, <2>6
<1>10. ASSUME NEW r \in Reloads, setBaseCounts(r)
      PROVE  CountsExact'
  <2>0. PICK c \in Centroids : c = rcentroid[r]
    BY <1>2
  <2>1. /\ rpc[r] = "incr" /\ rpc' = [rpc EXCEPT ![r] = "decr"] /\ map[c] = r
        /\ usage' = [usage EXCEPT ![r] = @ + 1] /\ UNCHANGED <<map, alive, rprev, hpc, hbase>>
    BY <1>2, <1>10, <2>0 DEF setBaseCounts, Windows
  <2>2. ASSUME NEW b \in Bases, b # r
        PROVE  Exact(b)'
    <3>1. Proxies(b)' = Proxies(b)
      BY <1>2, <2>1, <2>2 DEF Proxies
    <3>2. Pending(b)' <=> Pending(b)
      BY <1>2, <2>1, <2>2 DEF Pending
    <3> QED
      BY <1>0, <1>2, <2>1, <2>2, <3>1, <3>2, SameProxies
  <2>3. c \notin Proxies(r) /\ Proxies(r)' = Proxies(r) \cup {c}
    BY <1>2, <2>0, <2>1 DEF Proxies, Homes
  <2>4. alive[r] /\ r \in Bases
    BY <1>0, <2>1 DEF Exact, Pending
  <2>5. Exact(r)'
    BY <1>0, <1>2, <2>1, <2>3, <2>4, ProxyAdded
  <2> QED
    BY <1>1, <2>2, <2>5
<1>11. ASSUME NEW r \in Reloads, setBaseReleases(r)
      PROVE  CountsExact'
  <2>0. PICK old \in Bases : old = rprev[r]
    BY <1>2, <1>11 DEF setBaseReleases
  <2>1. /\ rpc[r] = "decr" /\ rpc' = [rpc EXCEPT ![r] = "done"] /\ decrCount(old)
        /\ UNCHANGED <<map, rprev, hpc, hbase>>
    BY <1>11, <2>0 DEF setBaseReleases
  <2>2. ASSUME NEW b \in Bases, b # old
        PROVE  Exact(b)'
    <3>1. Proxies(b)' = Proxies(b)
      BY <1>2, <2>0, <2>1, <2>2 DEF Proxies
    <3>2. Pending(b)' <=> Pending(b)
      BY <1>2, <2>1, <2>2 DEF Pending
    <3> QED
      BY <1>0, <1>2, <2>1, <2>2, <3>1, <3>2, SameProxies DEF decrCount
  <2>3. r \in Proxies(old) /\ Proxies(old)' = Proxies(old) \ {r}
    BY <1>2, <2>0, <2>1 DEF Proxies
  <2>4. ~Pending(old)'
    BY <1>2, <2>0, <2>1 DEF Pending, Private, Windows, Taken
  <2>5. Exact(old)'
    BY <1>0, <1>2, <2>1, <2>3, <2>4, ProxyReleased
  <2> QED
    BY <1>1, <2>2, <2>5
<1>12. ASSUME NEW r \in Reloads, addOrGetData(r)
      PROVE  CountsExact'
  <2>0. PICK c \in Centroids : c = rcentroid[r]
    BY <1>2
  <2>1. /\ rpc[r] = "add" /\ rpc' = [rpc EXCEPT ![r] = "drop"]
        /\ UNCHANGED <<alive, rprev, hpc, hbase>>
    BY <1>12 DEF addOrGetData
  <2>2. \A b \in Bases : Pending(b)' <=> Pending(b)
    BY <1>2, <2>1 DEF Pending
  <2>3. CASE map[c] # None
    <3>1. UNCHANGED <<map, usage>>
      BY <1>12, <2>0, <2>3 DEF addOrGetData
    <3>2. \A b \in Bases : Proxies(b)' = Proxies(b)
      BY <1>2, <2>1, <3>1 DEF Proxies
    <3> QED
      BY <1>0, <1>1, <2>1, <2>2, <3>1, <3>2, SameProxies
  <2>4. CASE map[c] = None
    <3>1. map' = [map EXCEPT ![c] = r] /\ usage' = [usage EXCEPT ![r] = @ + 1]
      BY <1>12, <2>0, <2>4 DEF addOrGetData
    <3>2. ASSUME NEW b \in Bases, b # r
          PROVE  Exact(b)'
      <4>1. Proxies(b)' = Proxies(b)
        BY <1>2, <2>1, <2>4, <3>1, <3>2 DEF Proxies
      <4> QED
        BY <1>0, <1>2, <2>1, <2>2, <3>1, <3>2, <4>1, SameProxies
    <3>3. c \notin Proxies(r) /\ Proxies(r)' = Proxies(r) \cup {c} /\ r \in Proxies(r)
      BY <1>2, <2>1, <2>4, <3>1 DEF Proxies
    <3>4. alive[r] /\ r \in Bases
      BY <1>0, <3>3 DEF Exact
    <3>5. Exact(r)'
      BY <1>0, <1>2, <2>1, <3>1, <3>3, <3>4, ProxyAdded
    <3> QED
      BY <1>1, <3>2, <3>5
  <2> QED
    BY <2>3, <2>4
<1>13. ASSUME NEW r \in Reloads, dropItem(r)
      PROVE  CountsExact'
  <2>1. /\ rpc[r] = "drop" /\ rpc' = [rpc EXCEPT ![r] = "done"] /\ decrCount(r)
        /\ UNCHANGED <<map, rprev, hpc, hbase>>
    BY <1>13 DEF dropItem
  <2>2. ASSUME NEW b \in Bases, b # r
        PROVE  Exact(b)'
    <3>1. Proxies(b)' = Proxies(b)
      BY <1>2, <2>1, <2>2 DEF Proxies
    <3>2. Pending(b)' <=> Pending(b)
      BY <1>2, <2>1, <2>2 DEF Pending
    <3> QED
      BY <1>0, <1>2, <2>1, <2>2, <3>1, <3>2, SameProxies DEF decrCount
  <2>3. r \in Proxies(r) /\ Proxies(r)' = Proxies(r) \ {r} /\ ~Pending(r)' /\ r \in Bases
    BY <1>2, <2>1 DEF Proxies, Pending
  <2>4. Exact(r)'
    BY <1>0, <1>2, <2>1, <2>3, ProxyReleased
  <2> QED
    BY <1>1, <2>2, <2>4
<1>14. CASE getDocumentSimilarity \/ getTextSimilarity \/ getCentroidSimilarity
    BY <1>2, <1>14, QuietStep DEF getDocumentSimilarity, getTextSimilarity, getCentroidSimilarity
<1>15. CASE documentMissing \/ multiGetDocumentSimilarity \/ respond
    BY <1>2, <1>15, QuietStep DEF documentMissing, multiGetDocumentSimilarity, respond
<1>16. ASSUME NEW h \in Handles, getOption(h)
      PROVE  CountsExact'
    BY <1>2, <1>16, QuietStep DEF getOption
<1>17. ASSUME NEW h \in Handles, ProxyCopy(h)
      PROVE  CountsExact'
    BY <1>2, <1>17, QuietStep DEF ProxyCopy
<1>18. ASSUME NEW h \in Handles, ProxyCounts(h)
      PROVE  CountsExact'
  <2>0. PICK base \in Bases, c \in Centroids : base = hbase[h] /\ c = hcentroid[h]
    BY <1>2, <1>18 DEF ProxyCounts
  <2>1. /\ hpc[h] = "count" /\ hpc' = [hpc EXCEPT ![h] = "score"]
        /\ usage' = [usage EXCEPT ![base] = @ + 1]
        /\ UNCHANGED <<map, alive, rpc, rprev, hbase>>
    BY <1>18, <2>0 DEF ProxyCounts
  <2>2. \A b \in Bases : Pending(b)' <=> Pending(b)
    BY <2>1 DEF Pending
  <2>3. ASSUME NEW b \in Bases, b # base
        PROVE  Exact(b)'
    <3>1. Proxies(b)' = Proxies(b)
      BY <1>2, <2>0, <2>1, <2>3 DEF Proxies
    <3> QED
      BY <1>0, <1>2, <2>1, <2>2, <2>3, <3>1, SameProxies
  <2>4. h \notin Proxies(base) /\ Proxies(base)' = Proxies(base) \cup {h}
    BY <1>2, <2>0, <2>1 DEF Proxies
  <2>5. c \in Proxies(base)
    BY <1>2, <2>0, <2>1 DEF Proxies, Windows
  <2>6. alive[base]
    BY <1>0, <2>5 DEF Exact
  <2>7. Exact(base)'
    BY <1>0, <1>2, <2>1, <2>4, <2>6, ProxyAdded
  <2> QED
    BY <1>1, <2>3, <2>7
<1>19. ASSUME NEW h \in Handles, score(h)
      PROVE  CountsExact'
    BY <1>2, <1>19, QuietStep DEF score
<1>20. ASSUME NEW h \in Handles, release(h)
      PROVE  CountsExact'
  <2>0. PICK base \in Bases : base = hbase[h]
    BY <1>2, <1>20 DEF release
  <2>1. /\ hpc[h] = "release" /\ hpc' = [hpc EXCEPT ![h] = "done"] /\ decrCount(base)
        /\ UNCHANGED <<map, rpc, rprev, hbase>>
    BY <1>20, <2>0 DEF release
  <2>2. ASSUME NEW b \in Bases, b # base
        PROVE  Exact(b)'
    <3>1. Proxies(b)' = Proxies(b)
      BY <1>2, <2>0, <2>1, <2>2 DEF Proxies
    <3>2. Pending(b)' <=> Pending(b)
      BY <2>1 DEF Pending
    <3> QED
      BY <1>0, <1>2, <2>1, <2>2, <3>1, <3>2, SameProxies DEF decrCount
  <2>3. h \in Proxies(base) /\ Proxies(base)' = Proxies(base) \ {h}
    BY <1>2, <2>0, <2>1 DEF Proxies
  <2>4. ~Pending(base)'
    BY <1>2, <2>0, <2>1 DEF Pending, Private, Windows, Taken
  <2>5. Exact(base)'
    BY <1>0, <1>2, <2>1, <2>3, <2>4, ProxyReleased
  <2> QED
    BY <1>1, <2>2, <2>5
<1>21. CASE UNCHANGED vars
    BY <1>2, <1>21, QuietStep DEF vars
<1> QED
    BY <1>4, <1>5, <1>6, <1>7, <1>8, <1>9, <1>10, <1>11, <1>12, <1>13, <1>14, <1>15, <1>16,
       <1>17, <1>18, <1>19, <1>20, <1>21
    DEF Next, ReloadStep, HandleStep, LoadDocument

LEMMA InitCounts == Init => CountInv
<1> SUFFICES ASSUME Init
             PROVE  CountInv
    OBVIOUS
<1>1. Types
    BY InitType
<1>2. Private /\ Homes /\ Windows
    BY <1>1, CacheAssumption DEF Init, Private, Homes, Windows, Taken, Bases
<1>3. ASSUME NEW b \in Bases
      PROVE  Exact(b)
  <2>1. CASE b \in known
    <3>1. Proxies(b) = {b} /\ usage[b] = 1 /\ alive[b]
      BY <2>1, CacheAssumption DEF Init, Proxies, Bases
    <3> QED
      BY <3>1, FS_Singleton DEF Exact
  <2>2. CASE b \notin known
    <3>1. Proxies(b) = {} /\ ~Pending(b) /\ usage[b] = 0 /\ ~alive[b]
      BY <2>2, CacheAssumption DEF Init, Proxies, Bases, Pending
    <3> QED
      BY <3>1, FS_EmptySet DEF Exact
  <2> QED
    BY <2>1, <2>2
<1> QED
    BY <1>1, <1>2, <1>3 DEF CountInv, CountsExact, Exact, Pending

LEMMA CountInvariant == Spec => []CountInv
<1>1. CountInv /\ [Next]_vars => CountInv'
    BY NextType, NextPrivate, NextHomes, NextWindows, NextCounts DEF CountInv
<1> QED
    BY <1>1, InitCounts, PTL DEF Spec

\* Reference counting is exact outside the two windows of MultiVersionPtr, for any number of
\* reloads and requests: no base is freed in use, freed twice or leaked.
THEOREM CountsAreExact == Spec => []CountsExact
<1>1. CountInv => CountsExact
    BY DEF CountInv
<1> QED
    BY <1>1, CountInvariant, PTL

-----------------------------------------------------------------------------
\* Nothing in the cache or on its way is newer than the store.
LEMMA NextNewest ==
    Types /\ Private /\ StoreNewest /\ [Next]_vars => StoreNewest'
<1> SUFFICES ASSUME Types, Private, StoreNewest, Types', [Next]_vars
             PROVE  StoreNewest'
    BY NextType
<1> USE CacheAssumption DEF Types, TypeOK, Bases, RPCs, store, heap, reload, request, history,
        Private, StoreNewest
<1>1. ASSUME NEW c \in Centroids, createNewCentroid(c)
      PROVE  StoreNewest'
    BY <1>1 DEF createNewCentroid
<1>2. ASSUME NEW c \in Centroids, deleteCentroid(c)
      PROVE  StoreNewest'
    BY <1>2 DEF deleteCentroid
<1>3. ASSUME NEW c \in Centroids, saveCentroid(c)
      PROVE  StoreNewest'
    BY <1>3 DEF saveCentroid
<1>4. ASSUME NEW r \in Reloads, onUpdate(r)
      PROVE  StoreNewest'
    BY <1>4 DEF onUpdate
<1>5. ASSUME NEW r \in Reloads, joinCentroid(r)
      PROVE  StoreNewest'
    BY <1>5 DEF joinCentroid
<1>6. ASSUME NEW r \in Reloads, loadCentroidUniqueOption(r)
      PROVE  StoreNewest'
    BY <1>6 DEF loadCentroidUniqueOption
<1>7. ASSUME NEW r \in Reloads, insertOrUpdate(r)
      PROVE  StoreNewest'
    BY <1>7 DEF insertOrUpdate
<1>8. ASSUME NEW r \in Reloads, setBase(r)
      PROVE  StoreNewest'
    BY <1>8 DEF setBase
<1>9. ASSUME NEW r \in Reloads, setBaseCounts(r) \/ setBaseReleases(r) \/ dropItem(r)
      PROVE  StoreNewest'
    BY <1>9 DEF setBaseCounts, setBaseReleases, dropItem, decrCount
<1>10. ASSUME NEW r \in Reloads, addOrGetData(r)
      PROVE  StoreNewest'
    BY <1>10 DEF addOrGetData
<1>11. CASE getDocumentSimilarity \/ getTextSimilarity \/ getCentroidSimilarity
    BY <1>11 DEF getDocumentSimilarity, getTextSimilarity, getCentroidSimilarity
<1>12. CASE documentMissing \/ multiGetDocumentSimilarity \/ respond
    BY <1>12 DEF documentMissing, multiGetDocumentSimilarity, respond
<1>13. ASSUME NEW h \in Handles, getOption(h) \/ score(h) \/ release(h)
      PROVE  StoreNewest'
    BY <1>13 DEF getOption, score, release, decrCount
<1>14. ASSUME NEW h \in Handles, ProxyCopy(h)
      PROVE  StoreNewest'
    BY <1>14 DEF ProxyCopy
<1>15. ASSUME NEW h \in Handles, ProxyCounts(h)
      PROVE  StoreNewest'
    BY <1>15 DEF ProxyCounts
<1>16. CASE UNCHANGED vars
    BY <1>16 DEF vars
<1> QED
    BY <1>1, <1>2, <1>3, <1>4, <1>5, <1>6, <1>7, <1>8, <1>9, <1>10, <1>11, <1>12, <1>13,
       <1>14, <1>15, <1>16
    DEF Next, ReloadStep, HandleStep, LoadDocument

\* Only the one loaded reload of a centroid changes what the map has of it.
LEMMA NextOneLoaded ==
    Types /\ Private /\ StoreNewest /\ OneLoaded /\ [Next]_vars => OneLoaded'
<1> SUFFICES ASSUME Types, Private, StoreNewest, OneLoaded, Types', [Next]_vars
             PROVE  OneLoaded'
    BY NextType
<1> USE CacheAssumption DEF Types, TypeOK, Bases, RPCs, store, heap, reload, request, history,
        Private, StoreNewest, OneLoaded, Loaded, Active
<1>1. ASSUME NEW c \in Centroids, createNewCentroid(c) \/ deleteCentroid(c) \/ saveCentroid(c)
      PROVE  OneLoaded'
    BY <1>1 DEF createNewCentroid, deleteCentroid, saveCentroid
<1>2. ASSUME NEW r \in Reloads, onUpdate(r) \/ joinCentroid(r) \/ loadCentroidUniqueOption(r)
      PROVE  OneLoaded'
    BY <1>2 DEF onUpdate, joinCentroid, loadCentroidUniqueOption
<1>3. ASSUME NEW r \in Reloads, insertOrUpdate(r)
      PROVE  OneLoaded'
    BY <1>3 DEF insertOrUpdate
<1>4. ASSUME NEW r \in Reloads, setBase(r)
      PROVE  OneLoaded'
    BY <1>4 DEF setBase
<1>5. ASSUME NEW r \in Reloads, setBaseCounts(r) \/ setBaseReleases(r) \/ dropItem(r)
      PROVE  OneLoaded'
    BY <1>5 DEF setBaseCounts, setBaseReleases, dropItem, decrCount
<1>6. ASSUME NEW r \in Reloads, addOrGetData(r)
      PROVE  OneLoaded'
    BY <1>6 DEF addOrGetData
<1>7. CASE getDocumentSimilarity \/ getTextSimilarity \/ getCentroidSimilarity
    BY <1>7 DEF getDocumentSimilarity, getTextSimilarity, getCentroidSimilarity
<1>8. CASE documentMissing \/ multiGetDocumentSimilarity \/ respond
    BY <1>8 DEF documentMissing, multiGetDocumentSimilarity, respond
<1>9. ASSUME NEW h \in Handles, getOption(h) \/ score(h) \/ release(h)
      PROVE  OneLoaded'
    BY <1>9 DEF getOption, score, release, decrCount
<1>10. ASSUME NEW h \in Handles, ProxyCopy(h)
      PROVE  OneLoaded'
    BY <1>10 DEF ProxyCopy
<1>11. ASSUME NEW h \in Handles, ProxyCounts(h)
      PROVE  OneLoaded'
    BY <1>11 DEF ProxyCounts
<1>12. CASE UNCHANGED vars
    BY <1>12 DEF vars
<1> QED
    BY <1>1, <1>2, <1>3, <1>4, <1>5, <1>6, <1>7, <1>8, <1>9, <1>10, <1>11, <1>12
    DEF Next, ReloadStep, HandleStep, LoadDocument

\* What an update has saved stays on its way until it is in the map.
LEMMA NextPromised ==
    Types /\ Private /\ StoreNewest /\ OneLoaded /\ Promised /\ [Next]_vars => Promised'
<1> SUFFICES ASSUME Types, Private, StoreNewest, OneLoaded, Promised, Types', [Next]_vars
             PROVE  Promised'
    BY NextType
<1> USE CacheAssumption DEF Types, TypeOK, Bases, RPCs, store, heap, reload, request, history,
        Private, StoreNewest, OneLoaded, Loaded, Active, Promised, Arriving
<1>1. ASSUME NEW c \in Centroids, createNewCentroid(c) \/ deleteCentroid(c) \/ saveCentroid(c)
      PROVE  Promised'
    BY <1>1 DEF createNewCentroid, deleteCentroid, saveCentroid
<1>2. ASSUME NEW r \in Reloads, onUpdate(r)
      PROVE  Promised'
    BY <1>2 DEF onUpdate
<1>3. ASSUME NEW r \in Reloads, joinCentroid(r)
      PROVE  Promised'
    BY <1>3 DEF joinCentroid
<1>4. ASSUME NEW r \in Reloads, loadCentroidUniqueOption(r)
      PROVE  Promised'
    BY <1>4 DEF loadCentroidUniqueOption
<1>5. ASSUME NEW r \in Reloads, insertOrUpdate(r)
      PROVE  Promised'
    BY <1>5 DEF insertOrUpdate
<1>6. ASSUME NEW r \in Reloads, setBase(r)
      PROVE  Promised'
    BY <1>6 DEF setBase
<1>7. ASSUME NEW r \in Reloads, setBaseCounts(r)
      PROVE  Promised'
    BY <1>7 DEF setBaseCounts
<1>8. ASSUME NEW r \in Reloads, setBaseReleases(r)
      PROVE  Promised'
    BY <1>8 DEF setBaseReleases, decrCount
<1>9. ASSUME NEW r \in Reloads, dropItem(r)
      PROVE  Promised'
    BY <1>9 DEF dropItem, decrCount
<1>10. ASSUME NEW r \in Reloads, addOrGetData(r)
      PROVE  Promised'
    BY <1>10 DEF addOrGetData
<1>11. CASE getDocumentSimilarity \/ getTextSimilarity \/ getCentroidSimilarity
    BY <1>11 DEF getDocumentSimilarity, getTextSimilarity, getCentroidSimilarity
<1>12. CASE documentMissing \/ multiGetDocumentSimilarity \/ respond
    BY <1>12 DEF documentMissing, multiGetDocumentSimilarity, respond
<1>13. ASSUME NEW h \in Handles, getOption(h) \/ score(h) \/ release(h)
      PROVE  Promised'
    BY <1>13 DEF getOption, score, release, decrCount
<1>14. ASSUME NEW h \in Handles, ProxyCopy(h)
      PROVE  Promised'
    BY <1>14 DEF ProxyCopy
<1>15. ASSUME NEW h \in Handles, ProxyCounts(h)
      PROVE  Promised'
    BY <1>15 DEF ProxyCounts
<1>16. CASE UNCHANGED vars
    BY <1>16 DEF vars
<1> QED
    BY <1>1, <1>2, <1>3, <1>4, <1>5, <1>6, <1>7, <1>8, <1>9, <1>10, <1>11, <1>12, <1>13,
       <1>14, <1>15, <1>16
    DEF Next, ReloadStep, HandleStep, LoadDocument

LEMMA InitContent == Init => ContentInv
BY CacheAssumption, InitType
DEF Init, ContentInv, StoreNewest, OneLoaded, Promised, Arriving, Loaded, Active, Bases

LEMMA ContentInvariant == Spec => [](CountInv /\ ContentInv)
<1>1. CountInv /\ ContentInv /\ [Next]_vars => ContentInv'
    BY NextNewest, NextOneLoaded, NextPromised DEF CountInv, ContentInv
<1> QED
    BY <1>1, CountInvariant, InitContent, PTL DEF Spec

\* The base that a request scores with is not freed under it, unless a window was hit: what
\* MultiVersionPtr.h:34 says holds for every reader that is counted in time.
THEOREM CountedStaysUsable == Spec => [](raced \/ GrabbedStaysUsable)
<1>1. CountInv => raced \/ GrabbedStaysUsable
  <2> SUFFICES ASSUME CountInv, ~raced, NEW h \in Handles, hpc[h] \in {"score", "release"}
               PROVE  alive[hbase[h]]
    BY DEF GrabbedStaysUsable
  <2>1. h \in Proxies(hbase[h]) /\ hbase[h] \in Bases
    BY DEF CountInv, Types, TypeOK, Proxies
  <2> QED
    BY <2>1 DEF CountInv, CountsExact
<1> QED
    BY <1>1, CountInvariant, PTL

\* Once its reloads have finished, a centroid that an update has saved is scored with the
\* contents in the store, for any number of updates, joins, deletions and requests.
THEOREM CacheIsCurrent == Spec => []CacheCurrent
<1>1. CountInv /\ ContentInv => CacheCurrent
  <2> SUFFICES ASSUME CountInv, ContentInv, NEW c \in (known \ due) \ overlapped,
                      saved[c] # 0, Active(c) = {}, ~raced
               PROVE  map[c] # None /\ alive[map[c]] /\ content[map[c]] = saved[c]
    BY DEF CacheCurrent
  <2>1. c \in Centroids /\ \A r \in Reloads : rcentroid[r] = c => rpc[r] \in {"new", "done"}
    BY DEF CountInv, Types, Active
  <2>2. map[c] # None /\ content[map[c]] = saved[c]
    BY <2>1 DEF ContentInv, Promised, Arriving
  <2>3. map[c] \in Bases /\ c \in Proxies(map[c])
    BY <2>1, <2>2 DEF CountInv, Types, TypeOK, Homes, Proxies
  <2>4. alive[map[c]]
    BY <2>3 DEF CountInv, CountsExact
  <2> QED
    BY <2>2, <2>4
<1> QED
    BY <1>1, ContentInvariant, PTL

\* A reload never puts older contents in the map in the place of newer ones, when no two
\* reloads of the centroid overlap.
THEOREM NeverGetsOlder == Spec => NeverOlder
<1> DEFINE Forward ==
        \A c \in Centroids \ overlapped' :
            map[c] # None => map'[c] # None /\ content'[map'[c]] >= content[map[c]]
<1>1. CountInv /\ ContentInv /\ [Next]_vars => [Forward]_vars
  <2> SUFFICES ASSUME CountInv, ContentInv, [Next]_vars, NEW c \in Centroids \ overlapped',
                      map[c] # None
               PROVE  map'[c] # None /\ content'[map'[c]] >= content[map[c]]
    OBVIOUS
  <2>1. Types /\ Private /\ OneLoaded /\ StoreNewest
    BY DEF CountInv, ContentInv
  <2> USE CacheAssumption DEF Types, TypeOK, Bases, store, heap, reload, request, history
  <2>2. map[c] \in Bases /\ content[map[c]] \in 0..MaxVersion
    BY <2>1
  <2>3. ASSUME UNCHANGED <<map, content>>
        PROVE  map'[c] # None /\ content'[map'[c]] >= content[map[c]]
    BY <2>2, <2>3
  <2>4. ASSUME NEW r \in Reloads, insertOrUpdate(r)
        PROVE  map'[c] # None /\ content'[map'[c]] >= content[map[c]]
    BY <2>1, <2>2, <2>4 DEF insertOrUpdate, Private
  <2>5. ASSUME NEW r \in Reloads, setBase(r)
        PROVE  map'[c] # None /\ content'[map'[c]] >= content[map[c]]
    BY <2>1, <2>2, <2>5 DEF setBase, OneLoaded, StoreNewest, Loaded, Active
  <2>6. ASSUME NEW r \in Reloads, addOrGetData(r)
        PROVE  map'[c] # None /\ content'[map'[c]] >= content[map[c]]
    BY <2>1, <2>2, <2>6 DEF addOrGetData
  <2> QED
    BY <2>3, <2>4, <2>5, <2>6
    DEF Next, ReloadStep, HandleStep, LoadDocument, vars, decrCount,
        createNewCentroid, deleteCentroid, saveCentroid, onUpdate, joinCentroid,
        loadCentroidUniqueOption, setBaseCounts, setBaseReleases, dropItem,
        getDocumentSimilarity, documentMissing, multiGetDocumentSimilarity,
        getTextSimilarity, getCentroidSimilarity, respond, getOption, ProxyCopy, ProxyCounts,
        score, release
<1> QED
    BY <1>1, ContentInvariant, PTL DEF NeverOlder, Spec
=============================================================================
