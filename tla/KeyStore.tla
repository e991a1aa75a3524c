------------------------------- MODULE KeyStore -------------------------------
(***************************************************************************)
(* The text of the keys under SyncPersistence, the order the stores keep   *)
(* them in, and the listings that are cut out of that order, for both      *)
(* implementations of RockHandleIf: RockHandle, over RocksDB, and          *)
(* InMemoryRockHandle, which the repository's functional tests run on.     *)
(*                                                                         *)
(* A key is a sequence of symbols: a symbol is a character, or one of the  *)
(* words the prefixes are made of, which sort as their characters do.  Ids *)
(* are any such sequences, as nothing in the code restricts them: they may *)
(* hold colons, and words too.  Operations are whole here; SyncPersistence *)
(* has their single calls.                                                 *)
(***************************************************************************)
EXTENDS SequencesExt

CONSTANTS
    DocIds,         \* ids of documents
    CentroidIds,    \* ids of centroids
    MaxVersion,     \* the last version of a value that is written over
    SizeBits,       \* the width of size_t and of the integers of requests: 64 in the code
    Counts          \* the offsets and counts that clients ask for

\* The colon ends the prefix of a key; the semicolon is the next character.
Colon == ":"
Semicolon == ";"

\* The symbols in the order of their bytes.
Symbols == <<Colon, Semicolon, "__centroid_metadata", "__centroids", "__document_metadata",
             "__documents", "a", "b", "centroids", "documents">>

Rank == [s \in ToSet(Symbols) |-> CHOOSE i \in DOMAIN Symbols : Symbols[i] = s]

ASSUME IdsAssumption ==
    /\ DocIds \cup CentroidIds \subseteq Seq(ToSet(Symbols))
    /\ MaxVersion \in Nat /\ SizeBits \in Nat

\* Counts are signed numbers of that width, and a store has no more ids of one kind than there
\* are positive ones.
ASSUME CountsAssumption ==
    /\ 2^SizeBits \in Nat
    /\ \A i \in Counts : i \in Int /\ -(2^SizeBits) <= 2 * i /\ 2 * i < 2^SizeBits
    /\ \A ids \in {DocIds, CentroidIds} : IsFiniteSet(ids) /\ 2 * Cardinality(ids) < 2^SizeBits

VARIABLE
    db              \* the keys and values of each store

vars == <<db>>

Handles == {"RockHandle", "InMemoryRockHandle"}

-----------------------------------------------------------------------------
\* Keys and their order.

CentroidsPrefix == <<"centroids">>
DocumentsPrefix == <<"documents">>
CentroidDocumentPrefix(c) == c \o <<"__documents">>
DocumentCentroidsPrefix(d) == d \o <<"__centroids">>
CentroidMetadataPrefix(c) == c \o <<"__centroid_metadata">>
DocumentMetadataPrefix(d) == d \o <<"__document_metadata">>

Key(prefix, member) == prefix \o <<Colon>> \o member

Less(k, l) ==
    \E i \in 1..Len(l) :
        /\ \A j \in 1..(i - 1) : j <= Len(k) /\ k[j] = l[j]
        /\ i <= Len(k) => Rank[k[i]] < Rank[l[i]]

Sorted(keys) ==
    [i \in 1..Cardinality(keys) |->
        CHOOSE k \in keys : Cardinality({l \in keys : Less(l, k)}) = i - 1]

-----------------------------------------------------------------------------
\* RockHandleIf.  h is the handle and s the contents of its store.

\* InMemoryRockHandle::put inserts into a map, which keeps the value of a key it holds.
put(h, s, key, value) ==
    IF h = "InMemoryRockHandle" /\ key \in DOMAIN s THEN s
    ELSE [k \in DOMAIN s \cup {key} |-> IF k = key THEN value ELSE s[k]]

exists(s, key) == key \in DOMAIN s

del(s, keys) == [k \in DOMAIN s \ keys |-> s[k]]

\* A plausible error: the loop over the sorted keys of the map breaks, where it should
\* continue, at a key before the range.
BreakBeforeRange(h, s, start, end) ==
    IF h = "InMemoryRockHandle" /\ \E k \in DOMAIN s : Less(k, start) THEN << >>
    ELSE Sorted({k \in DOMAIN s : ~Less(k, start) /\ Less(k, end)})

iterRange(h, s, start, end) ==
    Sorted({k \in DOMAIN s : ~Less(k, start) /\ Less(k, end)})

iterPrefix(h, s, prefix) == iterRange(h, s, prefix \o <<Colon>>, prefix \o <<Semicolon>>)

\* A plausible error: the page ends before the entry that reaches the limit.
PageBelowLimit(h, s, prefix, offset, limit) ==
    LET all == iterPrefix(h, s, prefix)
    IN  SubSeq(all, offset + 1, Min({Len(all), offset + limit - 1}))

iterPrefixFromOffset(h, s, prefix, offset, limit) ==
    LET all == iterPrefix(h, s, prefix)
    IN  SubSeq(all, offset + 1, Min({Len(all), offset + limit}))

iterPrefixFromMember(h, s, prefix, member, limit) ==
    LET all == iterRange(h, s, Key(prefix, member), prefix \o <<Semicolon>>)
    IN  SubSeq(all, 1, Min({Len(all), limit}))

-----------------------------------------------------------------------------
\* The listings of SyncPersistence.

\* key.substr(key.find(':') + 1)
Member(key) ==
    SubSeq(key, 1 + CHOOSE i \in DOMAIN key : key[i] = Colon /\ \A j \in 1..(i - 1) : key[j] # Colon,
           Len(key))

Members(keys) == [i \in DOMAIN keys |-> Member(keys[i])]

doesDocumentExist(s, d) == exists(s, Key(DocumentsPrefix, d))
doesCentroidExist(s, c) == exists(s, Key(CentroidsPrefix, c))

isDocumentInAnyCentroid(h, s, d) == iterPrefix(h, s, DocumentCentroidsPrefix(d)) # << >>

listAllDocuments(h, s) == Members(iterPrefix(h, s, DocumentsPrefix))

\* The ids that the loop of listUnusedDocuments keeps.
Unused(h, s, ids) ==
    LET kept[i \in 0..Len(ids)] ==
            IF i = 0 THEN << >>
            ELSE IF isDocumentInAnyCentroid(h, s, ids[i]) THEN kept[i - 1]
            ELSE Append(kept[i - 1], ids[i])
    IN  kept[Len(ids)]

listUnusedDocuments(h, s, limit) ==
    LET unused == Unused(h, s, listAllDocuments(h, s))
    IN  IF limit > 0 THEN SubSeq(unused, 1, Min({Len(unused), limit})) ELSE unused

listDocumentRangeFromOffset(h, s, offset, limit) ==
    Members(iterPrefixFromOffset(h, s, DocumentsPrefix, offset, limit))

listDocumentRangeFromId(h, s, d, limit) ==
    Members(iterPrefixFromMember(h, s, DocumentsPrefix, d, limit))

listAllCentroids(h, s) == Members(iterPrefix(h, s, CentroidsPrefix))

listCentroidRangeFromOffset(h, s, offset, limit) ==
    Members(iterPrefixFromOffset(h, s, CentroidsPrefix, offset, limit))

listCentroidRangeFromId(h, s, c, limit) ==
    Members(iterPrefixFromMember(h, s, CentroidsPrefix, c, limit))

listAllDocumentsForCentroidRaw(h, s, c) ==
    Members(iterPrefix(h, s, CentroidDocumentPrefix(c)))

listCentroidDocumentRangeFromOffsetRaw(h, s, c, offset, limit) ==
    Members(iterPrefixFromOffset(h, s, CentroidDocumentPrefix(c), offset, limit))

listCentroidDocumentRangeFromDocumentIdRaw(h, s, c, d, limit) ==
    Members(iterPrefixFromMember(h, s, CentroidDocumentPrefix(c), d, limit))

\* The exception of the lists of a centroid: an empty list of a missing centroid.
OrMissing(s, c, docs) ==
    IF docs = << >> /\ ~doesCentroidExist(s, c) THEN <<"ECentroidDoesNotExist">> ELSE docs

listAllDocumentsForCentroid(h, s, c) == OrMissing(s, c, listAllDocumentsForCentroidRaw(h, s, c))

listCentroidDocumentRangeFromOffset(h, s, c, offset, limit) ==
    OrMissing(s, c, listCentroidDocumentRangeFromOffsetRaw(h, s, c, offset, limit))

listCentroidDocumentRangeFromDocumentId(h, s, c, d, limit) ==
    OrMissing(s, c, listCentroidDocumentRangeFromDocumentIdRaw(h, s, c, d, limit))

doesCentroidHaveDocument(s, c, d) ==
    IF exists(s, Key(CentroidDocumentPrefix(c), d)) THEN TRUE
    ELSE IF ~doesCentroidExist(s, c) THEN "ECentroidDoesNotExist" ELSE FALSE

-----------------------------------------------------------------------------
\* ThriftRelevanceServer: offsets and counts are signed on the wire.

size_t(i) == i % 2^SizeBits

future_listAllDocuments(s) == listAllDocuments("RockHandle", s)

future_listAllCentroids(s) == listAllCentroids("RockHandle", s)

future_listAllDocumentsForCentroid(s, c) == listAllDocumentsForCentroid("RockHandle", s, c)

future_listUnusedDocuments(s, count) == listUnusedDocuments("RockHandle", s, size_t(count))

future_listDocumentRange(s, offset, count) ==
    listDocumentRangeFromOffset("RockHandle", s, size_t(offset), size_t(count))

future_listDocumentRangeFromID(s, d, count) ==
    listDocumentRangeFromId("RockHandle", s, d, size_t(count))

future_listCentroidRange(s, offset, count) ==
    listCentroidRangeFromOffset("RockHandle", s, size_t(offset), size_t(count))

future_listCentroidRangeFromID(s, c, count) ==
    listCentroidRangeFromId("RockHandle", s, c, size_t(count))

future_listCentroidDocumentRange(s, c, offset, count) ==
    listCentroidDocumentRangeFromOffset("RockHandle", s, c, size_t(offset), size_t(count))

future_listCentroidDocumentRangeFromID(s, c, d, count) ==
    listCentroidDocumentRangeFromDocumentId("RockHandle", s, c, d, size_t(count))

-----------------------------------------------------------------------------
\* The operations that change the store: each is run on both handles.

Init == db = [h \in Handles |-> << >>]

Run(operation(_, _)) == db' = [h \in Handles |-> operation(h, db[h])]

\* The names of metadata.
created_time == <<"a">>
MetadataNames == {<<"a">>, <<"b">>}     \* lastCalculated and lastDocumentChange

CreatedTimeKey(d) == Key(DocumentMetadataPrefix(d), created_time)

\* A version of a document has its data and the time it was created.
saveDocument(d, version) ==
    Run(LAMBDA h, s :
        put(h, put(h, s, Key(DocumentsPrefix, d), version), CreatedTimeKey(d), version))

saveNewDocument(d, version) ==
    Run(LAMBDA h, s :
        IF doesDocumentExist(s, d) THEN s
        ELSE put(h, put(h, s, Key(DocumentsPrefix, d), version), CreatedTimeKey(d), version))

\* A plausible error: the prefix of a centroid's documents is taken for that of a document's
\* centroids.
deleteWrongLinks(d) ==
    Run(LAMBDA h, s :
        IF ~doesDocumentExist(s, d) THEN s
        ELSE del(s, {Key(DocumentsPrefix, d)}
                       \cup ToSet(iterPrefix(h, s, CentroidDocumentPrefix(d)))
                       \cup ToSet(iterPrefix(h, s, DocumentMetadataPrefix(d)))))

deleteDocument(d) ==
    Run(LAMBDA h, s :
        IF ~doesDocumentExist(s, d) THEN s
        ELSE del(s, {Key(DocumentsPrefix, d)}
                       \cup ToSet(iterPrefix(h, s, DocumentCentroidsPrefix(d)))
                       \cup ToSet(iterPrefix(h, s, DocumentMetadataPrefix(d)))))

saveCentroid(c, version) == Run(LAMBDA h, s : put(h, s, Key(CentroidsPrefix, c), version))

createNewCentroid(c) ==
    Run(LAMBDA h, s :
        IF doesCentroidExist(s, c) THEN s ELSE put(h, s, Key(CentroidsPrefix, c), 0))

deleteCentroid(c) ==
    Run(LAMBDA h, s :
        IF ~doesCentroidExist(s, c) THEN s
        ELSE del(s, {Key(CentroidsPrefix, c)}
                       \cup ToSet(iterPrefix(h, s, CentroidDocumentPrefix(c)))
                       \cup ToSet(iterPrefix(h, s, CentroidMetadataPrefix(c)))))

addDocumentToCentroid(c, d) ==
    Run(LAMBDA h, s :
        IF \/ ~doesCentroidExist(s, c) \/ ~doesDocumentExist(s, d)
           \/ exists(s, Key(CentroidDocumentPrefix(c), d))
        THEN s
        ELSE put(h, put(h, s, Key(CentroidDocumentPrefix(c), d), 1),
                 Key(DocumentCentroidsPrefix(d), c), 1))

removeDocumentFromCentroid(c, d) ==
    Run(LAMBDA h, s :
        IF ~doesCentroidExist(s, c) \/ ~doesDocumentExist(s, d) THEN s
        ELSE del(s, {Key(DocumentCentroidsPrefix(d), c), Key(CentroidDocumentPrefix(c), d)}))

\* Whether or not the centroid exists.
setCentroidMetadata(c, name, value) ==
    Run(LAMBDA h, s : put(h, s, Key(CentroidMetadataPrefix(c), name), value))

Versions == 0..MaxVersion

Next ==
    \/ \E d \in DocIds : deleteDocument(d)
    \/ \E d \in DocIds, v \in Versions : saveDocument(d, v) \/ saveNewDocument(d, v)
    \/ \E c \in CentroidIds : createNewCentroid(c) \/ deleteCentroid(c)
    \/ \E c \in CentroidIds, v \in Versions :
          \/ saveCentroid(c, v)
          \/ \E name \in MetadataNames : setCentroidMetadata(c, name, v)
    \/ \E c \in CentroidIds, d \in DocIds :
          addDocumentToCentroid(c, d) \/ removeDocumentFromCentroid(c, d)

Spec == Init /\ [][Next]_vars

-----------------------------------------------------------------------------
rocks == db["RockHandle"]

\* The sets that the keys of the store stand for.
documents == {d \in DocIds : doesDocumentExist(rocks, d)}
centroids == {c \in CentroidIds : doesCentroidExist(rocks, c)}
members == [c \in CentroidIds |->
               {d \in DocIds : exists(rocks, Key(CentroidDocumentPrefix(c), d))}]
users == [d \in DocIds |->
             {c \in CentroidIds : exists(rocks, Key(DocumentCentroidsPrefix(d), c))}]

Store == INSTANCE DocumentStore WITH
    documents <- documents, centroids <- centroids, members <- members, users <- users

\* The words of the prefixes.
Words == {"__centroid_metadata", "__centroids", "__document_metadata", "__documents",
          "centroids", "documents"}

\* An id that holds no prefix: none of the words with a colon behind it.
Unambiguous(id) == \A i \in 1..(Len(id) - 1) : ~(id[i] \in Words /\ id[i + 1] = Colon)

\* The store behaves as sets of documents and centroids and the links between them, although
\* deletions take whole ranges of keys, the prefixes of one kind of key are ids of another, and
\* ids may hold colons or words: as long as no id holds a word and a colon behind it, which
\* nothing in the code prevents.
ImplementsStore == Store!Spec

\* The pages of the sorted list of a set of ids: from an offset and from an id, whether it is
\* in the set or not.  A negative offset is past the end of the list, and a negative count has
\* no limit.
Page(ids, offset, count) ==
    LET all == Sorted(ids)
    IN  IF offset < 0 \/ count = 0 THEN << >>
        ELSE SubSeq(all, offset + 1, IF count < 0 THEN Len(all) ELSE Min({Len(all), offset + count}))
PageFrom(ids, id, count) == Page({i \in ids : ~Less(i, id)}, 0, count)

\* Every list and range of ids that a client can ask for is that slice of the alphabetical list,
\* so that pages put together give each id exactly once (python_api.md:155-166, 251-262,
\* 359-372); the unused documents are those that no link leads to a centroid from, where a
\* count of zero has no limit.
ListingsAreSlices ==
    LET inside(c) == {d \in DocIds : doesCentroidHaveDocument(rocks, c, d) = TRUE}
        unused == {d \in documents :
                     \A c \in CentroidIds : ~exists(rocks, Key(DocumentCentroidsPrefix(d), c))}
    IN  /\ future_listAllDocuments(rocks) = Sorted(documents)
        /\ future_listAllCentroids(rocks) = Sorted(centroids)
        /\ \A c \in centroids :
             future_listAllDocumentsForCentroid(rocks, c) = Sorted(inside(c))
        /\ \A n \in Counts :
             /\ future_listUnusedDocuments(rocks, n) = Page(unused, 0, IF n = 0 THEN -1 ELSE n)
             /\ \A o \in Counts :
                   /\ future_listDocumentRange(rocks, o, n) = Page(documents, o, n)
                   /\ future_listCentroidRange(rocks, o, n) = Page(centroids, o, n)
                   /\ \A c \in centroids :
                         future_listCentroidDocumentRange(rocks, c, o, n) = Page(inside(c), o, n)
             /\ \A d \in DocIds :
                   /\ future_listDocumentRangeFromID(rocks, d, n) = PageFrom(documents, d, n)
                   /\ \A c \in centroids :
                         future_listCentroidDocumentRangeFromID(rocks, c, d, n)
                            = PageFrom(inside(c), d, n)
             /\ \A c \in CentroidIds :
                   future_listCentroidRangeFromID(rocks, c, n) = PageFrom(centroids, c, n)

\* The store of the tests stands in for RocksDB as far as keys go: both hold the same keys after
\* the same calls, so that they list the same ids and find the same documents, centroids and
\* links.  Values differ: that of any key that is written over, be it of a document, of a centroid
\* or of metadata, is the first one in the tests.
SameKeysInBoth == DOMAIN db["InMemoryRockHandle"] = DOMAIN rocks
=============================================================================
