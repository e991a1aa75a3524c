# Specifications of relevanced

relevanced is a server that keeps *centroids* (groups of documents, represented
by the sum of their term-frequency vectors) and scores texts and documents
against them. Documents are processed once and stored in RocksDB; adding a
document to a centroid or removing it triggers a debounced recomputation of the
centroid on a pool of threads; a client can `join` a centroid to wait for it.

This directory holds TLA+ models of the server, from the bytes of a document to
the answers of the API, the TLC configurations that check them, and TLAPS proofs
of every invariant and action property they check.

## 1. Inventory

| part | source (`src/src/`) | state | operations | interacts with |
|---|---|---|---|---|
| Debouncer | `util/Debouncer.h` | `inFlight_`, `numInFlight_`, `stopping_`, delayed futures | `write`, `removeDebounced`, `stop`, `join` | any thread calls `write`; continuations run on folly's timekeeper thread |
| CentroidUpdateWorker | `centroid_update_worker/CentroidUpdateWorker.cpp` | `updatingSet_`, `numInProgress_`, callbacks per centroid, `stopping_` | `triggerUpdate`, `update`, `joinUpdate`, `echoUpdated`, `stop`, `join` | fed by the Debouncer and by joins; runs a CentroidUpdater on its pool; answers on the timekeeper thread |
| CentroidUpdater | `centroid_update_worker/CentroidUpdater.cpp` | locals of `run()` | `run` | reads lists and documents and saves through Persistence while clients change both |
| DocumentAccumulator | `centroid_update_worker/DocumentAccumulator.cpp` | sums per word, document count | `addDocument`, `getMagnitude` | used by one run |
| SyncPersistence, RockHandle, InMemoryRockHandle | `persistence/` | keys in RocksDB, or in a map for tests | documents, centroids, links in both directions, metadata, listings, clean-up | several store calls per operation, no transaction |
| Persistence | `persistence/Persistence.cpp` | thread pool | one future per operation | every operation on any of 8 threads |
| CentroidMetadataDb | `persistence/CentroidMetadataDb.cpp` | three timestamps per centroid | `isCentroidUpToDate`, setters | server and updater write, join reads |
| SimilarityScoreWorker, ConcurrentMap, MultiVersionPtr | `similarity_score_worker/`, `util/` | cache of centroids in memory, reference counts | `initialize`, `reloadCentroid`, scores | reloaded after every update and join, read by requests without locks |
| RelevanceServer, ThriftRelevanceServer | `server/` | none of their own | the API | one future per id, collected; composes everything |
| document processing | `document_processing_worker/`, `text_util/` | words and counts of one document | `process_`, `build` | called on a pool |
| tokenizer, stemmer, stopwords, libunicode | `tokenizer/`, `stemmer/`, `stopwords/`, `libunicode/` | the buffer of the text | `next`, `isStopword`, `normalizeCodePoint`, ... | the tokenizer writes the text it reads |
| models, serialization | `models/`, `serialization/` | value types | binary and JSON forms | stored by SyncPersistence |
| options, start-up | `server/ServerBuilder.h`, `buildServerOptions.h`, ... | none | wiring | - |

What is hard in this code, and what makes each part correct:

* *Debouncer*: concurrent writers, two timers per accepted write, one retry of a
  refused write. Correct when no write is lost, bursts are merged, and `join()`
  neither returns early nor hangs.
* *CentroidUpdateWorker*: a lock (`updatingSet_`) taken on a pool thread and
  given back 50 ms later on the timekeeper thread; callbacks registered and
  taken in between; `stop()` at any time. Correct when one update runs per
  centroid, every join is answered once and with contents it may expect, and
  `join()` returns.
* *CentroidUpdater*: lists of 500, batches of 20, the next list read ahead while
  the store changes. Correct when each document of the centroid is summed once.
* *SyncPersistence*: several puts and deletes per operation, on parallel threads,
  with a crash possible between any two. Correct when the two directions of the
  links stay consistent and the clean-up takes only unused, old documents.
* *CentroidMetadataDb*: timestamps of one second, written without being awaited.
  Correct when "up to date" is said only of contents that are.
* *SimilarityScoreWorker*: reloads that overlap, requests that hold an old version
  while a new one is installed, deleted centroids. Correct when the cache follows
  the store, and nothing is freed in use or leaked.
* *RelevanceServer*: requests on many ids, of which some fail. Correct when the
  responses tell what was done and every request is answered.
* *Key layout*: ids are part of the keys, and operations list and delete ranges of
  keys, and nothing restricts ids. Correct when no operation on one id touches another.
* *Text processing*: the text is rewritten in place while it is read, in an encoding
  of varying width, and words are stored in 24 bytes. Correct when the tokens are
  the words of the text and a stored document reloads as it was.

`PROJECT.json` lists the hazards at their lines.

## 2. Modules

| module | models | composed of |
|---|---|---|
| `TriggerQueue` | what the Debouncer promises: a written value is delivered at least once after the write, until it is stopped | |
| `Debouncer` | `Debouncer.h`, each call split at its accesses to shared state, with a clock and late timers | refines `TriggerQueue` |
| `CentroidUpdateWorker` | the worker: tasks on the pool, continuations on the timekeeper, joins | uses `TriggerQueue` as its update queue |
| `CentroidUpdater` | one `run()` against clients that change the store | |
| `SyncPersistence` | operations of the store as single RocksDB calls on the threads of `Persistence`, with crashes | |
| `DocumentStore` | what the store promises when operations do not overlap: sets of documents and centroids, and links in both directions | |
| `KeyStore` | the text of the keys, both stores, every listing of the API | refines `DocumentStore` |
| `SimilarityCache` | the cache of the score worker, its reloads and its readers, split at atomic accesses | |
| `RelevanceServer` | requests, their items and responses, the timestamps, joins | the store, the metadata and the update worker, each reduced to what the server sees |
| `Unicode` | blocks, normalisation and letters of code points | |
| `TextProcessing` | tokenizer, stemming, stopwords, counting, serialization | uses `Unicode` |
| `*Proofs` | theorems about the module of that name | |
| `MC*` | the module of that name for TLC, with its symmetry | |

### Debouncer

`pc[w]` is how far the call `w` of `write()` has come: the read of `stopping_`
(`Write`), the locked test and insertion (`TryInsert`), the arming of the two
timers (`Arm`) or of the requeue timer (`ArmRequeue`). `timers` holds the
delayed futures; `FireValue`, `FireInterval` and `FireRequeue` are their
continuations, which run one at a time, earliest deadline first, up to `MaxLag`
late. `served` is a history variable: the calls after which `onValueCb_` has run
for their value. `DelaysAssumption` states what the constructor and the worker
establish (5000 ms < 30000 ms < 30010 ms). The debug timeouts of the tests
(10, 10, 1 ms) do not satisfy it, and with them requeued writes are lost.
Assumed: a thread arms both timers at one instant of the model's clock.

### CentroidUpdateWorker

`tpc[t]` is how far a task has come: `Claim` (lines 79-85), `CheckStopping` (86),
`BeginRun` and `FinishRun` (90-92), `AfterRun` (93-103), then on the timekeeper
`EraseFromUpdating` (105-107), `TakeCallbacks`, `Answer`, `EndEcho`
(`echoUpdated`) and `decrInProgress`. A centroid's contents are a version
number; `seen[t]` is the version an updater has listed, `saved` the stored one.
`asked` and `quiet` record, per join, the version at the time of the call and
whether an update was under way. Clients change (`Change`) and delete (`Delete`)
centroids; a deleted centroid does not come back in this module.

### CentroidUpdater

Documents are numbered in key order and a list of ids is the set of its members;
`Index` is a position in it. `addDocument` stands for the DocumentAccumulator, with sums reduced to how often each
document is in them. `BatchAt` keeps the inclusive upper bound of the
code, `PartFrom` the inclusive start of the iterator, `NextPart` the `>=` of the
loop, and `IdsToRemove` the index of the batch that is used in the list. The
loads of a batch are answered in any order; the next part and the removals are
futures that take effect at any time. `stable` and `ever` record the documents
that were linked and there during the whole run, and those linked at some time.
The two timestamps of the run are in `RelevanceServer`.

### SyncPersistence

The store is the set of its keys. An operation is a sequence of calls of the
store (`Exists`, `Put`, `Delete`, `Scan`, `DeleteEach`), between which those of
other threads come and the process may crash; an iterator sees the store as it
was when it was opened. The clean-up visits documents in any order and stops at
any point after a deletion, which covers every `limit`. `deleted` records the
ids that clients have asked to delete.

### KeyStore and DocumentStore

A key is a sequence of symbols, a symbol being a character or one of the words of
the prefixes, ordered as their bytes are. Ids are any such sequences, words and
colons included, as the code takes any string. `db` holds the contents of a
`RockHandle` and of an `InMemoryRockHandle` that get the same calls; `put` keeps
the old value in the second (`map::insert`), and every put carries a version: of a
document with its `created_time`, of a centroid, of one of the metadata of a
centroid (`setCentroidMetadata`). `iterRange` and the operators on it
are the iterators of the stores, `list...` the methods of `SyncPersistence`, which
cut the member out of a key at its first colon, and `future_list...` the handlers,
which turn signed numbers into `size_t` of `SizeBits` bits. `Counts` are the offsets
and counts that a request may carry, signed numbers of as many bits; `Unused` is the
loop of `listUnusedDocuments`, id by id. Operations are atomic.

The key layout is right for some ids and wrong for others, and the module is used
to find the border. An id is `Unambiguous` if no word of a prefix in it has a colon
behind it. Between such ids no operation touches a key of another one
(`ImplementsStore`), and listings are right if moreover no id of a centroid holds a
colon (`ListingsAreSlices`). Beyond the border: deleting the document `a` deletes the
range `a__centroids:` to `a__centroids;`, in which the keys of a document
`a__centroids:b` lie; the `created_time` of a document `documents:a` lies in the range
of the documents and is listed; the first colon of
`a:b__documents:d` is inside the id of the centroid `a:b`, so that its documents are
listed under wrong ids.
Refinement: `documents`, `centroids`, `members` and `users` of `DocumentStore` are
read off the keys of the RockHandle.

### SimilarityCache

The proxy of the map that belongs to a centroid is `map[c]`, a base (a
`MultiVersionPtr`) or `None`. Bases are named after the reload that makes them.
`rpc` is how far a reload has come: `loadCentroidUniqueOption`, `insertOrUpdate`
(find), then `setBase`, `setBaseCounts`, `setBaseReleases` for an item found, or
`addOrGetData` and `dropItem` for a new one. `hpc` is how far a request has come
with one of its centroids: `getOption`, `ProxyCopy` (the load of the base),
`ProxyCounts`, `score`, `release`. `usage` and `alive` are the counts and
lifetimes of bases. `raced` records that one of the two windows of
`MultiVersionPtr` was hit: a request between its load and its count while the base
is replaced, or one that copies a base which is published and not yet counted.
`overlapped` records centroids of which two reloads were loaded at a time.

### RelevanceServer

A request is an element of `Calls`; its items, one per id, are tasks of the pool
with continuations (`pc`), and `respond` is `collect()` with the handler behind
it. `finish` turns the exceptions that a flag ignores into false. A task is the
calls of the store that it makes, one step each, and the steps of all tasks
interleave: an add or a remove looks up the centroid and the document
(`checkExistence`), then the link (`checkLink`), then writes it (`changeMembers`);
the creation and deletion of a document or a centroid look up its key and then
write, a deletion of a centroid takes its key, its links and its metadata one after
the other. The link from the document to the centroid, which no request reads, is in
`SyncPersistence`. A change of a
centroid's documents has one more step, `afterChange`, which takes the time, hands
the put of the timestamp to the pool (`putChange`) and writes to the update queue
(`triggered`). A join reads the two timestamps by two tasks (`getMetadata`),
compares them (`isCentroidUpToDate`) and waits for an update (`joinUpdate`,
`echoUpdated`, `joinCentroid`). An update is `update`, `listDocuments`,
`checkAgain`, `saveCentroid`, with the put of its timestamp in `putCalculated`.
Contents are the number of changes they reflect.

Five history variables record what a property has to know: `deleted` the centroids
that were deleted, `replaced` those whose contents a second creation has overwritten
(lookup and put of `createNewCentroid` are two calls), `reordered` those of which an
older timestamp was put over a newer one, `dropped` those of which a trigger was
turned away during an update, and `raced` the documents of centroids of which two
items had looked up the link before either had written it.

### Unicode and TextProcessing

`getUnicodeBlock` is a table of upper bounds, one entry per leaf of the tree of
`UnicodeBlock.cpp`. The buffer of a text is a sequence of bytes `<<cp, k>>`; `in`
and `out` are the two pointers of `DestructiveTokenIterator`, `ReadPoint` is one
round of its loop, `ProcessToken` the end of `next()` with the body of the loop of
`process_`, `build` the result, and `saveNewDocument` the binary form. The
stemmers of libstemmer and the tables of stopwords are parameters; scores are
counts, of which the code stores the quotient by a common total. `assignWord` cuts a
word at 22 bytes and at a NUL (`strncpy`), while its size is that of the view. Texts are
assumed to be valid UTF-8, which `utf8::next` otherwise throws on.

## 3. Runs

| run | bounds | checks |
|---|---|---|
| `debouncer` | 3 writes of one value, delays 1, 2, 3, writes start until time 3, timers up to 1 late | no write lost, one callback per value, exact counter, `join()` returns, refinement of `TriggerQueue` with its fairness, hence delivery |
| `worker` | 1 centroid that may be deleted, 1 join, 2 tasks on 2 threads, 1 change | one update per centroid, no double answer, no forgotten waiter, fresh answers to quiet joins, no regress of the stored version; joins are answered, `join()` returns |
| `updater` | 4 documents, lists of 3, batches of 2, 1 change by a client | exact sums of small centroids, no omission within the first list, nothing foreign counted, the loop ends |
| `persistence_sequential` | 2 centroids, 2 documents, 1 thread, all operations | links agree, what is linked exists |
| `persistence_concurrent` | 1 centroid, 1 document, 2 threads, crashes, no removals | a used document is listed |
| `storage` | documents `a` and `a:__documents`, centroids `a` and `a__centroids`, one version of values, `size_t` of 4 bits, counts and offsets -8 and from -1 to 2 | refinement of `DocumentStore`, listings are slices, both stores hold the same keys |
| `cache` | 1 centroid, 2 reloads, 2 handles, 2 versions | reference counts, the cache is current, never older, updates reach it |
| `server` | 2 requests out of one of every operation, 1 centroid, 1 document, up to 2 ids in a request, 3 seconds, any initial store | timestamps, answers, contents catch up, responses account for the membership |
| `text` | all texts of up to 5 symbols over A, a, e-acute, space and dash, every code point below 592, the NUL included, and at the borders of every block in two contexts, words of 24 bytes shortened to 6 | in-place rewriting, tokens, counts, reloading |

The bounds: the third write is the one that can be refused twice by two others;
two tasks on two threads are one that runs and one that waits behind it or is turned
away; four
documents with lists of three give two parts that overlap, and with batches of
two more than one batch; two documents and two centroids let the clean-up meet a
document that left one centroid and is still in another. In `storage` an id is a
prefix of another, `a` is the id of a document and of a centroid, one id holds
the separator, and one is the prefix of another's keys; values do not matter for
the three properties, so there is one. Two reloads and two handles are a join and an update against a
request for two centroids, with a base that is replaced under a reader. Two
requests are a change of membership and another change, a join or a deletion that
overlaps it, or two creations of a centroid by one request and a change, and three seconds tell equal timestamps from increasing ones and let an
update start between two changes; two adds, or two removes, of the document are items
that race for it. Letters
of the code's special cases all lie below code point 592, and shortening the words
to 6 bytes lets texts of 9 code points reach the cut.

What the exceptions in the properties mean: `OlderChangesAreIn` is the guarantee
behind `isCentroidUpToDate`, and it holds for a strict order of the timestamps
only, and not for centroids that are `deleted`, `replaced` or `reordered`; equal
timestamps say nothing. `ResponsesAccount` balances adds
and removes where nothing `raced`, and says what is left where two items did: of two
adds of one document both may be successful, and of two removes.
`ChangesReachContents` leaves out centroids with a trigger
that was turned away, which `server_dropped` shows. `CacheCurrent` and
`NeverOlder` leave out overlapping reloads, where the older contents may be
installed last, and a centroid that was deleted and created again, which is scored
with its former contents until its first update. `CountsExact` leaves out
behaviours in which a window of `MultiVersionPtr` was hit, which `cache_race`
shows.

Three runs show statements of the code or the documentation that the code does not
satisfy:

| run | statement | what happens |
|---|---|---|
| `updater_wrong_id` | "missing document '{}' from centroid '{}'" (`CentroidUpdater.cpp:105`) | the id is one of the first batch, and its document is unlinked |
| `cache_race` | "making sure that any other thread that may have just grabbed the previous T* is able to continue using it" (`MultiVersionPtr.h:33-35`) | a reader loads the base, an update releases its last count and frees it, the reader counts itself on freed memory |
| `server_dropped` | "ensuring that models are kept up to date after the burst ends" (`motivations.md:44`) | the trigger of the last change is delivered while an update is under way, is turned away, and nothing asks again |

More disagreements are visible in the models and have no run of their own:

* Two adds of one document, also by one request that names it twice, both look up
  the link before either puts it, and both return true (`raced` in
  `RelevanceServer`); `python_api.md:284` says "Raises
  `relevanced_client.EDocumentAlreadyInCentroid` the document is already in the
  centroid".
* An update starts and lists the documents, a change follows in the same second, and
  the equal timestamps are taken for up to date (`Outdated`), so that a join returns at
  once; `python_api.md:387` says "Ensures a centroid is up to date before proceeding."
* The document `documents:a` is listed a second time, as
  `a__document_metadata:created_time` (`future_listAllDocuments`); `python_api.md:143`
  says "Lists the IDs of all documents existing on the server in alphabetical order."
* The document `a` of the centroid `a:b` is listed as `b__documents:a`
  (`future_listAllDocumentsForCentroid`); `python_api.md:348` says "Lists IDs of all
  documents associated with the given centroid."
* A join during an update is answered by that update, which may have listed the
  documents before the change (`JoinFreshWhenQuiet` has to leave such joins out);
  `docs/api/python_api.md:387` says "Ensures a centroid is up to date before
  proceeding."
* A join whose centroid is deleted while it waits is never answered
  (`RequestsAnswered`, `JoinAnswered`); `python_api.md:391` says it "returns once
  that job has completed".
* Batches of documents share their boundary document, which counts twice
  (`BatchAt`), and a last part of the list shorter than 500 ids is never loaded
  (`NextPart`): `SmallCentroidExact` and `NoneLeftOut` hold up to those sizes.
* The removal of a missing document is refused by the store, so that the "lazy
  invalidation" of `python_api.md:120` does not happen (`removeDocumentFromCentroid`).
* `deleteCentroid` leaves the links from documents to the centroid, against
  `python_api.md:215`, so that these documents are never cleaned up (`deleted` in
  `SyncPersistence`, `users` in `DocumentStore`).
* The responses of `multiDeleteDocuments` and `multiDeleteCentroids` name all ids of
  the request and not the deleted ones (`ThriftRelevanceServer.cpp:169`, `:257`,
  against `python_api.md:133`, `:229`); responses are abstracted to the results of
  the items in `RelevanceServer`.
* A put of metadata that comes after the deletion of its centroid brings the
  metadata back (`setLastCalculatedTimestamp`), and a later centroid of that id
  inherits it.
* Two creations of a centroid may both succeed, and the second stores the empty
  centroid over contents that an update has saved meanwhile (`replaced`).
* The in-memory store of the functional tests keeps the first value of every key:
  a saved document, a centroid and both timestamps never change in them
  (`SameKeysInBoth` is about keys only), and its `eraseEverything` does nothing.
* `Utf8Stemmer` tests `strcmp` the wrong way round, so that every language is
  stemmed as English (`StemmerCode`).
* A token keeps the bytes of its separator but the last, and the whole separator at
  the end of the text (`Rest`); words are cut at 22 bytes and at a NUL and looked up by
  up to 23 bytes, so
  that two entries of a document may have one spelling, of which `getDocument`
  reports the first score and `debugGetFullProcessedDocument` the last
  (`EveryTokenCounted`).
* The block MEETEI_MAYEK cannot be reached (`UnicodeBlock.cpp:573-577`).
* A count of zero is an empty range, and no limit for `listUnusedDocuments`; a
  negative count is no limit (`ListingsAreSlices`).
* The hash of a document is taken of the lower-case text (`build`).

### Fairness

`Debouncer`: threads inside `write()` go on, the timekeeper runs what is due, time
passes, `join()` polls; nobody has to write or stop. `CentroidUpdateWorker`: the
pool and the timekeeper are first-in first-out queues, hence strong fairness of
the steps that wait for a free thread (`Claim`, `EraseFromUpdating`); the queue
delivers what it owes, as `Debouncer` is shown to; clients that began a change or
a join go on. `CentroidUpdater`: its thread runs on and `Persistence` answers.
`SimilarityCache`: the pools run every task they were given, so that each reload
and each handle goes on, and the callbacks of an update are called. `RelevanceServer`:
the server does not stop while it has a task, an update or a delivery to do; there
are finitely many of them, so that weak fairness of their disjunction runs each.
Neither clients nor the clock have to go on.
Deadlock is not checked where the system may come to rest: all writes done, the
worker stopped, the run over, the document saved, every request answered.

## 4. Proofs

For every value of the constants, under the assumptions of the modules. Each theorem
follows from an inductive invariant that is stronger than the property; what it adds
is what the code relies on without saying so.

* `DebouncerProofs`: `TypeCorrect`; `NothingLost`; `BurstsMerged`;
  `CounterExact`; `ImplementsQueue` (`Spec => Queue!Spec`). `NoLostWrite` is not
  inductive: a requeued write may be dropped because the value is in flight
  again, and then the callback that inserted it must be younger than the dropped
  write. `LostInv` ties every value in flight to the timers that brought it
  there and uses `Interval < RequeueDelay`; `OnceInv` says that a value timer
  implies its value in flight and uses `InitialDelay < Interval`; `CounterInv`
  is finiteness of `inFlight`.
* `CentroidUpdateWorkerProofs`: `TypeCorrect`; `MutualExclusion` from `LockInv`
  (a task that updates holds its centroid in `updatingSet`); `AnsweredOnce` from
  `CallbackInv`; `NoRegress` from `DataInv` (what a task has seen is at least
  what is stored, which needs the lock); `QuietJoinsAreFresh` from `FreshInv`;
  `WaitersCovered` from `WaitInv`.
* `CentroidUpdaterProofs`: `TypeCorrect`; `CountsMembers` from `MembersInv`
  (what is counted was loaded, was asked for, was listed); `LeavesNoneOut` from
  `CoverInv` (where a document that is there all along is at every point of the run:
  in the list and not before the batch, wanted, loaded, or counted); `SmallIsExact`
  from `OnceInv` (a small centroid has one part of the list, and that one batch).
  `SmallIsExact` needs batches smaller than lists (20 < 500 in the code), which
  `UpdaterAssumption` says: with both of two, a centroid of one document that gets a
  second one while the run reads ahead has a second part of two, which is long enough
  to be loaded, and its first document is counted again.
* `SyncPersistenceProofs`: `TypeCorrect`; `BackLinksAreLinks` from `LinkInv`
  (what a thread between two puts or two deletes has already done), assuming
  `Undisturbed`: removals have the store to themselves. Without it an add
  between the two deletes of a remove breaks the property. `ListedExist` and
  `LinksInBothDirections` assume `OneAtATime`: one operation at a time and no crash.
  Their invariant `ListInv` adds the links that an operation under way has made or
  taken on one side only, and that the clean-up has seen a document without back
  links before it deletes it.
* `SimilarityCacheProofs`: `TypeCorrect`; `CountsAreExact` and `CountedStaysUsable`
  from `CountInv`; `CacheIsCurrent` and `NeverGetsOlder` from `ContentInv`. A count is
  that of the proxies only because nobody has a base before its reload has published
  it (`Private`), a base is never under the key of another centroid (`Homes`), and,
  while no window was hit, what is about to be counted is still in the map
  (`Windows`). `CountedStaysUsable` says that the two windows are the only way to the
  violation of `cache_race`. The contents need that at most one reload of a centroid
  is past its load, carrying contents no older than the cached ones (`OneLoaded`), and
  that a centroid which is not current has a reload that will make it so (`Promised`).
* `RelevanceServerProofs`: `TypeCorrect`; `UpToDateIsCurrent` from `StampInv`: of a
  change that an update or the stored contents lack, a timestamp not older than the
  start of the update is still to be taken, about to be put, or stored (`Late`), for
  every start that is stored or may get there (`Starts`). `ResponsesAreBooks` from
  `AccountInv`, which counts an item from its write on and not only from its result on
  (`Made`), and says of an item between lookup and write that the link is as it saw it,
  unless another one was there too and the pair is in `raced` (`Alone`).
* `KeyStoreProofs`: `StandsIn`, for any ids; `KeysAreSets` (`Spec => ImplementsStore`, the
  refinement of `DocumentStore`), for ids none of which holds a prefix (`AllUnambiguous`),
  a hypothesis of the theorem and not of the module. The argument:
  `Less` is a strict total order (`Irreflexive`, `Transitive`, `Total`), so that a sorted
  range holds every key of the range (`SortedHasAll`); nothing lies between the colon
  and the semicolon, so that the range of a prefix is the keys that start with it
  (`PrefixRange`, `PrefixKeys`); the first word of a prefix with a colon behind it in a key is that of its prefix, as
  the ids before it hold none, so
  that it is of one kind and of one id (`OwnPrefix`, `KeysDiffer`,
  `KeysApart`, `RangesApart`); `StoreInv`
  says that every key in either store has one of these forms. `ListingsAreExact`
  (`Spec => []ListingsAreSlices`) goes on from there, with the further hypothesis that no
  id of a centroid holds a colon (`NoColons`). The keys of one kind and id are
  those of the set that is listed (`KindsOfKeys`), `Member` gives back what was put
  behind the colon (`MemberOfKey`), and keys with one prefix are ordered as their members
  are (`LessAfter`), so that the members of the sorted keys are increasing; and a sorted
  list is the only increasing sequence of its elements (`IncreasingIsSorted`), so that
  they are the sorted members (`MembersOfSorted`). What `size_t` makes of a negative
  offset or count is at least half of its range and hence past the end of any list
  (`SizeOf`, `OffsetPage`, `LimitPage`); an iteration from a member starts at the first key
  that is not less, be it there or not (`KeysFrom`); and the loop over the documents keeps
  the order, by induction on its length (`KeptSorted`). `PagedReading`, under the same hypotheses, follows with
  `PagesJoin`: a client that asks for the next page where the last one ended loses no id
  and gets none twice, while nobody changes the store.
* `TextProcessingProofs`: `RewritesInPlace` and `TokensAreTheWords` for every text,
  `OneEntryPerView` and `ReloadsAsSaved` for every text, capacity and stemmer that returns a length
  (`StemIsLength`). For the first, `InPlaceInv` says that after n code points both
  pointers are at the offset of the n-th. It needs that a code point and its
  lower-case form have the same width (`WidthKept`) and what the encoding of a text is
  made of (`EncodeAppend`, `EncodeConcat`, `EncodeSplit`). Those are inductions over the
  length of a text, for which `InductiveSet` takes the least element of the set
  of counterexamples (`WFMin`); that the recursive function behind `FlattenSeq` exists is
  shown the same way (`JoinsExist`). For the second, `ScanInv` says that of the n code
  points read the tokens are the words among the first a, in order, and that the rest are
  letters, as many as `size`, which a separator has ended if `next()` is about to return.
  A run of at most two letters adds no word (`ShortRun`), a longer one that is ended adds
  exactly itself (`LongRun`), and case does not matter because a code point is a letter
  when its lower-case form is (`LetterKept`). `OneEntryPerView` and
  `ReloadsAsSaved` follow from `WordsInv`: what an entry holds is a function of its view,
  and no view is longer than what `assignWord` takes; a second copy of a word that was cut
  at a NUL or at its last byte cuts nothing more (`Copied`). `EveryTokenIsCounted`
  (`Spec => []EveryTokenCounted`) is from `CountInv`: the range of a token that was handed
  out ends before the pointer of the scan, and no byte behind it is written again
  (`BehindThePointer`), so that the view a token was counted under is the view it has in
  the end (`SameCounts`); the count of an entry is the number of tokens of its view so
  far, which one more token raises by one or starts at one (`AddCounts`, `OneMoreOf`,
  `NewEntry`), and a token that is no stopword has an entry. It relies on the scan
  rewriting bytes in place while earlier tokens still point into them.

The assumptions say what the code fixes: the order of delays and sizes, that sets of
ids are finite, that offsets and counts are signed numbers of
the width of `size_t` and that there are fewer ids than positive ones
(`CountsAssumption`), that ids of requests are ids of the kind the
operation takes (`IdsOf`), that texts are sequences of code points.

Only model-checked: the liveness properties (`StopLeadsToJoined`, `Refinement` with its
fairness, `JoinAnswered`, `RunEnds`, `UpdatesReachCache`, `RequestsAnswered`,
`ChangesReachContents`), which are out of the prover's reach. The
theorems about texts hold for the table of blocks as `Unicode` has it; that it is the tree
of `UnicodeBlock.cpp` is neither checked nor proved, but read off the code.

## 5. Not modelled

Left out: floating-point sums, magnitudes and quotients
(`DocumentAccumulator`, `WordVector`, the scores of `WordAccumulator`), which TLC
has no numbers for; the serialization of `Centroid` and `WordVector`, which only
carry them; the tables of stopwords and the stemmers, which are data and a
library; `debugEraseAllData`, `eraseEverything`, `getServerMetadata` and statistics; flags, options
and wiring, which run once before the first request. One error there was met in
passing: `buildServerOptions.h` reads the file named by `FLAGS_config_file` also
when the path came from the environment.
