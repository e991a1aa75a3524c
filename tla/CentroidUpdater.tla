--------------------------- MODULE CentroidUpdater ---------------------------
(***************************************************************************)
(* One run() of the CentroidUpdater of src/src/centroid_update_worker: it  *)
(* lists the documents of a centroid in parts, loads each part in batches, *)
(* adds up what it has loaded and stores the sum.  The worker never runs   *)
(* two updaters for one centroid, but clients change the store meanwhile,  *)
(* between any two of the accesses that a run makes through Persistence.   *)
(*                                                                         *)
(* Documents are numbered in the order of their ids, in which RocksDB      *)
(* iterates over the links of a centroid; a list of ids is the set of its  *)
(* members.  The sum is abstracted to how often each document is in it.    *)
(***************************************************************************)
EXTENDS Integers, FiniteSets

CONSTANTS N,               \* the documents are 1..N
          idListBatchSize, \* ids listed at once (500)
          documentBatchSize, \* documents loaded at once (20)
          MaxChanges       \* bound: changes that clients make

\* A batch is smaller than a part of the list: were they of one size, a centroid that gets as
\* many documents during a run could be listed, and added up, twice.
ASSUME UpdaterAssumption ==
    /\ N \in Nat /\ MaxChanges \in Nat
    /\ documentBatchSize \in Nat \ {0}
    /\ idListBatchSize \in Nat \ {0, 1}
    /\ documentBatchSize < idListBatchSize

Docs == 1..N

VARIABLES
    pc,        \* how far the run has come
    idSet,     \* the part of the list that is being loaded
    docNum,    \* index of the batch that is being loaded
    wanted,    \* documents of the batch whose load has not been answered
    loaded,    \* documents of the batch that were found
    counted,   \* how often the accumulator has added each document
    next,      \* how far the future of the next part has come
    nextIds,   \* its ids, when it is "ready"
    removals,  \* calls of removeDocumentFromCentroid that are under way
    centroid,  \* the centroid exists
    links,     \* documents that the centroid lists
    docs,      \* documents that exist
    changes,   \* changes made by clients so far
    stable,    \* documents linked and there ever since the run began
    ever       \* documents linked at some time since the run began

localVars == <<pc, idSet, docNum, wanted, loaded, counted>>
futureVars == <<next, nextIds, removals>>
storeVars == <<centroid, links, docs, changes, stable, ever>>
vars == <<localVars, futureVars, storeVars>>

PCs == {"idle", "list", "emptyList", "part", "batch", "loading", "nextPart",
        "recheck", "save", "saved", "failed"}

TypeOK ==
    /\ pc \in PCs
    /\ idSet \subseteq Docs
    /\ docNum \in Nat
    /\ wanted \subseteq Docs
    /\ loaded \subseteq Docs
    /\ counted \in [Docs -> Nat]
    /\ next \in {"none", "asked", "empty", "ready", "missing"}
    /\ nextIds \subseteq Docs
    /\ removals \subseteq Docs
    /\ centroid \in BOOLEAN
    /\ links \subseteq Docs
    /\ docs \subseteq Docs
    /\ changes \in Nat
    /\ stable \subseteq Docs
    /\ ever \subseteq Docs

\* Links to documents that do not exist are what deleteDocument leaves behind.
Init ==
    /\ pc = "idle"
    /\ idSet = {}
    /\ docNum = 0
    /\ wanted = {}
    /\ loaded = {}
    /\ counted = [d \in Docs |-> 0]
    /\ next = "none"
    /\ nextIds = {}
    /\ removals = {}
    /\ centroid = TRUE
    /\ links \in SUBSET Docs
    /\ docs \in SUBSET Docs
    /\ changes = 0
    /\ stable = {}
    /\ ever = {}

(***************************************************************************)
(* Lists of ids                                                            *)
(***************************************************************************)
Index(d, S) == Cardinality({e \in S : e < d})

\* Mutants: the iterator runs past the keys of the centroid; it always starts
\* with the first of them; the last document of a batch is skipped.
FirstOfAll(limit) == {d \in Docs : Index(d, Docs) < limit}

FirstAgain(first, limit) == {d \in links : Index(d, links) < limit}

ShortBatch(first) ==
    {d \in idSet : first <= Index(d, idSet) /\ Index(d, idSet) < first + documentBatchSize - 1}

\* listCentroidDocumentRangeFromOffset with offset 0.
FirstPart(limit) == {d \in links : Index(d, links) < limit}

\* listCentroidDocumentRangeFromDocumentId: the iterator starts at the key of
\* the given id, which is the first of the list if it is still linked.
PartFrom(first, limit) ==
    LET from == {d \in links : d >= first} IN {d \in from : Index(d, from) < limit}

LastOf(S) == CHOOSE d \in S : \A e \in S : e <= d

\* The loop over i goes from docNum to lastDocIndex, inclusive.
BatchAt(first) ==
    {d \in idSet : first <= Index(d, idSet) /\ Index(d, idSet) <= first + documentBatchSize}

(***************************************************************************)
(* run()                                                                   *)
(***************************************************************************)
Begin ==
    /\ pc = "idle"
    /\ pc' = IF centroid THEN "list" ELSE "failed"
    /\ stable' = links \cap docs
    /\ ever' = links
    /\ UNCHANGED <<idSet, docNum, wanted, loaded, counted, futureVars,
                   centroid, links, docs, changes>>

ListFirst ==
    /\ pc = "list"
    /\ idSet' = FirstPart(idListBatchSize)
    /\ pc' = IF idSet' = {} THEN "emptyList" ELSE "part"
    /\ UNCHANGED <<docNum, wanted, loaded, counted, futureVars, storeVars>>

\* An empty list stands for a missing centroid or for one without documents.
CheckEmpty ==
    /\ pc = "emptyList"
    /\ pc' = IF centroid THEN "recheck" ELSE "failed"
    /\ UNCHANGED <<idSet, docNum, wanted, loaded, counted, futureVars, storeVars>>

\* The next part of the list is asked for before this one is loaded.
BeginPart ==
    /\ pc = "part"
    /\ next' = "asked"
    /\ docNum' = 0
    /\ pc' = "batch"
    /\ UNCHANGED <<idSet, wanted, loaded, counted, nextIds, removals, storeVars>>

BeginBatch ==
    /\ pc = "batch"
    /\ IF docNum < Cardinality(idSet)
         THEN wanted' = BatchAt(docNum) /\ pc' = "loading"
         ELSE pc' = "nextPart" /\ UNCHANGED wanted
    /\ loaded' = {}
    /\ UNCHANGED <<idSet, docNum, counted, futureVars, storeVars>>

\* The loads of a batch run in parallel and are answered in any order.
loadDocument(d) ==
    /\ pc = "loading"
    /\ d \in wanted
    /\ wanted' = wanted \ {d}
    /\ loaded' = IF d \in docs THEN loaded \cup {d} ELSE loaded
    /\ UNCHANGED <<pc, idSet, docNum, counted, futureVars, storeVars>>

\* The ids that are handed to removeDocumentFromCentroid for missing documents
\* are those at the index of the document in its batch, not in the list.
IdsToRemove(missing) ==
    {e \in idSet : \E d \in missing : Index(e, idSet) = Index(d, idSet) - docNum}

\* DocumentAccumulator::addDocument() of every document of a batch: a sum is the number of times
\* that each document is in it.
addDocument(documents) ==
    [d \in Docs |-> IF d \in documents THEN counted[d] + 1 ELSE counted[d]]

\* Mutant: the index of a missing document is taken for its id.
AddBatchIndexes ==
    /\ pc = "loading"
    /\ wanted = {}
    /\ counted' = addDocument(loaded)
    /\ removals' = removals \cup
         {Index(d, idSet) - docNum : d \in BatchAt(docNum) \ loaded}
    /\ docNum' = docNum + documentBatchSize
    /\ pc' = "batch"
    /\ UNCHANGED <<idSet, wanted, loaded, next, nextIds, storeVars>>

\* collect(): what was found is added up, what was not is to be unlinked.
AddBatch ==
    /\ pc = "loading"
    /\ wanted = {}
    /\ counted' = addDocument(loaded)
    /\ removals' = removals \cup IdsToRemove(BatchAt(docNum) \ loaded)
    /\ docNum' = docNum + documentBatchSize
    /\ pc' = "batch"
    /\ UNCHANGED <<idSet, wanted, loaded, next, nextIds, storeVars>>

\* A part shorter than idListBatchSize ends the loop before it is loaded.
NextPart ==
    /\ pc = "nextPart"
    /\ next \in {"ready", "missing"}
    /\ IF next = "missing"
         THEN pc' = "failed" /\ UNCHANGED idSet
         ELSE /\ idSet' = nextIds
              /\ pc' = IF Cardinality(nextIds) >= idListBatchSize THEN "part" ELSE "recheck"
    /\ next' = "none"
    /\ nextIds' = {}
    /\ UNCHANGED <<docNum, wanted, loaded, counted, removals, storeVars>>

Recheck ==
    /\ pc = "recheck"
    /\ pc' = IF centroid THEN "save" ELSE "failed"
    /\ UNCHANGED <<idSet, docNum, wanted, loaded, counted, futureVars, storeVars>>

\* saveCentroid puts the centroid, whether or not it is still there.
Save ==
    /\ pc = "save"
    /\ centroid' = TRUE
    /\ pc' = "saved"
    /\ UNCHANGED <<idSet, docNum, wanted, loaded, counted, futureVars,
                   links, docs, changes, stable, ever>>

(***************************************************************************)
(* Futures of the run, on threads of Persistence                           *)
(***************************************************************************)
ReadNext ==
    /\ next = "asked"
    /\ nextIds' = PartFrom(LastOf(idSet), idListBatchSize)
    /\ next' = IF nextIds' = {} THEN "empty" ELSE "ready"
    /\ UNCHANGED <<localVars, removals, storeVars>>

CheckNext ==
    /\ next = "empty"
    /\ next' = IF centroid THEN "ready" ELSE "missing"
    /\ UNCHANGED <<localVars, nextIds, removals, storeVars>>

\* removeDocumentFromCentroid does nothing for a document that does not exist.
removeDocumentFromCentroid(d) ==
    /\ d \in removals
    /\ removals' = removals \ {d}
    /\ IF centroid /\ d \in docs
         THEN links' = links \ {d} /\ stable' = stable \ {d}
         ELSE UNCHANGED <<links, stable>>
    /\ UNCHANGED <<localVars, next, nextIds, centroid, docs, changes, ever>>

(***************************************************************************)
(* Clients                                                                 *)
(***************************************************************************)
ClientChanges ==
    /\ changes < MaxChanges
    /\ changes' = changes + 1
    /\ UNCHANGED <<localVars, futureVars>>

AddDocument(d) ==
    /\ centroid /\ d \in docs \ links
    /\ links' = links \cup {d}
    /\ ever' = ever \cup {d}
    /\ UNCHANGED <<centroid, docs, stable>>
    /\ ClientChanges

RemoveDocument(d) ==
    /\ centroid /\ d \in docs \cap links
    /\ links' = links \ {d}
    /\ stable' = stable \ {d}
    /\ UNCHANGED <<centroid, docs, ever>>
    /\ ClientChanges

\* The link from the centroid stays.
DeleteDocument(d) ==
    /\ d \in docs
    /\ docs' = docs \ {d}
    /\ stable' = stable \ {d}
    /\ UNCHANGED <<centroid, links, ever>>
    /\ ClientChanges

CreateDocument(d) ==
    /\ d \notin docs
    /\ docs' = docs \cup {d}
    /\ UNCHANGED <<centroid, links, stable, ever>>
    /\ ClientChanges

DeleteCentroid ==
    /\ centroid
    /\ centroid' = FALSE
    /\ links' = {}
    /\ stable' = {}
    /\ UNCHANGED <<docs, ever>>
    /\ ClientChanges

Run ==
    \/ Begin \/ ListFirst \/ CheckEmpty \/ BeginPart \/ BeginBatch
    \/ (\E d \in Docs : loadDocument(d))
    \/ AddBatch \/ NextPart \/ Recheck \/ Save

Future == ReadNext \/ CheckNext \/ \E d \in Docs : removeDocumentFromCentroid(d)

Client ==
    \/ \E d \in Docs : \/ AddDocument(d) \/ RemoveDocument(d)
                       \/ DeleteDocument(d) \/ CreateDocument(d)
    \/ DeleteCentroid

Next == Run \/ Future \/ Client

Spec == Init /\ [][Next]_vars

\* The pool's thread runs on, and Persistence answers every future.
FairSpec == Spec /\ WF_vars(Run) /\ WF_vars(Future)

(***************************************************************************)
(* Properties                                                              *)
(***************************************************************************)

\* A centroid that never had more than documentBatchSize documents during the
\* run is stored as the sum of its documents: each that was there all along
\* exactly once, none twice, whatever clients did meanwhile.
SmallCentroidExact ==
    pc = "saved" /\ Cardinality(ever) <= documentBatchSize =>
        \A d \in Docs : /\ counted[d] <= 1
                        /\ d \in stable => counted[d] = 1

\* Up to idListBatchSize documents, none that was there all along is left out.
NoneLeftOut ==
    pc = "saved" /\ Cardinality(ever) <= idListBatchSize =>
        \A d \in stable : counted[d] >= 1

\* Only documents that were in the centroid at some time during the run are
\* added up, also when one part of the list is older than the next.
OnlyMembersCounted ==
    \A d \in Docs : counted[d] > 0 => d \in ever

\* The run ends: every part of the list begins where the one before it ended,
\* and goes beyond it if it is long enough to be loaded.
RunEnds == (pc # "idle") ~> (pc \in {"saved", "failed"})

\* The log message of CentroidUpdater.cpp, line 105: what a run takes out of
\* the centroid is a "missing document".
OnlyMissingUnlinked ==
    [][\A d \in Docs : removeDocumentFromCentroid(d) => links' = links]_vars

=============================================================================
