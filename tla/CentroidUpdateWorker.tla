------------------------ MODULE CentroidUpdateWorker ------------------------
(***************************************************************************)
(* The CentroidUpdateWorker of src/src/centroid_update_worker: it runs     *)
(* one CentroidUpdater at a time for a centroid, on a thread pool, when    *)
(* the debounced update queue or a client's join asks for it, and tells    *)
(* the joins of a centroid when an update has succeeded.                   *)
(*                                                                         *)
(* The contents of a centroid are abstracted to a version number, which    *)
(* grows with every change of its document membership; an update reads     *)
(* the version when it lists the documents and stores it when it saves     *)
(* the centroid.  The update queue is the TriggerQueue that the Debouncer  *)
(* implements.  A deleted centroid is not created again here.              *)
(***************************************************************************)
EXTENDS Integers, FiniteSets

CONSTANTS Centroids,   \* ids of centroids
          Deletable,   \* those that some client deletes
          Joins,       \* calls of joinUpdate()
          Tasks,       \* bound: tasks of the thread pool alive at once
          PoolSize,    \* threads of the pool
          MaxVersion   \* bound: changes of a centroid's membership

ASSUME WorkerAssumption ==
    /\ Deletable \subseteq Centroids
    /\ PoolSize \in Nat \ {0}
    /\ MaxVersion \in Nat

VARIABLES
    stopping,       \* stopping_
    updatingSet,    \* updatingSet_
    numInProgress,  \* numInProgress_
    callbacks,      \* perCentroidUpdateCallbacks_
    owed,           \* centroids the update queue still has to deliver
    tpc, tc,        \* how far a task has come, and its centroid
    ok,             \* the result of the task's updater has no exception
    seen,           \* version the task's updater has read, while it runs
    taken,          \* callbacks the task has taken to call
    jpc, jc,        \* how far a join has come, and its centroid
    asked,          \* version of the centroid when the join was called
    quiet,          \* no update of the centroid was under way at that time
    stale,          \* joins answered while the stored version was older
    exists,         \* centroids that exist (external)
    version,        \* version of a centroid's membership (external)
    changed,        \* changes that have not called triggerUpdate() yet (external)
    saved,          \* version of the stored centroid (external)
    joined          \* join() has returned

taskVars == <<tpc, tc, ok, seen, taken>>
joinVars == <<jpc, jc, asked, quiet, stale>>
dataVars == <<exists, version, changed, saved>>
vars == <<stopping, updatingSet, numInProgress, callbacks, owed, taskVars,
          joinVars, dataVars, joined>>

Queue == INSTANCE TriggerQueue WITH Elems <- Centroids, halted <- stopping

TaskPCs == {"free", "queued", "claimed", "cleared", "running", "ran",
            "cooling", "echo", "answering", "finishing"}
JoinPCs == {"idle", "refused", "checked", "registered", "waiting", "answered"}

TypeOK ==
    /\ stopping \in BOOLEAN
    /\ updatingSet \subseteq Centroids
    /\ numInProgress \in Int
    /\ callbacks \in [Centroids -> SUBSET Joins]
    /\ owed \subseteq Centroids
    /\ tpc \in [Tasks -> TaskPCs]
    /\ tc \in [Tasks -> Centroids]
    /\ ok \in [Tasks -> BOOLEAN]
    /\ seen \in [Tasks -> Nat]
    /\ taken \in [Tasks -> SUBSET Joins]
    /\ jpc \in [Joins -> JoinPCs]
    /\ jc \in [Joins -> Centroids]
    /\ asked \in [Joins -> Nat]
    /\ quiet \in [Joins -> BOOLEAN]
    /\ stale \subseteq Joins
    /\ exists \subseteq Centroids
    /\ version \in [Centroids -> Nat]
    /\ changed \subseteq Centroids
    /\ saved \in [Centroids -> Nat]
    /\ joined \in BOOLEAN

\* The worker after initialize(); every centroid has been created, and
\* stored with the contents it was created with.
Init ==
    /\ stopping = FALSE
    /\ updatingSet = {}
    /\ numInProgress = 0
    /\ callbacks = [c \in Centroids |-> {}]
    /\ owed = {}
    /\ tpc = [t \in Tasks |-> "free"]
    /\ tc \in [Tasks -> Centroids] /\ tc = [t \in Tasks |-> CHOOSE c \in Centroids : TRUE]
    /\ ok = [t \in Tasks |-> FALSE]
    /\ seen = [t \in Tasks |-> 0]
    /\ taken = [t \in Tasks |-> {}]
    /\ jpc = [j \in Joins |-> "idle"]
    /\ jc \in [Joins -> Centroids]
    /\ asked = [j \in Joins |-> 0]
    /\ quiet = [j \in Joins |-> FALSE]
    /\ stale = {}
    /\ exists = Centroids
    /\ version = [c \in Centroids |-> 0]
    /\ changed = {}
    /\ saved = [c \in Centroids |-> 0]
    /\ joined = FALSE

(***************************************************************************)
(* The environment: documents join and leave a centroid, centroids go      *)
(***************************************************************************)
Change(c) ==
    /\ c \in exists
    /\ version[c] < MaxVersion
    /\ version' = [version EXCEPT ![c] = @ + 1]
    /\ changed' = changed \cup {c}
    /\ UNCHANGED <<stopping, updatingSet, numInProgress, callbacks, owed, taskVars,
                   joinVars, exists, saved, joined>>

Delete(c) ==
    /\ c \in exists \cap Deletable
    /\ exists' = exists \ {c}
    /\ UNCHANGED <<stopping, updatingSet, numInProgress, callbacks, owed, taskVars,
                   joinVars, version, changed, saved, joined>>

(***************************************************************************)
(* update(), triggerUpdate() and joinUpdate()                              *)
(***************************************************************************)

\* update(c): a task on the thread pool, unless stopping_ is set.
update(c) ==
    IF stopping
      THEN UNCHANGED taskVars
      ELSE \E t \in Tasks :
             /\ tpc[t] = "free"
             /\ tpc' = [tpc EXCEPT ![t] = "queued"]
             /\ tc' = [tc EXCEPT ![t] = c]
             /\ UNCHANGED <<ok, seen, taken>>

triggerUpdate(c) ==
    /\ c \in changed
    /\ changed' = changed \ {c}
    /\ IF stopping THEN UNCHANGED owed ELSE owed' = owed \cup {c}
    /\ UNCHANGED <<stopping, updatingSet, numInProgress, callbacks, taskVars,
                   joinVars, exists, version, saved, joined>>

\* The callback that initialize() gives the update queue.  A delivery settles
\* what is owed; when one of the writes has been requeued, another follows.
QueueDelivers(c) ==
    /\ Queue!DeliverOwed(c) \/ (c \in owed /\ ~stopping /\ UNCHANGED <<owed, stopping>>)
    /\ update(c)
    /\ UNCHANGED <<updatingSet, numInProgress, callbacks, joinVars, dataVars, joined>>

\* Tasks that will still take the callbacks of a centroid, or that run the
\* updater for it.
UnderWay(c) == {t \in Tasks : tc[t] = c /\ tpc[t] \in
    {"claimed", "cleared", "running", "ran", "cooling", "echo"}}

\* The server's joinCentroid() finds that the centroid exists and is not up
\* to date, some time before it calls joinUpdate() (external).
joinCentroid(j) ==
    /\ jpc[j] = "idle"
    /\ jpc' = [jpc EXCEPT ![j] = IF jc[j] \in exists THEN "checked" ELSE "refused"]
    /\ UNCHANGED <<stopping, updatingSet, numInProgress, callbacks, owed, taskVars, jc,
                   asked, quiet, stale, dataVars, joined>>

onUpdateSpecificOnce(j) ==
    /\ jpc[j] = "checked"
    /\ callbacks' = [callbacks EXCEPT ![jc[j]] = @ \cup {j}]
    /\ jpc' = [jpc EXCEPT ![j] = "registered"]
    /\ asked' = [asked EXCEPT ![j] = version[jc[j]]]
    /\ quiet' = [quiet EXCEPT ![j] = UnderWay(jc[j]) = {}]
    /\ UNCHANGED <<stopping, updatingSet, numInProgress, owed, taskVars, jc, stale,
                   dataVars, joined>>

\* joinUpdate() asks for an update once its callback is registered.
joinUpdate(j) ==
    /\ jpc[j] = "registered"
    /\ update(jc[j])
    /\ jpc' = [jpc EXCEPT ![j] = "waiting"]
    /\ UNCHANGED <<stopping, updatingSet, numInProgress, callbacks, owed, jc, asked,
                   quiet, stale, dataVars, joined>>

(***************************************************************************)
(* The task of update(centroidId, updateDelay) on a thread of the pool     *)
(***************************************************************************)
OnThread == {t \in Tasks : tpc[t] \in {"claimed", "cleared", "running", "ran"}}

\* Mutant: the task goes on although another holds the centroid.
ClaimUntested(t) ==
    /\ tpc[t] = "queued"
    /\ Cardinality(OnThread) < PoolSize
    /\ tpc' = [tpc EXCEPT ![t] = "claimed"]
    /\ updatingSet' = updatingSet \cup {tc[t]}
    /\ UNCHANGED <<stopping, numInProgress, callbacks, owed, tc, ok, seen, taken,
                   joinVars, dataVars, joined>>

\* Test and insert under the lock of updatingSet_.
Claim(t) ==
    /\ tpc[t] = "queued"
    /\ Cardinality(OnThread) < PoolSize
    /\ tpc' = [tpc EXCEPT ![t] = IF tc[t] \in updatingSet THEN "free" ELSE "claimed"]
    /\ updatingSet' = updatingSet \cup {tc[t]}
    /\ UNCHANGED <<stopping, numInProgress, callbacks, owed, tc, ok, seen, taken,
                   joinVars, dataVars, joined>>

\* stopping_ is read outside the lock; the claim is not given back.
CheckStopping(t) ==
    /\ tpc[t] = "claimed"
    /\ tpc' = [tpc EXCEPT ![t] = IF stopping THEN "free" ELSE "cleared"]
    /\ UNCHANGED <<stopping, updatingSet, numInProgress, callbacks, owed, tc, ok, seen,
                   taken, joinVars, dataVars, joined>>

\* incrInProgress(), then the updater looks for the centroid and lists its
\* documents.
BeginRun(t) ==
    /\ tpc[t] = "cleared"
    /\ numInProgress' = numInProgress + 1
    /\ IF tc[t] \in exists
         THEN /\ tpc' = [tpc EXCEPT ![t] = "running"]
              /\ seen' = [seen EXCEPT ![t] = version[tc[t]]]
              /\ UNCHANGED ok
         ELSE /\ tpc' = [tpc EXCEPT ![t] = "ran"]
              /\ ok' = [ok EXCEPT ![t] = FALSE]
              /\ UNCHANGED seen
    /\ UNCHANGED <<stopping, updatingSet, callbacks, owed, tc, taken, joinVars, dataVars,
                   joined>>

\* Mutants: the result is reported and not stored; it is stored off by one.
FinishUnsaved(t) ==
    /\ tpc[t] = "running"
    /\ ok' = [ok EXCEPT ![t] = tc[t] \in exists]
    /\ tpc' = [tpc EXCEPT ![t] = "ran"]
    /\ seen' = [seen EXCEPT ![t] = 0]
    /\ UNCHANGED <<stopping, updatingSet, numInProgress, callbacks, owed, tc, taken,
                   joinVars, dataVars, joined>>

FinishOffByOne(t) ==
    /\ tpc[t] = "running"
    /\ saved' = [saved EXCEPT ![tc[t]] = seen[t] - 1]
    /\ tpc' = [tpc EXCEPT ![t] = "ran"]
    /\ UNCHANGED <<stopping, updatingSet, numInProgress, callbacks, owed, tc, ok, seen,
                   taken, joinVars, exists, version, changed, joined>>

\* The updater stores what it has computed if the centroid is still there.
FinishRun(t) ==
    /\ tpc[t] = "running"
    /\ ok' = [ok EXCEPT ![t] = tc[t] \in exists]
    /\ saved' = IF tc[t] \in exists THEN [saved EXCEPT ![tc[t]] = seen[t]] ELSE saved
    /\ tpc' = [tpc EXCEPT ![t] = "ran"]
    /\ seen' = [seen EXCEPT ![t] = 0]
    /\ UNCHANGED <<stopping, updatingSet, numInProgress, callbacks, owed, tc, taken,
                   joinVars, exists, version, changed, joined>>

\* Mutant: a worker that is stopping forgets to decrement numInProgress_.
AfterRunUncounted(t) ==
    /\ tpc[t] = "ran"
    /\ tpc' = [tpc EXCEPT ![t] = IF stopping THEN "free" ELSE "cooling"]
    /\ UNCHANGED <<stopping, updatingSet, numInProgress, callbacks, owed, tc, ok, seen,
                   taken, joinVars, dataVars, joined>>

\* A worker that is stopping neither clears updatingSet_ nor echoes.
AfterRun(t) ==
    /\ tpc[t] = "ran"
    /\ tpc' = [tpc EXCEPT ![t] = IF stopping THEN "finishing" ELSE "cooling"]
    /\ UNCHANGED <<stopping, updatingSet, numInProgress, callbacks, owed, tc, ok, seen,
                   taken, joinVars, dataVars, joined>>

(***************************************************************************)
(* The continuation after updateDelay, on the timekeeper thread            *)
(***************************************************************************)
TimekeeperBusy == \E t \in Tasks : tpc[t] \in {"echo", "answering"}

\* Mutant: an update that has succeeded does not echo.
EraseSilently(t) ==
    /\ tpc[t] = "cooling"
    /\ ~TimekeeperBusy
    /\ updatingSet' = updatingSet \ {tc[t]}
    /\ tpc' = [tpc EXCEPT ![t] = "finishing"]
    /\ ok' = [ok EXCEPT ![t] = FALSE]
    /\ UNCHANGED <<stopping, numInProgress, callbacks, owed, tc, seen, taken,
                   joinVars, dataVars, joined>>

EraseFromUpdating(t) ==
    /\ tpc[t] = "cooling"
    /\ ~TimekeeperBusy
    /\ updatingSet' = updatingSet \ {tc[t]}
    /\ tpc' = [tpc EXCEPT ![t] = IF ok[t] THEN "echo" ELSE "finishing"]
    /\ ok' = [ok EXCEPT ![t] = FALSE]
    /\ UNCHANGED <<stopping, numInProgress, callbacks, owed, tc, seen, taken,
                   joinVars, dataVars, joined>>

\* Mutant: the callbacks stay registered when they are taken.
CopyCallbacks(t) ==
    /\ tpc[t] = "echo"
    /\ taken' = [taken EXCEPT ![t] = callbacks[tc[t]]]
    /\ tpc' = [tpc EXCEPT ![t] = "answering"]
    /\ UNCHANGED <<stopping, updatingSet, numInProgress, callbacks, owed, tc, ok, seen,
                   joinVars, dataVars, joined>>

\* echoUpdated() takes the callbacks of the centroid under their lock ...
TakeCallbacks(t) ==
    /\ tpc[t] = "echo"
    /\ taken' = [taken EXCEPT ![t] = callbacks[tc[t]]]
    /\ callbacks' = [callbacks EXCEPT ![tc[t]] = {}]
    /\ tpc' = [tpc EXCEPT ![t] = "answering"]
    /\ UNCHANGED <<stopping, updatingSet, numInProgress, owed, tc, ok, seen,
                   joinVars, dataVars, joined>>

\* ... and calls them one by one, until the worker is stopping.
Answer(t, j) ==
    /\ tpc[t] = "answering"
    /\ j \in taken[t]
    /\ ~stopping
    /\ taken' = [taken EXCEPT ![t] = @ \ {j}]
    /\ jpc' = [jpc EXCEPT ![j] = "answered"]
    /\ stale' = IF saved[tc[t]] < asked[j] THEN stale \cup {j} ELSE stale
    /\ UNCHANGED <<stopping, updatingSet, numInProgress, callbacks, owed, tpc, tc, ok,
                   seen, jc, asked, quiet, dataVars, joined>>

EndEcho(t) ==
    /\ tpc[t] = "answering"
    /\ taken[t] = {} \/ stopping
    /\ taken' = [taken EXCEPT ![t] = {}]
    /\ tpc' = [tpc EXCEPT ![t] = "finishing"]
    /\ UNCHANGED <<stopping, updatingSet, numInProgress, callbacks, owed, tc, ok, seen,
                   joinVars, dataVars, joined>>

\* decrInProgress() takes effect 10 ms later.
decrInProgress(t) ==
    /\ tpc[t] = "finishing"
    /\ numInProgress' = numInProgress - 1
    /\ tpc' = [tpc EXCEPT ![t] = "free"]
    /\ UNCHANGED <<stopping, updatingSet, callbacks, owed, tc, ok, seen, taken,
                   joinVars, dataVars, joined>>

(***************************************************************************)
(* stop() and join()                                                       *)
(***************************************************************************)
stop ==
    /\ ~stopping
    /\ stopping' = TRUE
    /\ UNCHANGED <<updatingSet, numInProgress, callbacks, owed, taskVars, joinVars,
                   dataVars, joined>>

join ==
    /\ stopping /\ ~joined
    /\ numInProgress = 0
    /\ joined' = TRUE
    /\ UNCHANGED <<stopping, updatingSet, numInProgress, callbacks, owed, taskVars,
                   joinVars, dataVars>>

OnPool(t) == CheckStopping(t) \/ BeginRun(t) \/ FinishRun(t) \/ AfterRun(t)

OnTimekeeper(t) ==
    TakeCallbacks(t) \/ (\E j \in Joins : Answer(t, j)) \/ EndEcho(t) \/ decrInProgress(t)

Next ==
    \/ \E c \in Centroids : Change(c) \/ Delete(c) \/ triggerUpdate(c) \/ QueueDelivers(c)
    \/ \E j \in Joins : joinCentroid(j) \/ onUpdateSpecificOnce(j) \/ joinUpdate(j)
    \/ \E t \in Tasks : Claim(t) \/ OnPool(t) \/ EraseFromUpdating(t) \/ OnTimekeeper(t)
    \/ stop
    \/ join

Spec == Init /\ [][Next]_vars

\* The pool and the timekeeper are first-in first-out queues served by threads
\* that go on, so that no task is passed over for ever; the update queue keeps
\* its promise; a change calls triggerUpdate() and a join its update().
Fairness ==
    /\ \A t \in Tasks : /\ SF_vars(Claim(t)) /\ WF_vars(OnPool(t))
                        /\ SF_vars(EraseFromUpdating(t)) /\ WF_vars(OnTimekeeper(t))
    /\ \A c \in Centroids : /\ WF_vars(triggerUpdate(c))
                            /\ SF_vars(QueueDelivers(c))
    /\ \A j \in Joins : SF_vars(joinUpdate(j))
    /\ WF_vars(join)

FairSpec == Spec /\ Fairness

(***************************************************************************)
(* Properties                                                              *)
(***************************************************************************)

Updating == {"claimed", "cleared", "running", "ran", "cooling"}

\* Two updaters never work on one centroid: updatingSet_ is a lock per
\* centroid that is held across the pool thread and the timekeeper thread.
OneUpdatePerCentroid ==
    \A t, u \in Tasks :
        tpc[t] \in Updating /\ tpc[u] \in Updating /\ tc[t] = tc[u] => t = u

\* The promise of a join is set at most once: a callback is registered or
\* taken by one task, and never after it has been called.
NoDoubleAnswer ==
    \A j \in Joins :
        /\ \A t \in Tasks : j \in taken[t] =>
             /\ jpc[j] \in {"registered", "waiting"}
             /\ \A c \in Centroids : j \notin callbacks[c]
             /\ \A u \in Tasks : j \in taken[u] => t = u
        /\ \A c \in Centroids : j \in callbacks[c] =>
             c = jc[j] /\ jpc[j] \in {"registered", "waiting"}

\* A join that waits on a centroid that exists is never forgotten: a task
\* that will take its callback is queued or under way, also when its own
\* task was turned away because another held updatingSet_.
WaiterHasUpdate ==
    ~stopping => \A c \in exists : \A j \in callbacks[c] :
        jpc[j] = "waiting" =>
            \E t \in Tasks : /\ tc[t] = c
                             /\ tpc[t] \in Updating \cup {"queued", "echo"}

\* A join that comes when no update of its centroid is under way is answered
\* with contents at least as new as the call.
JoinFreshWhenQuiet ==
    \A j \in Joins : j \in stale => ~quiet[j]

\* A stored centroid is never replaced by an older one.
SavedNeverRegresses == [][\A c \in Centroids : saved'[c] >= saved[c]]_vars

\* A join on a centroid that is not deleted is answered, or the worker stops.
JoinAnswered ==
    \A j \in Joins :
        (jpc[j] = "registered") ~> (jpc[j] = "answered" \/ stopping \/ jc[j] \notin exists)

\* After stop(), join() returns: every path of a task that incremented
\* numInProgress_ decrements it.
StopLeadsToJoined == stopping ~> joined

=============================================================================
