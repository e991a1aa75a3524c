--------------------- MODULE CentroidUpdateWorkerProofs ---------------------
(***************************************************************************)
(* Safety of the CentroidUpdateWorker for every number of centroids,       *)
(* joins, tasks and pool threads.                                          *)
(***************************************************************************)
EXTENDS CentroidUpdateWorker, TLAPS

\* There is a centroid for the idle tasks to name in the initial state.
LEMMA InitType == ASSUME Init PROVE TypeOK
<1>1. /\ stopping \in BOOLEAN /\ joined \in BOOLEAN
      /\ ok \in [Tasks -> BOOLEAN] /\ quiet \in [Joins -> BOOLEAN]
  BY Zenon DEF Init
<1>2. /\ tpc \in [Tasks -> TaskPCs] /\ jpc \in [Joins -> JoinPCs]
  BY DEF Init, TaskPCs, JoinPCs
<1>3. /\ tc \in [Tasks -> Centroids] /\ jc \in [Joins -> Centroids]
  BY DEF Init
<1>4. /\ callbacks \in [Centroids -> SUBSET Joins] /\ taken \in [Tasks -> SUBSET Joins]
  BY DEF Init
<1>5. /\ seen \in [Tasks -> Nat] /\ asked \in [Joins -> Nat]
      /\ version \in [Centroids -> Nat] /\ saved \in [Centroids -> Nat]
  BY DEF Init
<1> QED
  BY <1>1, <1>2, <1>3, <1>4, <1>5 DEF Init, TypeOK

\* update() keeps the types of the task variables.
LEMMA UpdateType ==
    ASSUME TypeOK, NEW c \in Centroids, update(c)
    PROVE  /\ tpc' \in [Tasks -> TaskPCs] /\ tc' \in [Tasks -> Centroids]
           /\ ok' \in [Tasks -> BOOLEAN] /\ seen' \in [Tasks -> Nat]
           /\ taken' \in [Tasks -> SUBSET Joins]
BY DEF update, taskVars, TypeOK, TaskPCs

\* update() queues at most one task, and one unless the worker is stopping.
LEMMA UpdateEffect ==
    ASSUME TypeOK, NEW c \in Centroids, update(c)
    PROVE  /\ \A u \in Tasks : \/ tpc'[u] = tpc[u] /\ tc'[u] = tc[u]
                               \/ tpc[u] = "free" /\ tpc'[u] = "queued" /\ tc'[u] = c
           /\ ~stopping => \E u \in Tasks : tpc'[u] = "queued" /\ tc'[u] = c
           /\ UNCHANGED <<ok, seen, taken>>
<1>1. CASE stopping
  BY <1>1 DEF update, taskVars
<1>2. CASE ~stopping
  <2>1. PICK t \in Tasks : /\ tpc[t] = "free"
                           /\ tpc' = [tpc EXCEPT ![t] = "queued"]
                           /\ tc' = [tc EXCEPT ![t] = c]
                           /\ UNCHANGED <<ok, seen, taken>>
    BY <1>2 DEF update
  <2> QED
    BY <1>2, <2>1 DEF TypeOK
<1> QED
  BY <1>1, <1>2

\* Every step keeps the worker well typed.
LEMMA NextType == ASSUME TypeOK, [Next]_vars PROVE TypeOK'
<1> USE DEF TypeOK, taskVars, joinVars, dataVars, TaskPCs, JoinPCs
<1>1. ASSUME NEW c \in Centroids, Change(c) PROVE TypeOK'
  BY <1>1 DEF Change
<1>2. ASSUME NEW c \in Centroids, Delete(c) PROVE TypeOK'
  BY <1>2 DEF Delete
<1>3. ASSUME NEW c \in Centroids, triggerUpdate(c) PROVE TypeOK'
  BY <1>3 DEF triggerUpdate
<1>4. ASSUME NEW c \in Centroids, QueueDelivers(c) PROVE TypeOK'
  BY <1>4, UpdateType DEF QueueDelivers, Queue!DeliverOwed, Queue!Deliver
<1>5. ASSUME NEW j \in Joins, joinCentroid(j) PROVE TypeOK'
  BY <1>5 DEF joinCentroid
<1>6. ASSUME NEW j \in Joins, onUpdateSpecificOnce(j) PROVE TypeOK'
  <2>1. quiet' \in [Joins -> BOOLEAN]
    BY <1>6, Zenon DEF onUpdateSpecificOnce
  <2> QED
    BY <1>6, <2>1 DEF onUpdateSpecificOnce
<1>7. ASSUME NEW j \in Joins, joinUpdate(j) PROVE TypeOK'
  BY <1>7, UpdateType DEF joinUpdate
<1>8. ASSUME NEW t \in Tasks, Claim(t) PROVE TypeOK'
  BY <1>8 DEF Claim
<1>9. ASSUME NEW t \in Tasks, CheckStopping(t) PROVE TypeOK'
  BY <1>9 DEF CheckStopping
<1>10. ASSUME NEW t \in Tasks, BeginRun(t) PROVE TypeOK'
  <2>1. tpc' \in [Tasks -> TaskPCs] /\ seen' \in [Tasks -> Nat]
    BY <1>10 DEF BeginRun
  <2>2. ok' \in [Tasks -> BOOLEAN]
    BY <1>10 DEF BeginRun
  <2>3. numInProgress' \in Int
    BY <1>10 DEF BeginRun
  <2> QED
    BY <1>10, <2>1, <2>2, <2>3 DEF BeginRun
<1>11. ASSUME NEW t \in Tasks, FinishRun(t) PROVE TypeOK'
  <2>0. (tc[t] \in exists) \in BOOLEAN
    OBVIOUS
  <2>1. ok' \in [Tasks -> BOOLEAN]
    BY <1>11, <2>0 DEF FinishRun
  <2> QED
    BY <1>11, <2>1 DEF FinishRun
<1>12. ASSUME NEW t \in Tasks, AfterRun(t) PROVE TypeOK'
  BY <1>12 DEF AfterRun
<1>13. ASSUME NEW t \in Tasks, EraseFromUpdating(t) PROVE TypeOK'
  BY <1>13 DEF EraseFromUpdating
<1>14. ASSUME NEW t \in Tasks, TakeCallbacks(t) PROVE TypeOK'
  BY <1>14 DEF TakeCallbacks
<1>15. ASSUME NEW t \in Tasks, NEW j \in Joins, Answer(t, j) PROVE TypeOK'
  BY <1>15 DEF Answer
<1>16. ASSUME NEW t \in Tasks, EndEcho(t) PROVE TypeOK'
  BY <1>16 DEF EndEcho
<1>17. ASSUME NEW t \in Tasks, decrInProgress(t) PROVE TypeOK'
  BY <1>17 DEF decrInProgress
<1>18. CASE stop \/ join \/ UNCHANGED vars
  BY <1>18 DEF stop, join, vars
<1> QED
  BY <1>1, <1>2, <1>3, <1>4, <1>5, <1>6, <1>7, <1>8, <1>9, <1>10, <1>11, <1>12, <1>13,
     <1>14, <1>15, <1>16, <1>17, <1>18 DEF Next, OnPool, OnTimekeeper

\* The worker is well typed in every reachable state.
THEOREM TypeCorrect == Spec => []TypeOK
BY InitType, NextType, PTL DEF Spec

-----------------------------------------------------------------------------
(* updatingSet_ is a lock per centroid                                     *)

\* Whoever updates a centroid has it in updatingSet_, and is alone.
LockInv ==
    /\ \A t \in Tasks : tpc[t] \in Updating => tc[t] \in updatingSet
    /\ OneUpdatePerCentroid

\* Every step keeps the lock exclusive.
LEMMA NextLock == ASSUME TypeOK, LockInv, [Next]_vars PROVE LockInv'
<1>0. TypeOK'
  BY NextType
<1>1. ASSUME NEW c \in Centroids, Change(c) PROVE LockInv'
  BY <1>1, <1>0 DEF Change, LockInv, OneUpdatePerCentroid, Updating,
         TypeOK, taskVars, joinVars, dataVars
<1>2. ASSUME NEW c \in Centroids, Delete(c) PROVE LockInv'
  BY <1>2, <1>0 DEF Delete, LockInv, OneUpdatePerCentroid, Updating,
         TypeOK, taskVars, joinVars, dataVars
<1>3. ASSUME NEW c \in Centroids, triggerUpdate(c) PROVE LockInv'
  BY <1>3, <1>0 DEF triggerUpdate, LockInv, OneUpdatePerCentroid, Updating,
         TypeOK, taskVars, joinVars, dataVars
<1>4. ASSUME NEW c \in Centroids, QueueDelivers(c) PROVE LockInv'
  <2>1. UNCHANGED updatingSet /\ update(c) /\ c \in Centroids
    BY <1>4 DEF QueueDelivers, TypeOK
  <2> QED
    BY <2>1, UpdateEffect DEF LockInv, OneUpdatePerCentroid, Updating
<1>5. ASSUME NEW j \in Joins, joinCentroid(j) PROVE LockInv'
  BY <1>5, <1>0 DEF joinCentroid, LockInv, OneUpdatePerCentroid, Updating,
         TypeOK, taskVars, joinVars, dataVars
<1>6. ASSUME NEW j \in Joins, onUpdateSpecificOnce(j) PROVE LockInv'
  BY <1>6, <1>0 DEF onUpdateSpecificOnce, LockInv, OneUpdatePerCentroid, Updating,
         TypeOK, taskVars, joinVars, dataVars
<1>7. ASSUME NEW j \in Joins, joinUpdate(j) PROVE LockInv'
  <2>1. UNCHANGED updatingSet /\ update(jc[j]) /\ jc[j] \in Centroids
    BY <1>7 DEF joinUpdate, TypeOK
  <2> QED
    BY <2>1, UpdateEffect DEF LockInv, OneUpdatePerCentroid, Updating
<1>8. ASSUME NEW t \in Tasks, Claim(t) PROVE LockInv'
  BY <1>8, <1>0 DEF Claim, LockInv, OneUpdatePerCentroid, Updating,
         TypeOK, taskVars, joinVars, dataVars
<1>9. ASSUME NEW t \in Tasks, CheckStopping(t) PROVE LockInv'
  BY <1>9, <1>0 DEF CheckStopping, LockInv, OneUpdatePerCentroid, Updating,
         TypeOK, taskVars, joinVars, dataVars
<1>10. ASSUME NEW t \in Tasks, BeginRun(t) PROVE LockInv'
  <2>1. \A u \in Tasks : tpc'[u] \in Updating => tpc[u] \in Updating
    BY <1>10 DEF BeginRun, Updating, TypeOK
  <2>2. UNCHANGED <<tc, updatingSet>>
    BY <1>10 DEF BeginRun
  <2> QED
    BY <2>1, <2>2 DEF LockInv, OneUpdatePerCentroid
<1>11. ASSUME NEW t \in Tasks, FinishRun(t) PROVE LockInv'
  BY <1>11, <1>0 DEF FinishRun, LockInv, OneUpdatePerCentroid, Updating,
         TypeOK, taskVars, joinVars, dataVars
<1>12. ASSUME NEW t \in Tasks, AfterRun(t) PROVE LockInv'
  BY <1>12, <1>0 DEF AfterRun, LockInv, OneUpdatePerCentroid, Updating,
         TypeOK, taskVars, joinVars, dataVars
<1>13. ASSUME NEW t \in Tasks, EraseFromUpdating(t) PROVE LockInv'
  BY <1>13, <1>0 DEF EraseFromUpdating, LockInv, OneUpdatePerCentroid, Updating,
         TypeOK, taskVars, joinVars, dataVars
<1>14. ASSUME NEW t \in Tasks, TakeCallbacks(t) PROVE LockInv'
  BY <1>14, <1>0 DEF TakeCallbacks, LockInv, OneUpdatePerCentroid, Updating,
         TypeOK, taskVars, joinVars, dataVars
<1>15. ASSUME NEW t \in Tasks, NEW j \in Joins, Answer(t, j) PROVE LockInv'
  BY <1>15, <1>0 DEF Answer, LockInv, OneUpdatePerCentroid, Updating,
         TypeOK, taskVars, joinVars, dataVars
<1>16. ASSUME NEW t \in Tasks, EndEcho(t) PROVE LockInv'
  BY <1>16, <1>0 DEF EndEcho, LockInv, OneUpdatePerCentroid, Updating,
         TypeOK, taskVars, joinVars, dataVars
<1>17. ASSUME NEW t \in Tasks, decrInProgress(t) PROVE LockInv'
  BY <1>17, <1>0 DEF decrInProgress, LockInv, OneUpdatePerCentroid, Updating,
         TypeOK, taskVars, joinVars, dataVars
<1>18. CASE stop \/ join \/ UNCHANGED vars
  BY <1>18, <1>0 DEF stop, join, vars, LockInv, OneUpdatePerCentroid, Updating,
         TypeOK, taskVars, joinVars, dataVars
<1> QED
  BY <1>1, <1>2, <1>3, <1>4, <1>5, <1>6, <1>7, <1>8, <1>9,
     <1>10, <1>11, <1>12, <1>13, <1>14, <1>15, <1>16, <1>17, <1>18 DEF Next, OnPool, OnTimekeeper

\* Two updaters never run for one centroid at the same time
\* (CentroidUpdateWorker.cpp, lines 79-85 and 105-107).
THEOREM MutualExclusion == Spec => []OneUpdatePerCentroid
<1>1. Init => LockInv
  BY DEF Init, LockInv, OneUpdatePerCentroid, Updating
<1>2. LockInv => OneUpdatePerCentroid
  BY DEF LockInv
<1> QED
  BY <1>1, <1>2, InitType, NextType, NextLock, PTL DEF Spec

-----------------------------------------------------------------------------
(* A promise is set at most once                                           *)

\* Callbacks that a task has taken are those of its centroid, and it is
\* calling them.
CallbackInv ==
    /\ NoDoubleAnswer
    /\ \A t \in Tasks : \A j \in taken[t] : tpc[t] = "answering" /\ jc[j] = tc[t]

\* Every step keeps a callback in one place.
LEMMA NextCallback == ASSUME TypeOK, CallbackInv, [Next]_vars PROVE CallbackInv'
<1>0. TypeOK'
  BY NextType
<1>1. ASSUME NEW c \in Centroids, Change(c) PROVE CallbackInv'
  BY <1>1, <1>0 DEF Change, CallbackInv, NoDoubleAnswer,
         TypeOK, taskVars, joinVars, dataVars
<1>2. ASSUME NEW c \in Centroids, Delete(c) PROVE CallbackInv'
  BY <1>2, <1>0 DEF Delete, CallbackInv, NoDoubleAnswer,
         TypeOK, taskVars, joinVars, dataVars
<1>3. ASSUME NEW c \in Centroids, triggerUpdate(c) PROVE CallbackInv'
  BY <1>3, <1>0 DEF triggerUpdate, CallbackInv, NoDoubleAnswer,
         TypeOK, taskVars, joinVars, dataVars
<1>4. ASSUME NEW c \in Centroids, QueueDelivers(c) PROVE CallbackInv'
  <2>1. update(c) /\ c \in Centroids
    BY <1>4 DEF QueueDelivers, TypeOK
  <2> QED
    BY <1>4, <2>1, <1>0, UpdateEffect DEF QueueDelivers, CallbackInv, NoDoubleAnswer,
         TypeOK, taskVars, joinVars, dataVars
<1>5. ASSUME NEW j \in Joins, joinCentroid(j) PROVE CallbackInv'
  BY <1>5, <1>0 DEF joinCentroid, CallbackInv, NoDoubleAnswer,
         TypeOK, taskVars, joinVars, dataVars
<1>6. ASSUME NEW j \in Joins, onUpdateSpecificOnce(j) PROVE CallbackInv'
  BY <1>6, <1>0 DEF onUpdateSpecificOnce, CallbackInv, NoDoubleAnswer,
         TypeOK, taskVars, joinVars, dataVars
<1>7. ASSUME NEW j \in Joins, joinUpdate(j) PROVE CallbackInv'
  <2>1. update(jc[j]) /\ jc[j] \in Centroids
    BY <1>7 DEF joinUpdate, TypeOK
  <2> QED
    BY <1>7, <2>1, <1>0, UpdateEffect DEF joinUpdate, CallbackInv, NoDoubleAnswer,
         TypeOK, taskVars, joinVars, dataVars
<1>8. ASSUME NEW t \in Tasks, Claim(t) PROVE CallbackInv'
  BY <1>8, <1>0 DEF Claim, CallbackInv, NoDoubleAnswer,
         TypeOK, taskVars, joinVars, dataVars
<1>9. ASSUME NEW t \in Tasks, CheckStopping(t) PROVE CallbackInv'
  BY <1>9, <1>0 DEF CheckStopping, CallbackInv, NoDoubleAnswer,
         TypeOK, taskVars, joinVars, dataVars
<1>10. ASSUME NEW t \in Tasks, BeginRun(t) PROVE CallbackInv'
  BY <1>10, <1>0 DEF BeginRun, CallbackInv, NoDoubleAnswer,
         TypeOK, taskVars, joinVars, dataVars
<1>11. ASSUME NEW t \in Tasks, FinishRun(t) PROVE CallbackInv'
  BY <1>11, <1>0 DEF FinishRun, CallbackInv, NoDoubleAnswer,
         TypeOK, taskVars, joinVars, dataVars
<1>12. ASSUME NEW t \in Tasks, AfterRun(t) PROVE CallbackInv'
  BY <1>12, <1>0 DEF AfterRun, CallbackInv, NoDoubleAnswer,
         TypeOK, taskVars, joinVars, dataVars
<1>13. ASSUME NEW t \in Tasks, EraseFromUpdating(t) PROVE CallbackInv'
  BY <1>13, <1>0 DEF EraseFromUpdating, CallbackInv, NoDoubleAnswer,
         TypeOK, taskVars, joinVars, dataVars
<1>14. ASSUME NEW t \in Tasks, TakeCallbacks(t) PROVE CallbackInv'
  BY <1>14, <1>0 DEF TakeCallbacks, CallbackInv, NoDoubleAnswer,
         TypeOK, taskVars, joinVars, dataVars
<1>15. ASSUME NEW t \in Tasks, NEW j \in Joins, Answer(t, j) PROVE CallbackInv'
  BY <1>15, <1>0 DEF Answer, CallbackInv, NoDoubleAnswer,
         TypeOK, taskVars, joinVars, dataVars
<1>16. ASSUME NEW t \in Tasks, EndEcho(t) PROVE CallbackInv'
  BY <1>16, <1>0 DEF EndEcho, CallbackInv, NoDoubleAnswer,
         TypeOK, taskVars, joinVars, dataVars
<1>17. ASSUME NEW t \in Tasks, decrInProgress(t) PROVE CallbackInv'
  BY <1>17, <1>0 DEF decrInProgress, CallbackInv, NoDoubleAnswer,
         TypeOK, taskVars, joinVars, dataVars
<1>18. CASE stop \/ join \/ UNCHANGED vars
  BY <1>18, <1>0 DEF stop, join, vars, CallbackInv, NoDoubleAnswer,
         TypeOK, taskVars, joinVars, dataVars
<1> QED
  BY <1>1, <1>2, <1>3, <1>4, <1>5, <1>6, <1>7, <1>8, <1>9,
     <1>10, <1>11, <1>12, <1>13, <1>14, <1>15, <1>16, <1>17, <1>18 DEF Next, OnPool, OnTimekeeper

\* The promise of a join is set at most once (CentroidUpdateWorker.cpp, lines
\* 117-139 and 162-170): setting it twice would throw.
THEOREM AnsweredOnce == Spec => []NoDoubleAnswer
<1>1. Init => CallbackInv
  BY DEF Init, CallbackInv, NoDoubleAnswer
<1>2. CallbackInv => NoDoubleAnswer
  BY DEF CallbackInv
<1> QED
  BY <1>1, <1>2, InitType, NextType, NextCallback, PTL DEF Spec

-----------------------------------------------------------------------------
(* A stored centroid never goes back to older contents                     *)

\* What is stored, what an updater has read and what a join has asked for
\* are versions the centroid has had; an updater has read something at
\* least as new as what is stored.
DataInv ==
    /\ \A c \in Centroids : saved[c] <= version[c]
    /\ \A t \in Tasks : tpc[t] = "running" =>
         saved[tc[t]] <= seen[t] /\ seen[t] <= version[tc[t]]
    /\ \A j \in Joins : asked[j] <= version[jc[j]]

\* Every step keeps the versions in order.
LEMMA NextData == ASSUME TypeOK, LockInv, DataInv, [Next]_vars PROVE DataInv'
<1>0. TypeOK'
  BY NextType
<1>1. ASSUME NEW c \in Centroids, Change(c) PROVE DataInv'
  BY <1>1, <1>0 DEF Change, DataInv,
         TypeOK, taskVars, joinVars, dataVars
<1>2. ASSUME NEW c \in Centroids, Delete(c) PROVE DataInv'
  BY <1>2, <1>0 DEF Delete, DataInv,
         TypeOK, taskVars, joinVars, dataVars
<1>3. ASSUME NEW c \in Centroids, triggerUpdate(c) PROVE DataInv'
  BY <1>3, <1>0 DEF triggerUpdate, DataInv,
         TypeOK, taskVars, joinVars, dataVars
<1>4. ASSUME NEW c \in Centroids, QueueDelivers(c) PROVE DataInv'
  <2>1. update(c) /\ c \in Centroids
    BY <1>4 DEF QueueDelivers, TypeOK
  <2> QED
    BY <1>4, <2>1, <1>0, UpdateEffect DEF QueueDelivers, DataInv,
         TypeOK, taskVars, joinVars, dataVars
<1>5. ASSUME NEW j \in Joins, joinCentroid(j) PROVE DataInv'
  BY <1>5, <1>0 DEF joinCentroid, DataInv,
         TypeOK, taskVars, joinVars, dataVars
<1>6. ASSUME NEW j \in Joins, onUpdateSpecificOnce(j) PROVE DataInv'
  BY <1>6, <1>0 DEF onUpdateSpecificOnce, DataInv,
         TypeOK, taskVars, joinVars, dataVars
<1>7. ASSUME NEW j \in Joins, joinUpdate(j) PROVE DataInv'
  <2>1. update(jc[j]) /\ jc[j] \in Centroids
    BY <1>7 DEF joinUpdate, TypeOK
  <2> QED
    BY <1>7, <2>1, <1>0, UpdateEffect DEF joinUpdate, DataInv,
         TypeOK, taskVars, joinVars, dataVars
<1>8. ASSUME NEW t \in Tasks, Claim(t) PROVE DataInv'
  BY <1>8, <1>0 DEF Claim, DataInv,
         TypeOK, taskVars, joinVars, dataVars
<1>9. ASSUME NEW t \in Tasks, CheckStopping(t) PROVE DataInv'
  BY <1>9, <1>0 DEF CheckStopping, DataInv,
         TypeOK, taskVars, joinVars, dataVars
<1>10. ASSUME NEW t \in Tasks, BeginRun(t) PROVE DataInv'
  BY <1>10, <1>0 DEF BeginRun, DataInv,
         TypeOK, taskVars, joinVars, dataVars
<1>11. ASSUME NEW t \in Tasks, FinishRun(t) PROVE DataInv'
  <2>1. \A u \in Tasks : u # t /\ tpc[u] = "running" => tc[u] # tc[t]
    BY <1>11 DEF FinishRun, LockInv, OneUpdatePerCentroid, Updating
  <2> QED
    BY <1>11, <1>0, <2>1 DEF FinishRun, DataInv, TypeOK, taskVars, joinVars, dataVars
<1>12. ASSUME NEW t \in Tasks, AfterRun(t) PROVE DataInv'
  BY <1>12, <1>0 DEF AfterRun, DataInv,
         TypeOK, taskVars, joinVars, dataVars
<1>13. ASSUME NEW t \in Tasks, EraseFromUpdating(t) PROVE DataInv'
  BY <1>13, <1>0 DEF EraseFromUpdating, DataInv,
         TypeOK, taskVars, joinVars, dataVars
<1>14. ASSUME NEW t \in Tasks, TakeCallbacks(t) PROVE DataInv'
  BY <1>14, <1>0 DEF TakeCallbacks, DataInv,
         TypeOK, taskVars, joinVars, dataVars
<1>15. ASSUME NEW t \in Tasks, NEW j \in Joins, Answer(t, j) PROVE DataInv'
  BY <1>15, <1>0 DEF Answer, DataInv,
         TypeOK, taskVars, joinVars, dataVars
<1>16. ASSUME NEW t \in Tasks, EndEcho(t) PROVE DataInv'
  BY <1>16, <1>0 DEF EndEcho, DataInv,
         TypeOK, taskVars, joinVars, dataVars
<1>17. ASSUME NEW t \in Tasks, decrInProgress(t) PROVE DataInv'
  BY <1>17, <1>0 DEF decrInProgress, DataInv,
         TypeOK, taskVars, joinVars, dataVars
<1>18. CASE stop \/ join \/ UNCHANGED vars
  BY <1>18, <1>0 DEF stop, join, vars, DataInv,
         TypeOK, taskVars, joinVars, dataVars
<1> QED
  BY <1>1, <1>2, <1>3, <1>4, <1>5, <1>6, <1>7, <1>8, <1>9,
     <1>10, <1>11, <1>12, <1>13, <1>14, <1>15, <1>16, <1>17, <1>18 DEF Next, OnPool, OnTimekeeper

\* Saving an updater's result (CentroidUpdater.cpp, line 134) never replaces a
\* stored centroid by an older one, because updatingSet_ keeps a second
\* updater from overtaking the first.
THEOREM NoRegress == Spec => SavedNeverRegresses
<1>1. Init => DataInv
  BY DEF Init, DataInv
<1>2. TypeOK /\ DataInv /\ [Next]_vars => [\A c \in Centroids : saved'[c] >= saved[c]]_vars
  <2> SUFFICES ASSUME TypeOK, DataInv, [Next]_vars
               PROVE  \A c \in Centroids : saved'[c] >= saved[c]
    OBVIOUS
  <2>1. ASSUME NEW t \in Tasks, FinishRun(t) PROVE \A c \in Centroids : saved'[c] >= saved[c]
    BY <2>1 DEF FinishRun, DataInv, TypeOK
  <2>2. (\E t \in Tasks : FinishRun(t)) \/ UNCHANGED saved
    BY DEF Next, OnPool, OnTimekeeper, Change, Delete, triggerUpdate, QueueDelivers, joinCentroid,
           onUpdateSpecificOnce, joinUpdate, Claim, CheckStopping, BeginRun, AfterRun,
           EraseFromUpdating, TakeCallbacks, Answer, EndEcho, decrInProgress, stop, join,
           vars, dataVars
  <2> QED
    BY <2>1, <2>2 DEF TypeOK
<1>3. Init => LockInv
  BY DEF Init, LockInv, OneUpdatePerCentroid, Updating
<1> QED
  BY <1>1, <1>2, <1>3, InitType, NextType, NextLock, NextData, PTL DEF Spec, SavedNeverRegresses

-----------------------------------------------------------------------------
(* A join that finds its centroid quiet is answered with fresh contents    *)

\* While such a join waits, no update that read older contents can take its
\* callback; once the callback is taken, contents as new as the call are
\* stored.
FreshInv ==
    /\ \A j \in Joins : quiet[j] /\ j \in callbacks[jc[j]] => \A t \in Tasks : tc[t] = jc[j] =>
         /\ tpc[t] = "running" => asked[j] <= seen[t]
         /\ tpc[t] \in {"ran", "cooling"} /\ ok[t] => asked[j] <= saved[jc[j]]
         /\ tpc[t] = "echo" => asked[j] <= saved[jc[j]]
    /\ \A t \in Tasks : \A j \in taken[t] : quiet[j] => asked[j] <= saved[jc[j]]
    /\ \A j \in stale : jpc[j] = "answered"
    /\ JoinFreshWhenQuiet

\* Every step keeps quiet joins fresh.
LEMMA NextFresh ==
    ASSUME TypeOK, CallbackInv, DataInv, FreshInv, [Next]_vars PROVE FreshInv'
<1>0. TypeOK' /\ CallbackInv' /\ DataInv
  BY NextType, NextCallback
<1>a. \A c \in Centroids : saved[c] \in Nat /\ version[c] \in Nat
  BY DEF TypeOK
<1>1. ASSUME NEW c \in Centroids, Change(c) PROVE FreshInv'
  BY <1>1, <1>0, <1>a DEF Change, FreshInv, JoinFreshWhenQuiet, DataInv,
         CallbackInv, NoDoubleAnswer, UnderWay, TypeOK, taskVars, joinVars, dataVars
<1>2. ASSUME NEW c \in Centroids, Delete(c) PROVE FreshInv'
  BY <1>2, <1>0, <1>a DEF Delete, FreshInv, JoinFreshWhenQuiet, DataInv,
         CallbackInv, NoDoubleAnswer, UnderWay, TypeOK, taskVars, joinVars, dataVars
<1>3. ASSUME NEW c \in Centroids, triggerUpdate(c) PROVE FreshInv'
  BY <1>3, <1>0, <1>a DEF triggerUpdate, FreshInv, JoinFreshWhenQuiet, DataInv,
         CallbackInv, NoDoubleAnswer, UnderWay, TypeOK, taskVars, joinVars, dataVars
<1>4. ASSUME NEW c \in Centroids, QueueDelivers(c) PROVE FreshInv'
  <2>1. update(c) /\ c \in Centroids
    BY <1>4 DEF QueueDelivers, TypeOK
  <2> QED
    BY <1>4, <2>1, <1>0, <1>a, UpdateEffect DEF QueueDelivers, FreshInv, JoinFreshWhenQuiet, DataInv,
         CallbackInv, NoDoubleAnswer, UnderWay, TypeOK, taskVars, joinVars, dataVars
<1>5. ASSUME NEW j \in Joins, joinCentroid(j) PROVE FreshInv'
  BY <1>5, <1>0, <1>a DEF joinCentroid, FreshInv, JoinFreshWhenQuiet, DataInv,
         CallbackInv, NoDoubleAnswer, UnderWay, TypeOK, taskVars, joinVars, dataVars
<1>6. ASSUME NEW j \in Joins, onUpdateSpecificOnce(j) PROVE FreshInv'
  <2>1. /\ j \notin stale
        /\ \A t \in Tasks : j \notin taken[t]
    BY <1>6 DEF onUpdateSpecificOnce, FreshInv, CallbackInv, NoDoubleAnswer
  <2>2. /\ UNCHANGED <<tpc, tc, ok, seen, taken, jc, stale, saved>>
        /\ \A k \in Joins : k # j =>
             /\ quiet'[k] = quiet[k] /\ asked'[k] = asked[k] /\ jpc'[k] = jpc[k]
             /\ k \in callbacks'[jc[k]] => k \in callbacks[jc[k]]
        /\ quiet'[j] => UnderWay(jc[j]) = {}
    BY <1>6 DEF onUpdateSpecificOnce, taskVars, dataVars, TypeOK
  <2>3. \A t \in Tasks : quiet'[j] /\ tc[t] = jc[j] => tpc[t] \notin {"running", "ran", "cooling", "echo"}
    BY <2>2 DEF UnderWay
  <2>4. \A t \in Tasks : taken[t] \subseteq Joins
    BY DEF TypeOK
  <2>5. JoinFreshWhenQuiet'
    BY <2>1, <2>2 DEF FreshInv, JoinFreshWhenQuiet
  <2>6. \A k \in stale' : jpc'[k] = "answered"
    BY <2>1, <2>2 DEF FreshInv, TypeOK
  <2> QED
    BY <2>1, <2>2, <2>3, <2>4, <2>5, <2>6 DEF FreshInv
<1>7. ASSUME NEW j \in Joins, joinUpdate(j) PROVE FreshInv'
  <2>1. update(jc[j]) /\ jc[j] \in Centroids
    BY <1>7 DEF joinUpdate, TypeOK
  <2> QED
    BY <1>7, <2>1, <1>0, <1>a, UpdateEffect DEF joinUpdate, FreshInv, JoinFreshWhenQuiet, DataInv,
         CallbackInv, NoDoubleAnswer, UnderWay, TypeOK, taskVars, joinVars, dataVars
<1>8. ASSUME NEW t \in Tasks, Claim(t) PROVE FreshInv'
  BY <1>8, <1>0, <1>a DEF Claim, FreshInv, JoinFreshWhenQuiet, DataInv,
         CallbackInv, NoDoubleAnswer, UnderWay, TypeOK, taskVars, joinVars, dataVars
<1>9. ASSUME NEW t \in Tasks, CheckStopping(t) PROVE FreshInv'
  BY <1>9, <1>0, <1>a DEF CheckStopping, FreshInv, JoinFreshWhenQuiet, DataInv,
         CallbackInv, NoDoubleAnswer, UnderWay, TypeOK, taskVars, joinVars, dataVars
<1>10. ASSUME NEW t \in Tasks, BeginRun(t) PROVE FreshInv'
  BY <1>10, <1>0, <1>a DEF BeginRun, FreshInv, JoinFreshWhenQuiet, DataInv,
         CallbackInv, NoDoubleAnswer, UnderWay, TypeOK, taskVars, joinVars, dataVars
<1>11. ASSUME NEW t \in Tasks, FinishRun(t) PROVE FreshInv'
  <2>1. \A c \in Centroids : saved[c] <= saved'[c]
    BY <1>11, <1>a DEF FinishRun, DataInv, TypeOK
  <2>2. /\ UNCHANGED <<tc, callbacks, taken, jpc, jc, asked, quiet, stale>>
        /\ \A u \in Tasks : u # t => tpc'[u] = tpc[u] /\ ok'[u] = ok[u] /\ seen'[u] = seen[u]
        /\ tpc[t] = "running" /\ tpc'[t] = "ran"
        /\ ok'[t] => saved'[tc[t]] = seen[t]
    BY <1>11 DEF FinishRun, TypeOK, joinVars
  <2>3. \A j \in Joins : jc[j] \in Centroids /\ asked[j] \in Nat
    BY DEF TypeOK
  <2>4. \A c \in Centroids : saved'[c] \in Nat
    BY <1>0 DEF TypeOK
  <2>5. \A j \in Joins : asked[j] <= saved[jc[j]] => asked[j] <= saved'[jc[j]]
    BY <2>1, <2>3, <2>4, <1>a
  <2>6. \A u \in Tasks : taken[u] \subseteq Joins
    BY DEF TypeOK
  <2> QED
    BY <2>2, <2>5, <2>6 DEF FreshInv, JoinFreshWhenQuiet
<1>12. ASSUME NEW t \in Tasks, AfterRun(t) PROVE FreshInv'
  BY <1>12, <1>0, <1>a DEF AfterRun, FreshInv, JoinFreshWhenQuiet, DataInv,
         CallbackInv, NoDoubleAnswer, UnderWay, TypeOK, taskVars, joinVars, dataVars
<1>13. ASSUME NEW t \in Tasks, EraseFromUpdating(t) PROVE FreshInv'
  BY <1>13, <1>0, <1>a DEF EraseFromUpdating, FreshInv, JoinFreshWhenQuiet, DataInv,
         CallbackInv, NoDoubleAnswer, UnderWay, TypeOK, taskVars, joinVars, dataVars
<1>14. ASSUME NEW t \in Tasks, TakeCallbacks(t) PROVE FreshInv'
  BY <1>14, <1>0, <1>a DEF TakeCallbacks, FreshInv, JoinFreshWhenQuiet, DataInv,
         CallbackInv, NoDoubleAnswer, UnderWay, TypeOK, taskVars, joinVars, dataVars
<1>15. ASSUME NEW t \in Tasks, NEW j \in Joins, Answer(t, j) PROVE FreshInv'
  BY <1>15, <1>0, <1>a DEF Answer, FreshInv, JoinFreshWhenQuiet, DataInv,
         CallbackInv, NoDoubleAnswer, UnderWay, TypeOK, taskVars, joinVars, dataVars
<1>16. ASSUME NEW t \in Tasks, EndEcho(t) PROVE FreshInv'
  BY <1>16, <1>0, <1>a DEF EndEcho, FreshInv, JoinFreshWhenQuiet, DataInv,
         CallbackInv, NoDoubleAnswer, UnderWay, TypeOK, taskVars, joinVars, dataVars
<1>17. ASSUME NEW t \in Tasks, decrInProgress(t) PROVE FreshInv'
  BY <1>17, <1>0, <1>a DEF decrInProgress, FreshInv, JoinFreshWhenQuiet, DataInv,
         CallbackInv, NoDoubleAnswer, UnderWay, TypeOK, taskVars, joinVars, dataVars
<1>18. CASE stop \/ join \/ UNCHANGED vars
  BY <1>18, <1>0, <1>a DEF stop, join, vars, FreshInv, JoinFreshWhenQuiet, DataInv,
         CallbackInv, NoDoubleAnswer, UnderWay, TypeOK, taskVars, joinVars, dataVars
<1> QED
  BY <1>1, <1>2, <1>3, <1>4, <1>5, <1>6, <1>7, <1>8, <1>9,
     <1>10, <1>11, <1>12, <1>13, <1>14, <1>15, <1>16, <1>17, <1>18 DEF Next, OnPool, OnTimekeeper

\* A join that comes when no update of its centroid is under way is answered
\* with contents at least as new as the call (CentroidUpdateWorker.cpp, lines
\* 162-170: the callback is registered before the update is asked for).
THEOREM QuietJoinsAreFresh == Spec => []JoinFreshWhenQuiet
<1>1. Init => DataInv /\ FreshInv /\ CallbackInv /\ LockInv
  BY DEF Init, DataInv, FreshInv, JoinFreshWhenQuiet, CallbackInv, NoDoubleAnswer,
         LockInv, OneUpdatePerCentroid, Updating
<1>2. FreshInv => JoinFreshWhenQuiet
  BY DEF FreshInv
<1> QED
  BY <1>1, <1>2, InitType, NextType, NextLock, NextCallback, NextData, NextFresh, PTL DEF Spec

-----------------------------------------------------------------------------
(* A waiting join is never forgotten                                       *)

WaitInv ==
    /\ \A t \in Tasks : tpc[t] \in {"ran", "cooling"} /\ tc[t] \in exists => ok[t]
    /\ ~stopping => \A c \in updatingSet : \E t \in Tasks : tc[t] = c /\ tpc[t] \in Updating
    /\ WaiterHasUpdate

\* Every step keeps an update coming for every waiting join.
LEMMA NextWait ==
    ASSUME TypeOK, LockInv, CallbackInv, WaitInv, [Next]_vars PROVE WaitInv'
<1>0. TypeOK' /\ CallbackInv' /\ LockInv'
  BY NextType, NextCallback, NextLock
<1>1. ASSUME NEW c \in Centroids, Change(c) PROVE WaitInv'
  BY <1>1, <1>0 DEF Change, WaitInv, WaiterHasUpdate, Updating,
         CallbackInv, NoDoubleAnswer, TypeOK, taskVars, joinVars, dataVars
<1>2. ASSUME NEW c \in Centroids, Delete(c) PROVE WaitInv'
  BY <1>2, <1>0 DEF Delete, WaitInv, WaiterHasUpdate, Updating,
         CallbackInv, NoDoubleAnswer, TypeOK, taskVars, joinVars, dataVars
<1>3. ASSUME NEW c \in Centroids, triggerUpdate(c) PROVE WaitInv'
  BY <1>3, <1>0 DEF triggerUpdate, WaitInv, WaiterHasUpdate, Updating,
         CallbackInv, NoDoubleAnswer, TypeOK, taskVars, joinVars, dataVars
<1>4. ASSUME NEW c \in Centroids, QueueDelivers(c) PROVE WaitInv'
  <2>1. update(c) /\ c \in Centroids
    BY <1>4 DEF QueueDelivers, TypeOK
  <2>2. UNCHANGED <<stopping, updatingSet, callbacks, exists, jc>>
    BY <1>4 DEF QueueDelivers, dataVars, joinVars, Queue!DeliverOwed, Queue!Deliver
  <2>3. \A u \in Tasks : tpc[u] # "free" => tpc'[u] = tpc[u] /\ tc'[u] = tc[u]
    BY <2>1, UpdateEffect
  <2>4. \A u \in Tasks : tpc'[u] \in {"ran", "cooling"} /\ tc'[u] \in exists => ok'[u]
    BY <2>1, UpdateEffect DEF WaitInv
  <2>5. ~stopping' => \A d \in updatingSet' : \E t \in Tasks : tc'[t] = d /\ tpc'[t] \in Updating
    BY <2>2, <2>3 DEF WaitInv, Updating
  <2>6. WaiterHasUpdate'
    <3>1. UNCHANGED jpc
      BY <1>4 DEF QueueDelivers, joinVars
    <3> QED
      BY <2>2, <2>3, <3>1 DEF WaitInv, WaiterHasUpdate, Updating
  <2> QED
    BY <2>2, <2>4, <2>5, <2>6 DEF WaitInv
<1>5. ASSUME NEW j \in Joins, joinCentroid(j) PROVE WaitInv'
  BY <1>5, <1>0 DEF joinCentroid, WaitInv, WaiterHasUpdate, Updating,
         CallbackInv, NoDoubleAnswer, TypeOK, taskVars, joinVars, dataVars
<1>6. ASSUME NEW j \in Joins, onUpdateSpecificOnce(j) PROVE WaitInv'
  BY <1>6, <1>0 DEF onUpdateSpecificOnce, WaitInv, WaiterHasUpdate, Updating,
         CallbackInv, NoDoubleAnswer, TypeOK, taskVars, joinVars, dataVars
<1>7. ASSUME NEW j \in Joins, joinUpdate(j) PROVE WaitInv'
  <2>1. update(jc[j]) /\ jc[j] \in Centroids
    BY <1>7 DEF joinUpdate, TypeOK
  <2>2. UNCHANGED <<stopping, updatingSet, callbacks, exists, jc>>
    BY <1>7 DEF joinUpdate, dataVars, joinVars, Queue!DeliverOwed, Queue!Deliver
  <2>3. \A u \in Tasks : tpc[u] # "free" => tpc'[u] = tpc[u] /\ tc'[u] = tc[u]
    BY <2>1, UpdateEffect
  <2>4. \A u \in Tasks : tpc'[u] \in {"ran", "cooling"} /\ tc'[u] \in exists => ok'[u]
    BY <2>1, UpdateEffect DEF WaitInv
  <2>5. ~stopping' => \A d \in updatingSet' : \E t \in Tasks : tc'[t] = d /\ tpc'[t] \in Updating
    BY <2>2, <2>3 DEF WaitInv, Updating
  <2>6. WaiterHasUpdate'
    <3>1. \A k \in Joins : k # j => jpc'[k] = jpc[k]
      BY <1>7 DEF joinUpdate, TypeOK
    <3>2. ~stopping => \E u \in Tasks : tpc'[u] = "queued" /\ tc'[u] = jc[j]
      BY <2>1, UpdateEffect
    <3>3. \A d \in Centroids : callbacks[d] \subseteq Joins /\ (j \in callbacks[d] => d = jc[j])
      BY DEF TypeOK, CallbackInv, NoDoubleAnswer
    <3>4. exists \subseteq Centroids
      BY DEF TypeOK
    <3> QED
      BY <2>2, <2>3, <3>1, <3>2, <3>3, <3>4 DEF WaitInv, WaiterHasUpdate, Updating
  <2> QED
    BY <2>2, <2>4, <2>5, <2>6 DEF WaitInv
<1>8. ASSUME NEW t \in Tasks, Claim(t) PROVE WaitInv'
  BY <1>8, <1>0 DEF Claim, WaitInv, WaiterHasUpdate, Updating,
         CallbackInv, NoDoubleAnswer, TypeOK, taskVars, joinVars, dataVars
<1>9. ASSUME NEW t \in Tasks, CheckStopping(t) PROVE WaitInv'
  BY <1>9, <1>0 DEF CheckStopping, WaitInv, WaiterHasUpdate, Updating,
         CallbackInv, NoDoubleAnswer, TypeOK, taskVars, joinVars, dataVars
<1>10. ASSUME NEW t \in Tasks, BeginRun(t) PROVE WaitInv'
  <2>1. /\ UNCHANGED <<stopping, updatingSet, callbacks, exists, tc, jpc>>
        /\ \A u \in Tasks : u # t => tpc'[u] = tpc[u] /\ ok'[u] = ok[u]
        /\ tpc[t] = "cleared" /\ tpc'[t] \in {"running", "ran"}
        /\ tpc'[t] = "ran" => tc[t] \notin exists
    BY <1>10 DEF BeginRun, TypeOK, taskVars, joinVars, dataVars
  <2>2. \A u \in Tasks : tpc'[u] \in {"ran", "cooling"} /\ tc[u] \in exists => ok'[u]
    BY <2>1 DEF WaitInv
  <2>3. ~stopping => \A d \in updatingSet : \E u \in Tasks : tc[u] = d /\ tpc'[u] \in Updating
    BY <2>1 DEF WaitInv, Updating
  <2>4. WaiterHasUpdate'
    BY <2>1 DEF WaitInv, WaiterHasUpdate, Updating
  <2> QED
    BY <2>1, <2>2, <2>3, <2>4 DEF WaitInv
<1>11. ASSUME NEW t \in Tasks, FinishRun(t) PROVE WaitInv'
  <2>1. /\ UNCHANGED <<stopping, updatingSet, callbacks, exists, tc, jpc>>
        /\ \A u \in Tasks : u # t => tpc'[u] = tpc[u] /\ ok'[u] = ok[u]
        /\ tpc[t] = "running" /\ tpc'[t] = "ran" /\ (tc[t] \in exists => ok'[t])
    BY <1>11 DEF FinishRun, TypeOK, taskVars, joinVars, dataVars
  <2>2. \A u \in Tasks : tpc'[u] \in {"ran", "cooling"} /\ tc[u] \in exists => ok'[u]
    BY <2>1 DEF WaitInv
  <2>3. ~stopping => \A d \in updatingSet : \E u \in Tasks : tc[u] = d /\ tpc'[u] \in Updating
    BY <2>1 DEF WaitInv, Updating
  <2>4. WaiterHasUpdate'
    BY <2>1 DEF WaitInv, WaiterHasUpdate, Updating
  <2> QED
    BY <2>1, <2>2, <2>3, <2>4 DEF WaitInv
<1>12. ASSUME NEW t \in Tasks, AfterRun(t) PROVE WaitInv'
  BY <1>12, <1>0 DEF AfterRun, WaitInv, WaiterHasUpdate, Updating,
         CallbackInv, NoDoubleAnswer, TypeOK, taskVars, joinVars, dataVars
<1>13. ASSUME NEW t \in Tasks, EraseFromUpdating(t) PROVE WaitInv'
  BY <1>13, <1>0 DEF EraseFromUpdating, WaitInv, WaiterHasUpdate, Updating,
         CallbackInv, NoDoubleAnswer, TypeOK, taskVars, joinVars, dataVars
<1>14. ASSUME NEW t \in Tasks, TakeCallbacks(t) PROVE WaitInv'
  BY <1>14, <1>0 DEF TakeCallbacks, WaitInv, WaiterHasUpdate, Updating,
         CallbackInv, NoDoubleAnswer, TypeOK, taskVars, joinVars, dataVars
<1>15. ASSUME NEW t \in Tasks, NEW j \in Joins, Answer(t, j) PROVE WaitInv'
  BY <1>15, <1>0 DEF Answer, WaitInv, WaiterHasUpdate, Updating,
         CallbackInv, NoDoubleAnswer, TypeOK, taskVars, joinVars, dataVars
<1>16. ASSUME NEW t \in Tasks, EndEcho(t) PROVE WaitInv'
  <2>1. /\ UNCHANGED <<stopping, updatingSet, callbacks, exists, tc, jpc>>
        /\ \A u \in Tasks : u # t => tpc'[u] = tpc[u] /\ ok'[u] = ok[u]
        /\ tpc[t] = "answering" /\ tpc'[t] = "finishing"
    BY <1>16 DEF EndEcho, TypeOK, taskVars, joinVars, dataVars
  <2>2. \A u \in Tasks : tpc'[u] \in {"ran", "cooling"} /\ tc[u] \in exists => ok'[u]
    BY <2>1 DEF WaitInv
  <2>3. ~stopping => \A d \in updatingSet : \E u \in Tasks : tc[u] = d /\ tpc'[u] \in Updating
    BY <2>1 DEF WaitInv, Updating
  <2>4. WaiterHasUpdate'
    BY <2>1 DEF WaitInv, WaiterHasUpdate, Updating
  <2> QED
    BY <2>1, <2>2, <2>3, <2>4 DEF WaitInv
<1>17. ASSUME NEW t \in Tasks, decrInProgress(t) PROVE WaitInv'
  BY <1>17, <1>0 DEF decrInProgress, WaitInv, WaiterHasUpdate, Updating,
         CallbackInv, NoDoubleAnswer, TypeOK, taskVars, joinVars, dataVars
<1>18. CASE stop \/ join \/ UNCHANGED vars
  BY <1>18, <1>0 DEF stop, join, vars, WaitInv, WaiterHasUpdate, Updating,
         CallbackInv, NoDoubleAnswer, TypeOK, taskVars, joinVars, dataVars
<1> QED
  BY <1>1, <1>2, <1>3, <1>4, <1>5, <1>6, <1>7, <1>8, <1>9,
     <1>10, <1>11, <1>12, <1>13, <1>14, <1>15, <1>16, <1>17, <1>18 DEF Next, OnPool, OnTimekeeper

\* While a join waits on a centroid that exists, a task that will answer it is
\* queued or under way, also when the task of its own was turned away
\* (CentroidUpdateWorker.cpp, lines 86-89).
THEOREM WaitersCovered == Spec => []WaiterHasUpdate
<1>1. Init => WaitInv /\ CallbackInv /\ LockInv
  BY DEF Init, WaitInv, WaiterHasUpdate, CallbackInv, NoDoubleAnswer,
         LockInv, OneUpdatePerCentroid, Updating
<1>2. WaitInv => WaiterHasUpdate
  BY DEF WaitInv
<1> QED
  BY <1>1, <1>2, InitType, NextType, NextLock, NextCallback, NextWait, PTL DEF Spec

=============================================================================
