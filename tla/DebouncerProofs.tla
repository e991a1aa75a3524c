--------------------------- MODULE DebouncerProofs ---------------------------
(***************************************************************************)
(* Safety of the Debouncer for every set of calls and values and every     *)
(* choice of delays with InitialDelay < Interval < RequeueDelay.           *)
(***************************************************************************)
EXTENDS Debouncer, FiniteSetTheorems, TLAPS

Arming(w) == pc[w] \in {"inserted", "reinserted"}

IntervalTimer(tm) == tm \in timers /\ tm.kind = "interval"
ValueTimer(tm) == tm \in timers /\ tm.kind = "value"

\* Which timers a call can have pending follows from how far it has come,
\* and it has at most one of each kind.
TimersFollowPC ==
    /\ \A tm \in timers :
         pc[tm.w] = IF tm.kind = "requeue" THEN "requeued" ELSE "done"
    /\ \A t1, t2 \in timers : t1.w = t2.w /\ t1.kind = t2.kind => t1 = t2

\* An interval timer is never further away than Interval.
IntervalBound == \A tm \in timers : tm.kind = "interval" => tm.due <= now + Interval

\* A value is in flight because a thread is arming its timers or because
\* its interval timer is pending.
InFlightHasHolder ==
    ~stopping => \A e \in inFlight :
        \/ \E w \in Writes : Arming(w) /\ elem[w] = e
        \/ \E tm \in timers : tm.kind = "interval" /\ elem[tm.w] = e

\* A requeued write finds its value free, or in flight for a callback
\* that is later than the write.
RequeueIsEnough ==
    ~stopping =>
        /\ \A r \in timers :
             r.kind = "requeue" /\ r.w \notin served /\ elem[r.w] \in inFlight =>
                \/ CallbackComing(elem[r.w])
                \/ \E i \in timers : /\ i.kind = "interval"
                                     /\ elem[i.w] = elem[r.w]
                                     /\ i.due < r.due
        /\ \A w \in Writes :
             pc[w] \in {"recheck", "rechecked"} /\ w \notin served /\ elem[w] \in inFlight =>
                CallbackComing(elem[w])

LostInv ==
    /\ TypeOK
    /\ TimersFollowPC
    /\ IntervalBound
    /\ InFlightHasHolder
    /\ RequeueIsEnough
    /\ NoLostWrite

-----------------------------------------------------------------------------
(* Type correctness                                                        *)

\* The Debouncer starts well typed.
LEMMA InitType == Init => TypeOK
<1> SUFFICES ASSUME Init PROVE TypeOK
  OBVIOUS
<1>1. pc \in [Writes -> PCs]
  BY DEF Init, PCs
<1>2. stopping \in BOOLEAN /\ joined \in BOOLEAN /\ elem \in [Writes -> Elems]
  BY Zenon DEF Init
<1>3. now \in Nat /\ numInFlight \in Int
  BY DEF Init
<1> QED
  BY <1>1, <1>2, <1>3 DEF Init, TypeOK

\* Every step keeps the Debouncer well typed.
LEMMA NextType == TypeOK /\ [Next]_vars => TypeOK'
<1> SUFFICES ASSUME TypeOK, [Next]_vars PROVE TypeOK'
  OBVIOUS
<1> USE DelaysAssumption DEF TypeOK, PCs, Timers, Goto
<1>1. ASSUME NEW w \in Writes, Write(w) PROVE TypeOK'
  BY <1>1 DEF Write
<1>2. ASSUME NEW w \in Writes, TryInsert(w) PROVE TypeOK'
  BY <1>2 DEF TryInsert, InsertIfAbsent
<1>3. ASSUME NEW w \in Writes, Arm(w) PROVE TypeOK'
  BY <1>3 DEF Arm
<1>4. ASSUME NEW w \in Writes, ArmRequeue(w) PROVE TypeOK'
  BY <1>4 DEF ArmRequeue
<1>5. ASSUME NEW w \in Writes, RequeueCheck(w) PROVE TypeOK'
  BY <1>5 DEF RequeueCheck
<1>6. ASSUME NEW w \in Writes, RequeueInsert(w) PROVE TypeOK'
  BY <1>6 DEF RequeueInsert, InsertIfAbsent
<1>7. ASSUME NEW tm \in timers, FireValue(tm) PROVE TypeOK'
  BY <1>7 DEF FireValue
<1>8. ASSUME NEW tm \in timers, FireInterval(tm) PROVE TypeOK'
  BY <1>8 DEF FireInterval, removeDebounced
<1>9. ASSUME NEW tm \in timers, FireRequeue(tm) PROVE TypeOK'
  BY <1>9 DEF FireRequeue, removeDebounced
<1>10. CASE Stop
  BY <1>10 DEF Stop
<1>11. CASE Join
  BY <1>11 DEF Join
<1>12. CASE Tick
  BY <1>12 DEF Tick
<1>13. CASE UNCHANGED vars
  BY <1>13 DEF vars
<1> QED
  BY <1>1, <1>2, <1>3, <1>4, <1>5, <1>6, <1>7, <1>8, <1>9, <1>10, <1>11, <1>12, <1>13
  DEF Next, Step, Fire

\* The Debouncer is well typed in every reachable state, with any number of
\* threads in write() (Debouncer.h, lines 46-98).
THEOREM TypeCorrect == Spec => []TypeOK
BY InitType, NextType, PTL DEF Spec

-----------------------------------------------------------------------------
(* No write is lost                                                        *)

\* Nothing is in flight and nothing has been written initially.
LEMMA InitLost == Init => LostInv
<1> SUFFICES ASSUME Init PROVE LostInv
  OBVIOUS
<1>1. TypeOK
  BY InitType
<1>2. \A w \in Writes : pc[w] = "idle"
  BY DEF Init
<1>3. timers = {} /\ inFlight = {}
  BY DEF Init
<1> QED
  BY <1>1, <1>2, <1>3
  DEF LostInv, TimersFollowPC, IntervalBound, InFlightHasHolder, RequeueIsEnough, NoLostWrite

\* Every step keeps the inductive invariant.
LEMMA NextLost == LostInv /\ [Next]_vars => LostInv'
<1> SUFFICES ASSUME LostInv, [Next]_vars PROVE LostInv'
  OBVIOUS
<1>0. TypeOK /\ TypeOK'
  BY NextType DEF LostInv
<1> USE <1>0, DelaysAssumption DEF TypeOK, Timers, Goto
<1> DEFINE Rest == /\ TimersFollowPC /\ IntervalBound
                   /\ InFlightHasHolder /\ RequeueIsEnough /\ NoLostWrite
<1>a. Rest
  BY DEF LostInv
<1> SUFFICES Rest'
  BY DEF LostInv
<1>1. ASSUME NEW w \in Writes, Write(w) PROVE Rest'
  <2> USE <1>1, <1>a DEF Write
  <2>1. TimersFollowPC'
    BY DEF TimersFollowPC, PCs
  <2>2. IntervalBound'
    BY DEF IntervalBound
  <2>3. InFlightHasHolder'
    BY DEF InFlightHasHolder, Arming
  <2>4. RequeueIsEnough'
    BY DEF RequeueIsEnough, CallbackComing
  <2>5. NoLostWrite'
    BY DEF NoLostWrite, CallbackComing
  <2> QED
    BY <2>1, <2>2, <2>3, <2>4, <2>5
<1>2. ASSUME NEW w \in Writes, TryInsert(w) PROVE Rest'
  <2> USE <1>2, <1>a DEF TryInsert, InsertIfAbsent
  <2>1. TimersFollowPC'
    BY DEF TimersFollowPC, PCs
  <2>2. IntervalBound'
    BY DEF IntervalBound
  <2>3. InFlightHasHolder'
    BY DEF InFlightHasHolder, Arming
  <2>4. RequeueIsEnough'
    BY DEF RequeueIsEnough, CallbackComing
  <2>5. NoLostWrite'
    BY DEF NoLostWrite, CallbackComing
  <2> QED
    BY <2>1, <2>2, <2>3, <2>4, <2>5
<1>3. ASSUME NEW w \in Writes, Arm(w) PROVE Rest'
  <2> DEFINE val == [kind |-> "value", w |-> w, due |-> now + InitialDelay]
             itv == [kind |-> "interval", w |-> w, due |-> now + Interval]
  <2>a. /\ timers' = timers \cup {val, itv}
        /\ pc' = [pc EXCEPT ![w] = "done"]
        /\ UNCHANGED <<now, stopping, inFlight, elem, served>>
        /\ Arming(w)
    BY <1>3 DEF Arm, Arming
  <2>b. /\ val.kind = "value" /\ val.w = w /\ itv.kind = "interval" /\ itv.w = w
        /\ itv.due = now + Interval
    OBVIOUS
  <2> HIDE DEF val, itv
  <2>c. \A e : CallbackComing(e) => CallbackComing(e)'
    BY <2>a, <2>b DEF CallbackComing, Arming
  <2>d. CallbackComing(elem[w])'
    BY <2>a, <2>b DEF CallbackComing
  <2>1. TimersFollowPC'
    BY <2>a, <2>b, <1>a DEF TimersFollowPC, PCs, Arming
  <2>2. IntervalBound'
    BY <2>a, <2>b, <1>a DEF IntervalBound
  <2>3. InFlightHasHolder'
    BY <2>a, <2>b, <1>a DEF InFlightHasHolder, Arming
  <2>4. RequeueIsEnough'
    BY <2>a, <2>b, <2>c, <1>a DEF RequeueIsEnough, Arming
  <2>5. NoLostWrite'
    BY <2>a, <2>c, <2>d, <1>a DEF NoLostWrite, Arming
  <2> QED
    BY <2>1, <2>2, <2>3, <2>4, <2>5
<1>4. ASSUME NEW w \in Writes, ArmRequeue(w) PROVE Rest'
  <2> USE <1>4, <1>a DEF ArmRequeue
  <2>1. TimersFollowPC'
    BY DEF TimersFollowPC, PCs
  <2>2. IntervalBound'
    BY DEF IntervalBound
  <2>3. InFlightHasHolder'
    BY DEF InFlightHasHolder, Arming
  <2>4. RequeueIsEnough'
    BY DEF RequeueIsEnough, CallbackComing, InFlightHasHolder, Arming, IntervalBound
  <2>5. NoLostWrite'
    BY DEF NoLostWrite, CallbackComing
  <2> QED
    BY <2>1, <2>2, <2>3, <2>4, <2>5
<1>5. ASSUME NEW w \in Writes, RequeueCheck(w) PROVE Rest'
  <2> USE <1>5, <1>a DEF RequeueCheck
  <2>1. TimersFollowPC'
    BY DEF TimersFollowPC, PCs
  <2>2. IntervalBound'
    BY DEF IntervalBound
  <2>3. InFlightHasHolder'
    BY DEF InFlightHasHolder, Arming
  <2>4. RequeueIsEnough'
    BY DEF RequeueIsEnough, CallbackComing
  <2>5. NoLostWrite'
    BY DEF NoLostWrite, CallbackComing
  <2> QED
    BY <2>1, <2>2, <2>3, <2>4, <2>5
<1>6. ASSUME NEW w \in Writes, RequeueInsert(w) PROVE Rest'
  <2> USE <1>6, <1>a DEF RequeueInsert, InsertIfAbsent
  <2>1. TimersFollowPC'
    BY DEF TimersFollowPC, PCs
  <2>2. IntervalBound'
    BY DEF IntervalBound
  <2>3. InFlightHasHolder'
    BY DEF InFlightHasHolder, Arming
  <2>4. RequeueIsEnough'
    BY DEF RequeueIsEnough, CallbackComing
  <2>5. NoLostWrite'
    BY DEF NoLostWrite, CallbackComing, RequeueIsEnough
  <2> QED
    BY <2>1, <2>2, <2>3, <2>4, <2>5
<1>7. ASSUME NEW tm \in timers, FireValue(tm) PROVE Rest'
  <2> USE <1>7, <1>a DEF FireValue
  <2>1. TimersFollowPC'
    BY DEF TimersFollowPC
  <2>2. IntervalBound'
    BY DEF IntervalBound
  <2>3. InFlightHasHolder'
    BY DEF InFlightHasHolder, Arming
  <2>4. RequeueIsEnough'
    BY DEF RequeueIsEnough, CallbackComing, TimersFollowPC
  <2>5. NoLostWrite'
    BY DEF NoLostWrite, CallbackComing
  <2> QED
    BY <2>1, <2>2, <2>3, <2>4, <2>5
<1>8. ASSUME NEW tm \in timers, FireInterval(tm) PROVE Rest'
  <2> USE <1>8, <1>a DEF FireInterval, removeDebounced
  <2>1. TimersFollowPC'
    BY DEF TimersFollowPC
  <2>2. IntervalBound'
    BY DEF IntervalBound
  <2>3. InFlightHasHolder'
    BY DEF InFlightHasHolder, Arming
  <2>4. RequeueIsEnough'
    BY DEF RequeueIsEnough, CallbackComing
  <2>5. NoLostWrite'
    BY DEF NoLostWrite, CallbackComing
  <2> QED
    BY <2>1, <2>2, <2>3, <2>4, <2>5
<1>9. ASSUME NEW tm \in timers, FireRequeue(tm) PROVE Rest'
  <2> USE <1>9, <1>a DEF FireRequeue, removeDebounced
  <2>1. TimersFollowPC'
    BY DEF TimersFollowPC, PCs
  <2>2. IntervalBound'
    BY DEF IntervalBound
  <2>3. InFlightHasHolder'
    BY DEF InFlightHasHolder, Arming, TimersFollowPC
  <2>4. RequeueIsEnough'
    <3> SUFFICES ASSUME ~stopping PROVE RequeueIsEnough'
      BY DEF RequeueIsEnough
    <3>1. \A e : CallbackComing(e) => CallbackComing(e)'
      BY DEF CallbackComing, TimersFollowPC
    <3>2. tm.w \notin served /\ elem[tm.w] \in inFlight => CallbackComing(elem[tm.w])
      BY DEF RequeueIsEnough, Due
    <3> QED
      BY <3>1, <3>2 DEF RequeueIsEnough
  <2>5. NoLostWrite'
    BY DEF NoLostWrite, CallbackComing, TimersFollowPC
  <2> QED
    BY <2>1, <2>2, <2>3, <2>4, <2>5
<1>10. CASE Stop
  BY <1>10, <1>a
  DEF Stop, TimersFollowPC, IntervalBound, InFlightHasHolder, RequeueIsEnough, NoLostWrite
<1>11. CASE Tick
  <2>1. IntervalBound'
    BY <1>11, <1>a DEF Tick, IntervalBound
  <2> QED
    BY <1>11, <1>a, <2>1
    DEF Tick, TimersFollowPC, InFlightHasHolder, RequeueIsEnough, NoLostWrite,
        CallbackComing, Arming
<1>12. CASE Join \/ UNCHANGED vars
  BY <1>12, <1>a
  DEF Join, vars, TimersFollowPC, IntervalBound, InFlightHasHolder, RequeueIsEnough,
      NoLostWrite, CallbackComing, Arming
<1> QED
  BY <1>1, <1>2, <1>3, <1>4, <1>5, <1>6, <1>7, <1>8, <1>9, <1>10, <1>11, <1>12
  DEF Next, Step, Fire

\* No call of write() is lost: the one silent drop in the code, of a requeued
\* write whose value is in flight again (Debouncer.h, line 95), is covered by
\* a callback later than the call.
THEOREM NothingLost == Spec => []NoLostWrite
<1>1. LostInv => NoLostWrite
  BY DEF LostInv
<1> QED
  BY InitLost, NextLost, <1>1, PTL DEF Spec

-----------------------------------------------------------------------------
(* Bursts are merged                                                       *)

\* A value is held in flight by one call at a time: the one that is arming
\* its timers or whose interval timer is pending.
OneHolder ==
    ~stopping =>
        /\ \A x, y \in Writes : Arming(x) /\ Arming(y) /\ elem[x] = elem[y] => x = y
        /\ \A x \in Writes, i \in timers :
             Arming(x) /\ i.kind = "interval" => elem[x] # elem[i.w]
        /\ \A i, j \in timers :
             i.kind = "interval" /\ j.kind = "interval" /\ elem[i.w] = elem[j.w] => i = j
        /\ \A x \in Writes : Arming(x) => elem[x] \in inFlight
        /\ \A i \in timers : i.kind = "interval" => elem[i.w] \in inFlight

\* A callback fires before the interval that was started with it ends.
ValueInsideInterval ==
    \A v \in timers : v.kind = "value" =>
        \E i \in timers : i.kind = "interval" /\ i.w = v.w /\ v.due < i.due

OnceInv == TypeOK /\ TimersFollowPC /\ OneHolder /\ ValueInsideInterval

\* Every step keeps one holder per value.
LEMMA NextOnce == LostInv /\ OnceInv /\ [Next]_vars => OnceInv'
<1> SUFFICES ASSUME LostInv, OnceInv, [Next]_vars PROVE OnceInv'
  OBVIOUS
<1>0. TypeOK /\ TypeOK' /\ TimersFollowPC /\ TimersFollowPC'
  BY NextLost DEF LostInv
<1>a. OneHolder /\ ValueInsideInterval
  BY DEF OnceInv
<1> SUFFICES OneHolder' /\ ValueInsideInterval'
  BY <1>0 DEF OnceInv
<1> USE <1>0, DelaysAssumption DEF TypeOK, Timers, Goto
<1>1. ASSUME NEW w \in Writes, Write(w) PROVE OneHolder' /\ ValueInsideInterval'
  BY <1>1, <1>a DEF Write, OneHolder, ValueInsideInterval, Arming
<1>2. ASSUME NEW w \in Writes, TryInsert(w) PROVE OneHolder' /\ ValueInsideInterval'
  BY <1>2, <1>a DEF TryInsert, InsertIfAbsent, OneHolder, ValueInsideInterval, Arming
<1>3. ASSUME NEW w \in Writes, Arm(w) PROVE OneHolder' /\ ValueInsideInterval'
  <2> DEFINE val == [kind |-> "value", w |-> w, due |-> now + InitialDelay]
             itv == [kind |-> "interval", w |-> w, due |-> now + Interval]
  <2>a. /\ timers' = timers \cup {val, itv}
        /\ pc' = [pc EXCEPT ![w] = "done"]
        /\ UNCHANGED <<now, stopping, inFlight, elem, served>>
        /\ Arming(w)
    BY <1>3 DEF Arm, Arming
  <2>b. /\ val.kind = "value" /\ val.w = w /\ itv.kind = "interval" /\ itv.w = w
        /\ val.due < itv.due
    OBVIOUS
  <2> HIDE DEF val, itv
  <2>1. OneHolder'
    BY <2>a, <2>b, <1>a DEF OneHolder, Arming
  <2>2. ValueInsideInterval'
    BY <2>a, <2>b, <1>a DEF ValueInsideInterval
  <2> QED
    BY <2>1, <2>2
<1>4. ASSUME NEW w \in Writes, ArmRequeue(w) PROVE OneHolder' /\ ValueInsideInterval'
  BY <1>4, <1>a DEF ArmRequeue, OneHolder, ValueInsideInterval, Arming
<1>5. ASSUME NEW w \in Writes, RequeueCheck(w) PROVE OneHolder' /\ ValueInsideInterval'
  BY <1>5, <1>a DEF RequeueCheck, OneHolder, ValueInsideInterval, Arming
<1>6. ASSUME NEW w \in Writes, RequeueInsert(w) PROVE OneHolder' /\ ValueInsideInterval'
  BY <1>6, <1>a DEF RequeueInsert, InsertIfAbsent, OneHolder, ValueInsideInterval, Arming
<1>7. ASSUME NEW tm \in timers, FireValue(tm) PROVE OneHolder' /\ ValueInsideInterval'
  BY <1>7, <1>a DEF FireValue, OneHolder, ValueInsideInterval, Arming
<1>8. ASSUME NEW tm \in timers, FireInterval(tm) PROVE OneHolder' /\ ValueInsideInterval'
  <2>1. OneHolder'
    BY <1>8, <1>a DEF FireInterval, removeDebounced, OneHolder, Arming
  <2>2. \A v \in timers : v.kind = "value" => v.w # tm.w
    BY <1>8, <1>a DEF FireInterval, Due, ValueInsideInterval, TimersFollowPC
  <2> QED
    BY <1>8, <1>a, <2>1, <2>2 DEF FireInterval, ValueInsideInterval
<1>9. ASSUME NEW tm \in timers, FireRequeue(tm) PROVE OneHolder' /\ ValueInsideInterval'
  BY <1>9, <1>a DEF FireRequeue, removeDebounced, OneHolder, ValueInsideInterval, Arming
<1>10. CASE Stop \/ Join \/ Tick \/ UNCHANGED vars
  BY <1>10, <1>a DEF Stop, Join, Tick, vars, OneHolder, ValueInsideInterval, Arming
<1> QED
  BY <1>1, <1>2, <1>3, <1>4, <1>5, <1>6, <1>7, <1>8, <1>9, <1>10 DEF Next, Step, Fire

\* However many threads write one value, at most one callback for it is armed
\* at a time (the test and insert of Debouncer.h, lines 60-66, together with
\* InitialDelay < Interval).
THEOREM BurstsMerged == Spec => []OneCallbackPerValue
<1>1. Init => OnceInv
  <2> SUFFICES ASSUME Init PROVE OnceInv
    OBVIOUS
  <2>1. LostInv
    BY InitLost
  <2>2. timers = {} /\ \A w \in Writes : pc[w] = "idle"
    BY DEF Init
  <2> QED
    BY <2>1, <2>2 DEF LostInv, OnceInv, OneHolder, ValueInsideInterval, Arming
<1>2. OnceInv => OneCallbackPerValue
  <2> SUFFICES ASSUME OnceInv, ~stopping,
                      NEW t1 \in timers, NEW t2 \in timers,
                      t1.kind = "value", t2.kind = "value", elem[t1.w] = elem[t2.w]
               PROVE  t1 = t2
    BY DEF OneCallbackPerValue
  <2>1. PICK i1 \in timers : i1.kind = "interval" /\ i1.w = t1.w
    BY DEF OnceInv, ValueInsideInterval
  <2>2. PICK i2 \in timers : i2.kind = "interval" /\ i2.w = t2.w
    BY DEF OnceInv, ValueInsideInterval
  <2>3. i1 = i2
    BY <2>1, <2>2 DEF OnceInv, OneHolder
  <2> QED
    BY <2>1, <2>2, <2>3 DEF OnceInv, TimersFollowPC
<1> QED
  BY <1>1, <1>2, InitLost, NextLost, NextOnce, PTL DEF Spec

-----------------------------------------------------------------------------
(* The counter that join() polls                                           *)

CounterInv == TypeOK /\ IsFiniteSet(inFlight) /\ CounterIsExact

\* join() polls an exact count of inFlight_ (Debouncer.h, lines 46-53, 60-66
\* and 100-108).
THEOREM CounterExact == Spec => []CounterIsExact
<1>1. Init => CounterInv
  BY InitType, FS_EmptySet DEF Init, CounterInv, CounterIsExact
<1>2. CounterInv /\ [Next]_vars => CounterInv'
  <2> SUFFICES ASSUME CounterInv, [Next]_vars PROVE CounterInv'
    OBVIOUS
  <2>1. TypeOK /\ TypeOK'
    BY NextType DEF CounterInv
  <2>2. /\ IsFiniteSet(inFlight) /\ numInFlight = Cardinality(inFlight)
        /\ Cardinality(inFlight) \in Nat
    BY FS_CardinalityType DEF CounterInv, CounterIsExact
  <2>3. ASSUME NEW w \in Writes, NEW a, NEW b, InsertIfAbsent(w, a, b)
        PROVE  IsFiniteSet(inFlight)' /\ CounterIsExact'
    BY <2>2, <2>3, FS_AddElement DEF InsertIfAbsent, CounterIsExact
  <2>4. ASSUME NEW e, removeDebounced(e)
        PROVE  IsFiniteSet(inFlight)' /\ CounterIsExact'
    <3>1. CASE e \in inFlight
      BY <2>2, <2>4, <3>1, FS_RemoveElement DEF removeDebounced, CounterIsExact
    <3>2. CASE e \notin inFlight
      <4>1. inFlight \ {e} = inFlight
        BY <3>2
      <4> QED
        BY <2>2, <2>4, <3>2, <4>1 DEF removeDebounced, CounterIsExact
    <3> QED
      BY <3>1, <3>2
  <2>5. \/ \E w \in Writes, a, b \in PCs : InsertIfAbsent(w, a, b)
        \/ \E e : removeDebounced(e)
        \/ UNCHANGED <<inFlight, numInFlight>>
    BY DEF Next, Step, Fire, Write, TryInsert, Arm, ArmRequeue, RequeueCheck, RequeueInsert,
           FireValue, FireInterval, FireRequeue, Stop, Join, Tick, vars, PCs
  <2> QED
    BY <2>1, <2>2, <2>3, <2>4, <2>5 DEF CounterInv, CounterIsExact
<1>3. CounterInv => CounterIsExact
  BY DEF CounterInv
<1> QED
  BY <1>1, <1>2, <1>3, PTL DEF Spec

-----------------------------------------------------------------------------
(* The Debouncer implements the safety part of the TriggerQueue            *)

Called(w) == pc[w] # "idle"
ServedWasCalled == \A w \in served : Called(w)

\* Every step of the Debouncer is a step of the TriggerQueue or leaves what is
\* owed alone.
LEMMA StepRefines ==
    ASSUME LostInv, ServedWasCalled, [Next]_vars
    PROVE  [Queue!Next]_(Queue!tqVars) /\ ServedWasCalled'
<1>0. TypeOK /\ TypeOK'
  BY NextType DEF LostInv
<1> USE <1>0 DEF TypeOK, Timers
<1>1. ASSUME NEW w \in Writes, Write(w)
      PROVE  Queue!Trigger(elem[w]) /\ ServedWasCalled'
  <2>1. ServedWasCalled'
    BY <1>1 DEF Write, Goto, ServedWasCalled, Called
  <2>2. Owed' = Owed \cup {elem[w]}
    <3>1. w \notin served
      BY <1>1 DEF Write, ServedWasCalled, Called
    <3>2. \A x \in Writes : pc'[x] # "idle" <=> pc[x] # "idle" \/ x = w
      BY <1>1 DEF Write, Goto
    <3> QED
      BY <1>1, <3>1, <3>2 DEF Write, Owed
  <2> QED
    BY <1>1, <2>1, <2>2 DEF Write, Queue!Trigger
<1>2. ASSUME NEW tm \in timers, FireValue(tm)
      PROVE  [Queue!Deliver(elem[tm.w])]_(Queue!tqVars) /\ ServedWasCalled'
  <2>1. ServedWasCalled'
    BY <1>2 DEF FireValue, ServedWasCalled, Called
  <2>2. CASE stopping
    BY <1>2, <2>1, <2>2 DEF FireValue, Queue!tqVars, Owed
  <2>3. CASE ~stopping
    <3>1. Owed' = Owed \ {elem[tm.w]}
      BY <1>2, <2>3 DEF FireValue, Owed
    <3> QED
      BY <1>2, <2>1, <2>3, <3>1 DEF FireValue, Queue!Deliver
  <2> QED
    BY <2>2, <2>3
<1>3. CASE Stop
  BY <1>3 DEF Stop, Queue!Stop, Queue!Next, Owed, ServedWasCalled, Called
<1>4. ASSUME \/ \E w \in Writes : Step(w)
             \/ \E tm \in timers : FireInterval(tm) \/ FireRequeue(tm)
             \/ Join \/ Tick \/ UNCHANGED vars
      PROVE  UNCHANGED Queue!tqVars /\ ServedWasCalled'
  <2>1. UNCHANGED <<stopping, elem, served>>
    BY <1>4 DEF Step, TryInsert, InsertIfAbsent, Arm, ArmRequeue, RequeueCheck, RequeueInsert,
                FireInterval, FireRequeue, Join, Tick, vars
  <2>2. \A w \in Writes : Called(w)' <=> Called(w)
    BY <1>4 DEF Step, TryInsert, InsertIfAbsent, Arm, ArmRequeue, RequeueCheck, RequeueInsert,
                FireInterval, FireRequeue, Join, Tick, vars, Goto, Called, LostInv, TimersFollowPC
  <2> QED
    BY <2>1, <2>2 DEF Queue!tqVars, Owed, ServedWasCalled, Called
<1> QED
  BY <1>1, <1>2, <1>3, <1>4 DEF Next, Fire, Queue!Next

\* What is owed to the callers of write() changes only as the TriggerQueue
\* allows: a write adds to it, and only a call of onValueCb_ (Debouncer.h,
\* lines 70-76) takes a value from it.
THEOREM ImplementsQueue == Spec => Queue!Spec
<1>1. Init => Queue!Init /\ ServedWasCalled
  <2> SUFFICES ASSUME Init PROVE Queue!Init /\ ServedWasCalled
    OBVIOUS
  <2>1. \A w \in Writes : pc[w] = "idle"
    BY DEF Init
  <2> QED
    BY <2>1 DEF Init, Queue!Init, Owed, ServedWasCalled
<1> QED
  BY <1>1, StepRefines, InitLost, NextLost, PTL DEF Spec, Queue!Spec

=============================================================================
