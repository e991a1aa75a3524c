------------------------------ MODULE Debouncer ------------------------------
(***************************************************************************)
(* The Debouncer of src/src/util/Debouncer.h: bursts of write(t) are       *)
(* turned into one call of onValueCb_(t) shortly after the first write     *)
(* and one more after the interval, if anything was written in between.    *)
(*                                                                         *)
(* Every call of write() is an element w of Writes; calls are made by      *)
(* different threads and interleave between any two of their accesses to   *)
(* shared state.  The continuations of folly's delayed() futures run one   *)
(* after the other on the timekeeper thread, earliest deadline first, and  *)
(* possibly late.  A thread arms the two timers of lines 70-80 at one      *)
(* instant: it is not suspended for InitialDelay or longer between them.   *)
(***************************************************************************)
EXTENDS Integers, FiniteSets

CONSTANTS Elems,          \* the values of type T that are written
          Writes,         \* the calls of write()
          InitialDelay,   \* initialDelay_
          Interval,       \* interval_
          RequeueDelay,   \* requeueDelay_
          Horizon,        \* bound: calls of write() start no later than this
          MaxLag          \* bound: how late the timekeeper thread may run

\* The constructor (lines 32-40) sets RequeueDelay to Interval + 10 ms; the
\* CentroidUpdateWorker passes 5000 ms and 30000 ms.
ASSUME DelaysAssumption ==
    /\ InitialDelay \in Nat /\ Interval \in Nat /\ RequeueDelay \in Nat
    /\ InitialDelay < Interval
    /\ Interval < RequeueDelay

ASSUME BoundsAssumption == Horizon \in Nat /\ MaxLag \in Nat

VARIABLES now,          \* the clock of the timekeeper (external)
          timers,       \* delayed() futures that have not run yet (external)
          stopping,     \* stopping_
          inFlight,     \* inFlight_
          numInFlight,  \* numInFlight_
          pc,           \* how far each call of write() has come
          elem,         \* the argument of each call of write()
          served,       \* calls after which onValueCb_ has run for their value
          joined        \* join() has returned

vars == <<now, timers, stopping, inFlight, numInFlight, pc, elem, served, joined>>

PCs == {"idle", "checked", "inserted", "blocked", "requeued",
        "recheck", "rechecked", "reinserted", "done"}

Timers == [kind : {"value", "interval", "requeue"}, w : Writes, due : Nat]

TypeOK ==
    /\ now \in Nat
    /\ timers \subseteq Timers
    /\ stopping \in BOOLEAN
    /\ inFlight \subseteq Elems
    /\ numInFlight \in Int
    /\ pc \in [Writes -> PCs]
    /\ elem \in [Writes -> Elems]
    /\ served \subseteq Writes
    /\ joined \in BOOLEAN

Init ==
    /\ now = 0
    /\ timers = {}
    /\ stopping = FALSE
    /\ inFlight = {}
    /\ numInFlight = 0
    /\ pc = [w \in Writes |-> "idle"]
    /\ elem \in [Writes -> Elems]
    /\ served = {}
    /\ joined = FALSE

Goto(w, label) == pc' = [pc EXCEPT ![w] = label]

(***************************************************************************)
(* write(t) and writeIfNotInFlight(t), as run by the calling thread        *)
(***************************************************************************)

\* The call and its read of stopping_ (line 56).
Write(w) ==
    /\ pc[w] = "idle"
    /\ now <= Horizon
    /\ Goto(w, IF stopping THEN "blocked" ELSE "checked")
    /\ UNCHANGED <<now, timers, stopping, inFlight, numInFlight, elem, served, joined>>

\* Mutant: the value is inserted without the test, as if the lock were released
\* between the two.
InsertUntested(w, wrote, refused) ==
    /\ inFlight' = inFlight \cup {elem[w]}
    /\ numInFlight' = numInFlight + 1
    /\ Goto(w, wrote)
    /\ UNCHANGED <<now, timers, stopping, elem, served, joined>>

\* Test and insert under the lock of inFlight_.
InsertIfAbsent(w, wrote, refused) ==
    /\ IF elem[w] \notin inFlight
         THEN /\ inFlight' = inFlight \cup {elem[w]}
              /\ numInFlight' = numInFlight + 1
              /\ Goto(w, wrote)
         ELSE /\ Goto(w, refused)
              /\ UNCHANGED <<inFlight, numInFlight>>
    /\ UNCHANGED <<now, timers, stopping, elem, served, joined>>

TryInsert(w) == pc[w] = "checked" /\ InsertIfAbsent(w, "inserted", "blocked")

\* Mutant: the delay is subtracted.
ArmInThePast(w) ==
    /\ pc[w] \in {"inserted", "reinserted"}
    /\ timers' = timers \cup {[kind |-> "value", w |-> w, due |-> now - InitialDelay]}
    /\ Goto(w, "done")
    /\ UNCHANGED <<now, stopping, inFlight, numInFlight, elem, served, joined>>

\* The delayed callback and the delayed removal from inFlight_.
Arm(w) ==
    /\ pc[w] \in {"inserted", "reinserted"}
    /\ timers' = timers \cup
         {[kind |-> "value", w |-> w, due |-> now + InitialDelay],
          [kind |-> "interval", w |-> w, due |-> now + Interval]}
    /\ Goto(w, "done")
    /\ UNCHANGED <<now, stopping, inFlight, numInFlight, elem, served, joined>>

\* Mutant: a write that was refused is not requeued.
ForgetRefused(w) ==
    /\ pc[w] = "blocked"
    /\ Goto(w, "done")
    /\ UNCHANGED <<now, timers, stopping, inFlight, numInFlight, elem, served, joined>>

\* A write that was refused is tried once more after RequeueDelay.
ArmRequeue(w) ==
    /\ pc[w] = "blocked"
    /\ timers' = timers \cup {[kind |-> "requeue", w |-> w, due |-> now + RequeueDelay]}
    /\ Goto(w, "requeued")
    /\ UNCHANGED <<now, stopping, inFlight, numInFlight, elem, served, joined>>

(***************************************************************************)
(* The timekeeper thread                                                   *)
(***************************************************************************)
TimekeeperBusy == \E w \in Writes : pc[w] \in {"recheck", "rechecked", "reinserted"}

\* tm is the next continuation that the timekeeper thread runs.
Due(tm) ==
    /\ tm \in timers
    /\ tm.due <= now
    /\ \A other \in timers : tm.due <= other.due
    /\ ~TimekeeperBusy

\* onValueCb_(elem), unless stopping_ is set.
FireValue(tm) ==
    /\ Due(tm) /\ tm.kind = "value"
    /\ timers' = timers \ {tm}
    /\ served' = IF stopping THEN served
                 ELSE served \cup {w \in Writes : pc[w] # "idle" /\ elem[w] = elem[tm.w]}
    /\ UNCHANGED <<now, stopping, inFlight, numInFlight, pc, elem, joined>>

\* Mutant: the counter is decremented whether or not the value was in flight.
removeUncounted(e) ==
    /\ inFlight' = inFlight \ {e}
    /\ numInFlight' = numInFlight - 1

removeDebounced(e) ==
    /\ inFlight' = inFlight \ {e}
    /\ numInFlight' = IF e \in inFlight THEN numInFlight - 1 ELSE numInFlight

FireInterval(tm) ==
    /\ Due(tm) /\ tm.kind = "interval"
    /\ timers' = timers \ {tm}
    /\ removeDebounced(elem[tm.w])
    /\ UNCHANGED <<now, stopping, pc, elem, served, joined>>

FireRequeue(tm) ==
    /\ Due(tm) /\ tm.kind = "requeue"
    /\ timers' = timers \ {tm}
    /\ IF stopping
         THEN removeDebounced(elem[tm.w]) /\ Goto(tm.w, "done")
         ELSE Goto(tm.w, "recheck") /\ UNCHANGED <<inFlight, numInFlight>>
    /\ UNCHANGED <<now, stopping, elem, served, joined>>

\* writeIfNotInFlight reads stopping_ a second time.
RequeueCheck(w) ==
    /\ pc[w] = "recheck"
    /\ Goto(w, IF stopping THEN "done" ELSE "rechecked")
    /\ UNCHANGED <<now, timers, stopping, inFlight, numInFlight, elem, served, joined>>

\* A requeued write that finds its value in flight again is dropped.
RequeueInsert(w) == pc[w] = "rechecked" /\ InsertIfAbsent(w, "reinserted", "done")

(***************************************************************************)
(* stop(), join() and the passing of time                                  *)
(***************************************************************************)
Stop ==
    /\ ~stopping
    /\ stopping' = TRUE
    /\ UNCHANGED <<now, timers, inFlight, numInFlight, pc, elem, served, joined>>

\* The owner joins after it has stopped the queue, and polls numInFlight_.
Join ==
    /\ stopping /\ ~joined
    /\ numInFlight = 0
    /\ joined' = TRUE
    /\ UNCHANGED <<now, timers, stopping, inFlight, numInFlight, pc, elem, served>>

Tick ==
    /\ timers # {} \/ now < Horizon
    /\ \A tm \in timers : now < tm.due + MaxLag
    /\ now' = now + 1
    /\ UNCHANGED <<timers, stopping, inFlight, numInFlight, pc, elem, served, joined>>

Fire(tm) == FireValue(tm) \/ FireInterval(tm) \/ FireRequeue(tm)

Step(w) == TryInsert(w) \/ Arm(w) \/ ArmRequeue(w) \/ RequeueCheck(w) \/ RequeueInsert(w)

Next ==
    \/ \E w \in Writes : Write(w) \/ Step(w)
    \/ \E tm \in timers : Fire(tm)
    \/ Stop
    \/ Join
    \/ Tick

Spec == Init /\ [][Next]_vars

\* Threads that have entered write() go on, the timekeeper runs what is due,
\* the clock advances, and join() polls until it is let go.  Nothing obliges
\* a client to write or the owner to stop.
FairSpec ==
    /\ Spec
    /\ \A w \in Writes : WF_vars(Step(w))
    /\ WF_vars(\E tm \in timers : Fire(tm))
    /\ WF_vars(Tick)
    /\ WF_vars(Join)

(***************************************************************************)
(* Properties                                                              *)
(***************************************************************************)

\* onValueCb_(e) is armed, or a thread is about to arm it.
CallbackComing(e) ==
    \/ \E tm \in timers : tm.kind = "value" /\ elem[tm.w] = e
    \/ \E w \in Writes : pc[w] \in {"inserted", "reinserted"} /\ elem[w] = e

\* No write is lost: when a call of write() and its requeueing are over, the
\* callback for its value has run since the call or is still to come.  The
\* requeued write that Debouncer.h drops silently (line 95) is what could
\* break this.
NoLostWrite ==
    ~stopping => \A w \in Writes :
        pc[w] = "done" /\ w \notin served => CallbackComing(elem[w])

\* Bursts are merged: however many threads write one value, at most one
\* callback for it is armed at a time.
OneCallbackPerValue ==
    ~stopping => \A t1, t2 \in timers :
        t1.kind = "value" /\ t2.kind = "value" /\ elem[t1.w] = elem[t2.w] => t1 = t2

\* What join() polls is the number of values in flight, so that it cannot
\* return early or wait for ever on a miscount.
CounterIsExact == numInFlight = Cardinality(inFlight)

\* join() returns after stop(): every value leaves inFlight_, whichever of
\* the interval and requeue timers removes it.
StopLeadsToJoined == stopping ~> joined

(***************************************************************************)
(* The Debouncer implements the TriggerQueue.                              *)
(***************************************************************************)
Owed == {elem[w] : w \in {x \in Writes : pc[x] # "idle" /\ x \notin served}}

Queue == INSTANCE TriggerQueue WITH owed <- Owed, halted <- stopping

\* Every behaviour of the Debouncer is one of the TriggerQueue: a written
\* value stays owed until onValueCb_ runs for it, and it does run.
Refinement == Queue!FairSpec

=============================================================================
