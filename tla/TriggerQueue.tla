---------------------------- MODULE TriggerQueue ----------------------------
(***************************************************************************)
(* What the Debouncer (src/src/util/Debouncer.h) promises the component    *)
(* that owns it: a value that has been written is delivered to onValueCb_  *)
(* at least once after the write, until the queue is stopped.  Writes of   *)
(* a value that is still owed are merged; a delivery may also come when    *)
(* nothing is owed, because a requeued write is delivered again.           *)
(***************************************************************************)
CONSTANT Elems      \* values that are written (ids of centroids)

VARIABLES owed,     \* values written and not delivered since
          halted    \* stop() has been called

tqVars == <<owed, halted>>

TypeOK ==
    /\ owed \subseteq Elems
    /\ halted \in BOOLEAN

Init ==
    /\ owed = {}
    /\ halted = FALSE

\* A write owes a delivery of e.
Trigger(e) ==
    /\ owed' = owed \cup {e}
    /\ UNCHANGED halted

\* One call of onValueCb_ settles every write of e made before it.
Deliver(e) ==
    /\ ~halted
    /\ owed' = owed \ {e}
    /\ UNCHANGED halted

\* From here on nothing is delivered.
Stop ==
    /\ halted' = TRUE
    /\ UNCHANGED owed

Next ==
    \/ \E e \in Elems : Trigger(e) \/ Deliver(e)
    \/ Stop

Spec == Init /\ [][Next]_tqVars

DeliverOwed(e) == e \in owed /\ Deliver(e)

FairSpec == Spec /\ \A e \in Elems : WF_tqVars(DeliverOwed(e))

=============================================================================
