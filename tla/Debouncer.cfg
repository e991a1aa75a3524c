\* Delays in the order of the production values: the callback comes inside the
\* interval, and a requeue just after its end.
CONSTANTS
    Elems = {e1}
    Writes = {w1, w2, w3}
    InitialDelay = 1
    Interval = 2
    RequeueDelay = 3
    Horizon = 3
    MaxLag = 1
SPECIFICATION FairSpec
INVARIANTS TypeOK NoLostWrite OneCallbackPerValue CounterIsExact
PROPERTIES StopLeadsToJoined Refinement
CHECK_DEADLOCK FALSE
