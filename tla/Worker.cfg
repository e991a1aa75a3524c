\* One centroid that may be deleted, one join and two tasks on two threads: a
\* running update and one that waits behind it or is turned away.
CONSTANTS
    Centroids = {c1}
    Deletable = {c1}
    Joins = {j1}
    Tasks = {t1, t2}
    PoolSize = 2
    MaxVersion = 1
SPECIFICATION FairSpec
INVARIANTS TypeOK OneUpdatePerCentroid NoDoubleAnswer WaiterHasUpdate JoinFreshWhenQuiet
PROPERTIES SavedNeverRegresses JoinAnswered StopLeadsToJoined
CHECK_DEADLOCK FALSE
