\* Up to two parts of the list and two batches in each, and one change.
CONSTANTS
    N = 4
    idListBatchSize = 3
    documentBatchSize = 2
    MaxChanges = 1
SPECIFICATION FairSpec
INVARIANTS TypeOK SmallCentroidExact NoneLeftOut OnlyMembersCounted
PROPERTY RunEnds
CHECK_DEADLOCK FALSE
