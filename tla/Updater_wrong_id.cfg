\* One document more than a batch holds; nobody interferes.
CONSTANTS
    N = 3
    idListBatchSize = 3
    documentBatchSize = 2
    MaxChanges = 0
SPECIFICATION FairSpec
PROPERTY OnlyMissingUnlinked
CHECK_DEADLOCK FALSE
