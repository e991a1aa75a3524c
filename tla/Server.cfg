CONSTANTS
    c1 = c1
    d1 = d1
    Docs = {d1}
    Centroids = {c1}
    Calls <- EveryCall
    MaxRequests = 2
    MaxItems = 2
    MaxTime = 3
SPECIFICATION Spec
INVARIANTS TypeOK OlderChangesAreIn ResponsesAccount
PROPERTIES RequestsAnswered ChangesReachContents
CHECK_DEADLOCK FALSE
