CONSTANTS
    c1 = c1
    d1 = d1
    Docs = {d1}
    Centroids = {c1}
    Calls <- StampCalls
    MaxRequests = 2
    MaxItems = 1
    MaxTime = 2
SPECIFICATION Spec
PROPERTIES BurstReachesContents
CHECK_DEADLOCK FALSE
