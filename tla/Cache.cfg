CONSTANTS
    Centroids = {c1}
    Reloads = {r1, r2}
    Handles = {h1, h2}
    MaxVersion = 2
SPECIFICATION Spec
INVARIANTS TypeOK CountsExact CacheCurrent
PROPERTIES NeverOlder UpdatesReachCache
CHECK_DEADLOCK FALSE
