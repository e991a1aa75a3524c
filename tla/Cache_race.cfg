CONSTANTS
    Centroids = {c1}
    Reloads = {r1, r2}
    Handles = {h1, h2}
    MaxVersion = 2
SPECIFICATION Spec
INVARIANT GrabbedStaysUsable
CHECK_DEADLOCK FALSE
