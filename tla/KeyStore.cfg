CONSTANTS
    DocIds <- MCDocIds
    CentroidIds <- MCCentroidIds
    MaxVersion = 0
    SizeBits = 4
    Counts <- MCCounts
SPECIFICATION Spec
INVARIANTS ListingsAreSlices SameKeysInBoth
PROPERTY ImplementsStore
