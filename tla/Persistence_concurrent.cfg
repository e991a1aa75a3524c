\* Two threads of the pool and crashes, without removals from centroids.
CONSTANTS
    Centroids = {c1}
    Docs = {d1}
    Threads = {t1, t2}
    Ops = {"saveNewDocument", "deleteDocument", "createNewCentroid", "deleteCentroid", "saveCentroid", "addDocumentToCentroid", "deleteOldUnusedDocuments"}
    Crashes = TRUE
SYMMETRY Symmetry
SPECIFICATION Spec
INVARIANT BackLinkHasLink
