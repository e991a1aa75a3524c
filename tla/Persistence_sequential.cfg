\* One operation at a time, none interrupted, every operation.
CONSTANTS
    Centroids = {c1, c2}
    Docs = {d1, d2}
    Threads = {t1}
    Ops = {"saveNewDocument", "deleteDocument", "createNewCentroid", "deleteCentroid", "saveCentroid", "addDocumentToCentroid", "removeDocumentFromCentroid", "setCentroidMetadata", "deleteOldUnusedDocuments"}
    Crashes = FALSE
SYMMETRY Symmetry
SPECIFICATION Spec
INVARIANTS TypeOK LinksAgree LinkedExist
