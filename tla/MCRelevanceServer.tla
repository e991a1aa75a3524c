-------------------------- MODULE MCRelevanceServer --------------------------
EXTENDS RelevanceServer

CONSTANTS c1, d1

Request(op, ids, ignore) == [op |-> op, of |-> c1, ids |-> ids, ignore |-> ignore]

\* Every operation, with and without the flags; a creation that names its centroid twice, so that
\* one of its items may store an empty centroid over one that has documents by then.
EveryCall ==
    { Request("createDocument", <<d1>>, {}),
      Request("deleteDocument", <<d1>>, {"EDocumentDoesNotExist"}),
      Request("createCentroid", <<c1, c1>>, {}),
      Request("deleteCentroid", <<c1>>, {"ECentroidDoesNotExist"}),
      Request("add", <<d1>>, {"EDocumentDoesNotExist"}),
      Request("remove", <<d1>>, {"EDocumentNotInCentroid"}),
      Request("join", <<c1>>, {}) }

\* What puts timestamps: the changes of a centroid's documents, and the updates they trigger.
StampCalls == { Request("add", <<d1>>, {}), Request("remove", <<d1>>, {}) }
=============================================================================
