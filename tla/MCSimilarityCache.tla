-------------------------- MODULE MCSimilarityCache --------------------------
EXTENDS SimilarityCache
=============================================================================
