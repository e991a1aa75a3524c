-------------------------- MODULE MCSyncPersistence --------------------------
(* SyncPersistence for TLC: ids and threads are interchangeable.           *)
EXTENDS SyncPersistence, TLC

Symmetry == Permutations(Centroids) \cup Permutations(Docs) \cup Permutations(Threads)

=============================================================================
