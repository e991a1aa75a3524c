----------------------------- MODULE MCDebouncer -----------------------------
(* Debouncer for TLC.  Liveness is checked, so that no symmetry is used.   *)
EXTENDS Debouncer

=============================================================================
