-------------------------- MODULE MCCentroidUpdater --------------------------
(* CentroidUpdater for TLC.  Documents are ordered: there is no symmetry.  *)
EXTENDS CentroidUpdater

=============================================================================
