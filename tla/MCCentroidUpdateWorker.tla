----------------------- MODULE MCCentroidUpdateWorker -----------------------
(* CentroidUpdateWorker for TLC: the sets of ids are given in the cfg.     *)
EXTENDS CentroidUpdateWorker

=============================================================================
