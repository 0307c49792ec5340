---------------------------- MODULE MCSyncCores ----------------------------
(***************************************************************************)
(* Three runs, so that one can meet what two others left: both pairs of    *)
(* ports taken, a mutex abandoned, a file of a dead process.               *)
(***************************************************************************)
EXTENDS SyncCores, TLC

\* The runs are alike.
AnyRuns == Permutations(Runs)
=============================================================================
