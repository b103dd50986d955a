-------------------------- MODULE MCSnapshotTargets --------------------------
(* A shared drive and a personal one, two calls at a time.                 *)
EXTENDS SnapshotTargets, TLC

Alike == Permutations(Caller)

=============================================================================
