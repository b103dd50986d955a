-------------------------- MODULE MCSnapshotSettings --------------------------
(* Two callers and two targets, one of each type; the shared drive has two *)
(* write paths.                                                            *)
EXTENDS SnapshotSettings, TLC

CONSTANTS c1, c2, c3, shared, mydrive

MCWeekday == {"1", "3"}
MCMonthday == {"1"}

\* A weekly schedule, as the NAS holds it.
Weekly ==
  [enabled |-> "yes", limit |-> 1, enable |-> "yes", hourly |-> TRUE,
   weekdays |-> {"3"}, monthdays |-> {},
   time |-> [hour |-> 0, minute |-> 0, suffix |-> ""]]

MCInitial == {Weekly}
MCUpdates == {TurnOff, SetLimit(2)}
MCTypeOf == shared :> "shared" @@ mydrive :> "mydrive"
MCRoutes == shared :> 2 @@ mydrive :> 1
MCLiveUpdates == {TurnOff}
MCLiveTypeOf == shared :> "shared"
MCLiveRoutes == shared :> 2
Callers == Permutations({c1, c2})
=============================================================================
