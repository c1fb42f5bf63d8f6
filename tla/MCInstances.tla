----------------------------- MODULE MCInstances -----------------------------
(* Small instances of Instances for TLC: how often each kind of trouble may  *)
(* happen in one behaviour.                                                  *)
EXTENDS InstancesInvariant, InstancesPromise, TLC

Bound(fault, exit, loss, crash, requests, admin) ==
    [fault |-> fault, exit |-> exit, loss |-> loss, crash |-> crash,
     request |-> requests, admin |-> admin]

CrashBound  == Bound(1, 0, 0, 1, 2, 0)
OutageBound == Bound(2, 1, 1, 0, 1, 0)
RaceBound   == Bound(0, 0, 0, 0, 3, 1)
LiveBound   == Bound(1, 0, 0, 1, 1, 0)
StuckBound  == Bound(1, 2, 0, 0, 0, 0)
DataBound   == Bound(0, 1, 0, 0, 1, 0)

Symmetry == Permutations(Workers) \cup Permutations(Ids)
=============================================================================
