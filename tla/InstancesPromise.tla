--------------------------- MODULE InstancesPromise ---------------------------
(* Instances keeps the promise of InstancePromise: an instance's row says     *)
(* what is wished, its container whether it runs, its directory what there is.*)
EXTENDS Instances

Wish(i) == IF row[i] # None THEN row[i].desired
           ELSE IF i \in issued THEN "gone" ELSE "none"

Promise == INSTANCE InstancePromise WITH
    wish <- [i \in Ids |-> Wish(i)],
    runs <- [i \in Ids |-> cont[i] \in Running],
    data <- [i \in Ids |-> dirs[i] # "absent"]

\* Every behaviour of the life cycle, with crashes, failing calls and races,
\* is one the owner was promised.
KeepsThePromise == Promise!Spec
=============================================================================
