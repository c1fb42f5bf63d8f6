--------------------------- MODULE InstancePromise ---------------------------
(***************************************************************************)
(* What an owner is promised about instances, whatever the manager does to  *)
(* keep it: a decision stands until the next one, a deletion is final, the  *)
(* browser runs only while it is meant to, and the data goes only with the  *)
(* instance, after the browser. Instances implements this.                  *)
(***************************************************************************)
CONSTANT Ids

VARIABLES
    wish,   \* what is decided: "none" yet, ..., "deleted", at last "gone"
    runs,   \* the browser runs
    data    \* there is something on disk

vars == <<wish, runs, data>>

Kept == {"running", "stopped", "legacy_expired"}

Init ==
    /\ wish \in [Ids -> Kept \cup {"none"}]
    /\ runs \in [Ids -> BOOLEAN]
    /\ data \in [Ids -> BOOLEAN]
    /\ \A i \in Ids : runs[i] \/ data[i] => wish[i] # "none"

Same(x, i) == x'[i] = x[i]

Create(i) == wish[i] = "none" /\ wish'[i] = "running" /\ Same(runs, i) /\ Same(data, i)

Decide(i) ==
    /\ wish[i] \in Kept /\ wish'[i] \in {"running", "stopped", "deleted"}
    /\ Same(runs, i) /\ Same(data, i)

\* The record goes last.
Forget(i) ==
    /\ wish[i] = "deleted" /\ ~runs[i] /\ ~data[i]
    /\ wish'[i] = "gone" /\ Same(runs, i) /\ Same(data, i)

Run(i) ==
    /\ wish[i] = "running" /\ ~runs[i] /\ runs'[i]
    /\ Same(wish, i) /\ Same(data, i)

Halt(i) == runs[i] /\ ~runs'[i] /\ Same(wish, i) /\ Same(data, i)

Provide(i) ==
    /\ wish[i] \in Kept /\ ~data[i] /\ data'[i]
    /\ Same(wish, i) /\ Same(runs, i)

Erase(i) ==
    /\ wish[i] = "deleted" /\ ~runs[i] /\ data[i] /\ ~data'[i]
    /\ Same(wish, i) /\ Same(runs, i)

Stay(i) == Same(wish, i) /\ Same(runs, i) /\ Same(data, i)

\* Instances are independent of each other.
Next ==
    \A i \in Ids :
        \/ Create(i) \/ Decide(i) \/ Forget(i) \/ Run(i) \/ Halt(i)
        \/ Provide(i) \/ Erase(i) \/ Stay(i)

Spec == Init /\ [][Next]_vars
=============================================================================
