-------------------------- MODULE InstancesInvariant --------------------------
(* Why the life cycle of Instances is safe: what a handler knows at each of   *)
(* its steps. The conjunction is inductive; InstancesProofs proves it for     *)
(* every number of users, instances and goroutines.                           *)
EXTENDS Instances

Exists(i) == row[i] # None

\* A handler knows whose lock it takes, and takes an instance for the owner it
\* has had since the identifier was issued.
Knows(j) ==
    /\ j.user \in Users
    /\ j.op \in EntrySteps
    /\ \/ j.id = None /\ j.op \in {"create", "deleteUser"}
       \/ j.id \in issued /\ (Exists(j.id) => row[j.id].owner = j.user)

\* Between lockUser and unlock the handler, and no other, holds the lock.
HoldsItsLock(w) ==
    /\ pc[w] = "idle" => job[w] = NoJob
    /\ pc[w] # "idle" => Knows(job[w])
    /\ pc[w] \in LockedSteps => lock[job[w].user] = w
    /\ pc[w] \in EntrySteps => pc[w] = job[w].op
    /\ pc[w] = "nextInstance" => job[w].op = "deleteUser"

\* The copy of the row read under the lock is the row.
OwnsItsRow(w) ==
    pc[w] \in RowSteps =>
        /\ job[w].id \in issued
        /\ Exists(job[w].id)
        /\ sess[w] # None
        /\ row[job[w].id].desired = sess[w].desired

\* The list DeleteUser works through names rows of that user, and each once.
OwnsItsList(w) ==
    todo[w] # {} =>
        /\ job[w].op = "deleteUser"
        /\ pc[w] \in {"nextInstance"} \cup DeleteSteps
        /\ \A i \in todo[w] : /\ i \in issued /\ Exists(i)
                              /\ row[i].owner = job[w].user
                              /\ pc[w] # "nextInstance" => i # job[w].id

\* What must have happened before a handler with job j, whose copy of the row
\* says d is desired, takes this step.
Reached(step, j, d) ==
    /\ step = "mkdirs" => dirs[j.id] = "absent"
    /\ step \in {"delNetwork", "delDirs", "delRow"} => cont[j.id] = "none"
    /\ step = "delRow" => dirs[j.id] = "absent"
    /\ step \in DeleteSteps \ {"delMark"} => d = "deleted"
    /\ step \in StartSteps \ {"mark"} => d = "running"
    /\ step \in StopSteps => d = "stopped"
    /\ step \in RepairSteps \cup {"mark", "mkdirs"} => d # "deleted"
    /\ step \in {"recHealthy", "recReset", "recExhausted", "recStop"} => d = "running"
    /\ step = "mark" /\ j.op # "start" => d = "running"

HasCome(w) == Reached(pc[w], job[w], sess[w].desired)

ThreadInv(w) == HoldsItsLock(w) /\ OwnsItsRow(w) /\ OwnsItsList(w) /\ HasCome(w)

\* An identifier is issued before anything carries it.
Issued == \A i \in Ids : Exists(i) => i \in issued

\* A creation task remembers the instance it was spawned for.
TasksKnow == \A t \in tasks : Knows(t)

\* What every handler of service.go and reaper.go relies on between two of its
\* calls, whoever else runs in between: it alone holds the user's lock, its copy
\* of the row still says what the row says, the instances it is to delete are
\* there, what it found gone is still gone, and nothing is orphaned.
Inductive ==
    /\ TypeOK
    /\ Issued
    /\ TasksKnow
    /\ NoOrphanResources
    /\ \A w \in Threads : ThreadInv(w)

-----------------------------------------------------------------------------
(* On top of Inductive: why rows are right and containers only one's own.     *)

\* What the status says is what the instance is meant to be.
Agree(status, desired) ==
    /\ status \in {"creating", "starting", "running"} => desired = "running"
    /\ status \in {"stopping", "stopped"} => desired = "stopped"
    /\ status = "deleting" => desired = "deleted"

\* Steps of a reconciliation that judges by its copy of the row,
Judging == {"recIsolate", "recDirs", "recSettle"}

\* steps on a container an inspection found to be this deployment's,
Verified == Judging \cup {"isolate", "restop", "boot", "stopIsolate", "stopStop",
                          "delStop", "delRemove", "recExhausted", "recStop"}

\* and steps to the start that an automatic attempt was counted for.
Retrying == {"recStop", "mark", "inspect", "isolate", "restop", "checkDirs", "network",
             "build", "boot"}

\* A migrated row still to be settled shows no status but its old one or a
\* failure; nothing else is judged by the copy's status.
JudgesByItsRow(w) ==
    pc[w] \in Judging =>
        /\ sess[w].desired = "legacy_expired" => Agree(sess[w].status, "legacy_expired")
        /\ sess[w].attempts = row[job[w].id].attempts

HasVerified(w) ==
    pc[w] \in Verified /\ cont[job[w].id] # "none" => madeBy[job[w].id] = deployment

HasCounted(w) ==
    pc[w] \in Retrying /\ job[w].op = "reconcile"
        => auto[job[w].id] < row[job[w].id].attempts

Careful(w) == JudgesByItsRow(w) /\ HasVerified(w) /\ HasCounted(w)

RowInOrder(i) ==
    Exists(i) => /\ Agree(row[i].status, row[i].desired)
                 /\ row[i].attempts <= MaxRecoveryAttempts
                 /\ auto[i] <= row[i].attempts

\* Rows are in order, and a handler has verified the container it is about to
\* touch and counted the attempt it is about to make.
InOrder == /\ \A i \in Ids : RowInOrder(i)
           /\ \A w \in Threads : Careful(w)

-----------------------------------------------------------------------------
(* Where an instance's things are: its directories, container and network.    *)

\* Directories a creation completed and no deletion has touched since.
Whole == Present \cup {"lost"}

\* An instance's container has its directories, does not run once the row says
\* stopped, and its network has its row, as long as deploymentID is always the
\* same.
HasItsThings(i) ==
    /\ cont[i] # "none" => dirs[i] \in Whole
    /\ Exists(i) /\ row[i].status = "stopped" => cont[i] \notin Running
    /\ (\A d, e \in Deployments : d = e) /\ net[i] # {} => Exists(i)

\* What a handler has made sure of: the directories for an upload or a new
\* container, that the container is down before it says so, that the row says
\* "starting" before the container starts, and that the network is gone.
HasMadeSure(w) ==
    LET i == job[w].id IN
    /\ pc[w] \in {"network", "build", "uploading"} => dirs[i] \in Whole
    /\ \/ pc[w] = "stopDone"
       \/ pc[w] = "stopIsolate" /\ seen[w] \notin Running
       => cont[i] \notin Running
    /\ pc[w] \in StartSteps \ {"mark"} => row[i].status = "starting"
    /\ pc[w] \in {"delDirs", "delRow"} => deployment \notin net[i]

\* Every instance has its things, and a handler has made sure of what its step
\* takes for granted.
Tidy == /\ \A i \in Ids : HasItsThings(i)
        /\ \A w \in Threads : HasMadeSure(w)
=============================================================================
