------------------------------ MODULE Instances ------------------------------
(***************************************************************************)
(* The life cycle of browser instances: internal/session/service.go and    *)
(* reaper.go over the tables of internal/store/sessions.go, the Docker     *)
(* effects of internal/docker/client.go and the instance directories.      *)
(*                                                                         *)
(* A handler is a sequence of steps, one for each store, Docker or file    *)
(* system call, run by a thread: a request goroutine, a background         *)
(* creation task (both from Workers) or the maintenance loop (Maint).      *)
(* Handlers of one user are serialised by that user's lock; everything     *)
(* else interleaves.                                                       *)
(***************************************************************************)
EXTENDS Integers, FiniteSets

CONSTANTS
    Users,                \* ordinary accounts
    Ids,                  \* instance identifiers, never issued twice
    Keys,                 \* creation request keys
    Workers,              \* goroutines serving requests and creation tasks
    Maint,                \* the goroutine of StartMaintenance
    None,                 \* no row, no key, no holder
    Deployments,          \* values deploymentID and the host data path can take
    Quotas,               \* instance quotas an administrator may set
    MaxRecoveryAttempts,  \* maxRecoveryAttempts
    LegacyIds,            \* instances migrated from the previous schema
    Allowance             \* bounds: failing calls, container trouble, lost data,
                          \* restarts, requests, decisions of administrators

Threads == Workers \cup {Maint}

Accounts == {"active", "disabled", "deleting", "delete_failed", "absent"}
Frozen   == {"deleting", "delete_failed"}

Statuses == {"creating", "starting", "running", "stopping", "stopped",
             "deleting", "error", "unknown", "expired"}
Intents  == {"running", "stopped", "deleted", "legacy_expired"}

\* A row of the sessions table. err: last_error is not empty; wait:
\* recovery_next_at lies in the future.
Row == [owner : Users, key : Keys \cup {None}, status : Statuses,
        desired : Intents, err : BOOLEAN, attempts : Nat, wait : BOOLEAN]

\* What docker inspect says of the container named after an instance. A
\* container without a healthcheck reads as "healthy".
Running    == {"starting", "healthy", "unhealthy"}
Containers == Running \cup {"none", "exited"}

\* The persistent directories: "partial" while a creation or a removal failed
\* half-way, "lost" when they disappeared without the manager's doing, "blank"
\* when Docker then made empty ones as the sources of a container's mounts. The
\* manager cannot tell blank directories from complete ones.
Disks   == {"absent", "partial", "complete", "lost", "blank"}
Present == {"complete", "blank"}

Ops == {"none", "create", "task", "start", "stop", "delete", "upload",
        "deleteUser", "reconcile"}
Job == [op : Ops, user : Users \cup {None}, id : Ids \cup {None},
        key : Keys \cup {None}]
NoJob == [op |-> "none", user |-> None, id |-> None, key |-> None]

\* The step a handler is about to take.
StartSteps  == {"mark", "inspect", "isolate", "restop", "checkDirs", "network",
                "build", "boot", "await", "ready"}
StopSteps   == {"stopInspect", "stopIsolate", "stopStop", "stopCheck",
                "stopDone"}
DeleteSteps == {"delMark", "delInspect", "delStop", "delRemove", "delCheck",
                "delNetwork", "delDirs", "delRow"}
RepairSteps == {"recIsolate", "recDirs", "recSettle", "recHealthy", "recReset",
                "recExhausted", "recStop"}
\* Steps taken with a row in hand, read or inserted under the user's lock.
RowSteps    == {"mkdirs", "spawn", "uploading"} \cup StartSteps \cup StopSteps
                 \cup DeleteSteps \cup RepairSteps
EntrySteps  == {"create", "task", "start", "stop", "delete", "upload",
                "deleteUser", "reconcile"}
LockedSteps == EntrySteps \cup RowSteps \cup {"nextInstance"}
Steps       == {"idle", "lock"} \cup LockedSteps

\* The calls the context of a request or of the lifecycle can cancel before
\* they reach the store; the handler then returns without writing.
StoreSteps == {"create", "task", "start", "stop", "delete", "upload",
               "reconcile", "mark", "ready", "stopDone", "delMark", "delRow",
               "recHealthy", "recReset"}

Budget == [fault : Nat, exit : Nat, loss : Nat, crash : Nat, request : Nat,
           admin : Nat]

ASSUME IdentityAssumption ==
    /\ Maint \notin Workers
    /\ None \notin Users \cup Ids \cup Keys \cup Threads
    /\ None \notin Row
    /\ {"unused", "gone"} \cap Ids = {}
ASSUME ParameterAssumption ==
    /\ MaxRecoveryAttempts \in Nat
    /\ Quotas \subseteq Nat /\ Quotas # {}
    /\ LegacyIds \subseteq Ids /\ (LegacyIds = {} \/ Users # {})
    /\ Deployments # {}
    /\ Allowance \in Budget

VARIABLES
    user, quota,                            \* table users
    row, request,                           \* tables sessions, instance_requests
    cont, madeBy, net,                      \* Docker: containers and networks
    dirs,                                   \* the data directory
    lock, tasks, sweep, closing, deployment,\* the manager process
    pc, job, sess, seen, todo, failed,      \* its threads
    issued, auto, budget                    \* history and bounds

account == <<user, quota>>
docker  == <<cont, madeBy, net>>
manager == <<tasks, sweep, closing, deployment>>
thread  == <<pc, job, sess, seen, todo, failed>>
vars    == <<user, quota, row, request, cont, madeBy, net, dirs, lock, tasks,
             sweep, closing, deployment, pc, job, sess, seen, todo, failed,
             issued, auto, budget>>

Rest == [phase |-> "rest", users |-> {}, ids |-> {}]

\* What MigrateWithDefaults leaves of an instance of the previous schema: one
\* row for each desired state it derives from the old status.
LegacyRow(u) ==
    {[owner |-> u, key |-> None, status |-> past[1], desired |-> past[2],
      err |-> FALSE, attempts |-> 0, wait |-> FALSE] :
        past \in {<<"running", "running">>, <<"stopped", "stopped">>,
                  <<"expired", "legacy_expired">>}}

Init ==
    /\ user = [u \in Users |-> "active"]
    /\ quota \in [Users -> Quotas]
    /\ row \in [Ids -> (UNION {LegacyRow(u) : u \in Users}) \cup {None}]
    /\ \A i \in Ids : row[i] # None <=> i \in LegacyIds
    /\ request = [u \in Users |-> [k \in Keys |-> "unused"]]
    /\ cont \in [Ids -> {"none", "exited", "healthy"}]
    /\ \A i \in Ids : /\ i \notin LegacyIds => cont[i] = "none"
                      /\ cont[i] = "healthy" => row[i].status # "stopped"
    /\ deployment \in Deployments
    /\ madeBy = [i \in Ids |-> deployment]
    /\ net = [i \in Ids |-> {}]
    /\ dirs \in [Ids -> {"absent", "complete", "lost"}]
    /\ \A i \in Ids : dirs[i] # "absent" <=> i \in LegacyIds
    /\ lock = [u \in Users |-> None]
    /\ tasks = {} /\ sweep = Rest /\ closing = FALSE
    /\ pc = [w \in Threads |-> "idle"]
    /\ job = [w \in Threads |-> NoJob]
    /\ sess = [w \in Threads |-> None]
    /\ seen = [w \in Threads |-> "none"]
    /\ todo = [w \in Threads |-> {}]
    /\ failed = [w \in Threads |-> FALSE]
    /\ issued = LegacyIds
    /\ auto = [i \in Ids |-> 0]
    /\ budget = Allowance

-----------------------------------------------------------------------------
(* What the steps share.                                                   *)

Goto(w, step) == pc' = [pc EXCEPT ![w] = step]

Spend(kind) == /\ budget[kind] > 0
               /\ budget' = [budget EXCEPT ![kind] = @ - 1]

\* A Docker or store call fails, or its context ends. Once the manager shuts
\* down every context is cancelled, so that calls fail at no cost.
Fault == \/ closing /\ UNCHANGED budget
         \/ Spend("fault")
DiskFault == Spend("fault")
Works == UNCHANGED budget

\* The handler returns and its deferred unlock runs. A handler's user lock is
\* the only thing it leaves behind in memory.
Release(w) ==
    /\ Goto(w, "idle")
    /\ lock' = [lock EXCEPT ![job[w].user] = None]
    /\ job' = [job EXCEPT ![w] = NoJob]
    /\ sess' = [sess EXCEPT ![w] = None]
    /\ seen' = [seen EXCEPT ![w] = "none"]
    /\ todo' = [todo EXCEPT ![w] = {}]
    /\ failed' = [failed EXCEPT ![w] = FALSE]

\* The function working on one instance returns: to the loop of DeleteUser,
\* or out of the handler.
Return(w, ok) ==
    IF job[w].op = "deleteUser"
    THEN /\ Goto(w, "nextInstance")
         /\ sess' = [sess EXCEPT ![w] = None]
         /\ seen' = [seen EXCEPT ![w] = "none"]
         /\ failed' = [failed EXCEPT ![w] = @ \/ ~ok]
         /\ UNCHANGED <<lock, job, todo>>
    ELSE Release(w)

\* UpdateSessionState on the row of the handler's instance.
Write(w, status, desired, err) ==
    row' = [row EXCEPT ![job[w].id] = [@ EXCEPT !.status = status,
                                          !.desired = desired, !.err = err]]

\* UpdateSessionState, then the handler's own copy of the desired state.
Commit(w, status, desired) ==
    /\ Write(w, status, desired, FALSE)
    /\ sess' = [sess EXCEPT ![w] = [@ EXCEPT !.desired = desired]]

\* Seeded fault: a failure resets the desired state to its default.
FailForgetsIntent(w, status) == /\ Write(w, status, "running", TRUE)
                                /\ Return(w, FALSE)

\* recordFailure: the row keeps the desired state of the handler's copy.
Fail(w, status) == /\ Write(w, status, sess[w].desired, TRUE)
                   /\ Return(w, FALSE)

\* withSession and the creation task read the row once more under the lock.
Hold(w) == sess' = [sess EXCEPT ![w] = row[job[w].id]]

\* Seeded fault: ownership is inferred from the container's name.
InspectUnverified(w, absent, present) ==
    LET i == job[w].id IN
    /\ \/ Fault /\ Fail(w, "unknown")
       \/ /\ Works
          /\ Goto(w, IF cont[i] = "none" THEN absent ELSE present)
          /\ seen' = [seen EXCEPT ![w] = cont[i]]
          /\ UNCHANGED <<row, lock, job, sess, todo, failed>>
    /\ UNCHANGED <<account, request, docker, dirs, manager, issued, auto>>

\* InspectContainer, then verifyContainer when there is a container.
Inspect(w, absent, present) ==
    LET i == job[w].id IN
    /\ \/ Fault /\ Fail(w, "unknown")
       \/ /\ cont[i] # "none" /\ madeBy[i] # deployment
          /\ Works /\ Fail(w, "error")
       \/ /\ cont[i] = "none" \/ madeBy[i] = deployment
          /\ Works
          /\ Goto(w, IF cont[i] = "none" THEN absent ELSE present)
          /\ seen' = [seen EXCEPT ![w] = cont[i]]
          /\ UNCHANGED <<row, lock, job, sess, todo, failed>>
    /\ UNCHANGED <<account, request, docker, dirs, manager, issued, auto>>

\* isolateContainerNetwork: makes the instance's network if it is missing and
\* leaves the container attached to nothing else. The network's name contains
\* deploymentID: an instance has one for each deployment that served it.
Isolate(w, next) ==
    LET i == job[w].id IN
    /\ \/ /\ cont[i] # "none" /\ Works
          /\ net' = [net EXCEPT ![i] = @ \cup {deployment}]
          /\ Goto(w, next)
          /\ UNCHANGED <<row, lock, job, sess, seen, todo, failed>>
       \/ /\ Fault \/ (cont[i] = "none" /\ Works)
          /\ net' \in {net, [net EXCEPT ![i] = @ \cup {deployment}]}
          /\ Fail(w, "error")
    /\ UNCHANGED <<account, request, cont, madeBy, dirs, manager, issued, auto>>

\* StopContainer. A call that fails may have stopped the container already.
StopContainer(w, next) ==
    LET i == job[w].id
        halted == [cont EXCEPT ![i] = IF @ \in Running THEN "exited" ELSE @]
    IN
    /\ \/ /\ cont[i] # "none" /\ Works
          /\ cont' = halted
          /\ Goto(w, next)
          /\ UNCHANGED <<row, lock, job, sess, seen, todo, failed>>
       \/ /\ Fault \/ (cont[i] = "none" /\ Works)
          /\ cont' \in {cont, halted}
          /\ Fail(w, "error")
    /\ UNCHANGED <<account, request, madeBy, net, dirs, manager, issued, auto>>

-----------------------------------------------------------------------------
(* Requests arrive; handlers wait for the user's lock.                     *)

\* Everything before lockUserContext. j.user is the account whose lock the
\* handler takes: for an instance, the owner in the row read without the lock.
Submit(w, j) ==
    /\ pc[w] = "idle" /\ ~closing
    /\ Goto(w, "lock")
    /\ job' = [job EXCEPT ![w] = j]
    /\ UNCHANGED <<quota, row, request, docker, dirs, lock, tasks, closing,
                   deployment, sess, seen, todo, failed, issued, auto>>

Request(w, op, u, i, k) ==
    /\ w \in Workers
    /\ Spend("request")
    /\ Submit(w, [op |-> op, user |-> u, id |-> i, key |-> k])
    /\ UNCHANGED sweep

RequestCreate(w, u, k) ==
    Request(w, "create", u, None, k) /\ UNCHANGED user

RequestOnInstance(w, op, i) ==
    /\ op \in {"start", "stop", "delete", "upload"}
    /\ row[i] # None
    /\ Request(w, op, row[i].owner, i, None) /\ UNCHANGED user

\* MarkUserDeleting commits before the handler waits for the lock.
MarkUserDeleting(u) == /\ user[u] # "absent"
                       /\ user' = [user EXCEPT ![u] = "deleting"]

RequestDeleteUser(w, u) ==
    MarkUserDeleting(u) /\ Request(w, "deleteUser", u, None, None)

\* The goroutine CreateSessionWithOptions left behind gets to run.
RunTask(w, t) ==
    /\ w \in Workers /\ t \in tasks
    /\ pc[w] = "idle"
    /\ tasks' = tasks \ {t}
    /\ Goto(w, "lock")
    /\ job' = [job EXCEPT ![w] = t]
    /\ UNCHANGED <<account, row, request, docker, dirs, lock, sweep, closing,
                   deployment, sess, seen, todo, failed, issued, auto, budget>>

\* Seeded fault: handlers of one user are not serialised.
AcquireWithoutWaiting(w) ==
    /\ pc[w] = "lock"
    /\ lock' = [lock EXCEPT ![job[w].user] = w]
    /\ Goto(w, job[w].op)
    /\ UNCHANGED <<account, row, request, docker, dirs, manager, job, sess,
                   seen, todo, failed, issued, auto, budget>>

\* lockUserContext: TryLock until it succeeds ...
Acquire(w) ==
    /\ pc[w] = "lock"
    /\ lock[job[w].user] = None
    /\ lock' = [lock EXCEPT ![job[w].user] = w]
    /\ Goto(w, job[w].op)
    /\ UNCHANGED <<account, row, request, docker, dirs, manager, job, sess,
                   seen, todo, failed, issued, auto, budget>>

\* ... or the context ends. A deletion already marked stays marked.
GiveUp(w) ==
    /\ pc[w] = "lock"
    /\ Fault
    /\ Goto(w, "idle")
    /\ job' = [job EXCEPT ![w] = NoJob]
    /\ UNCHANGED <<account, row, request, docker, dirs, lock, manager, sess,
                   seen, todo, failed, issued, auto>>

\* A repair that settles a migrated row, or counts an attempt, writes first.
SettlingWrites(w) ==
    /\ pc[w] = "recSettle"
    /\ \/ sess[w].desired = "legacy_expired"
       \/ /\ sess[w].desired = "running" /\ seen[w] # "healthy"
          /\ sess[w].attempts < MaxRecoveryAttempts /\ ~sess[w].wait

\* The context ends while the handler holds the lock and is about to use the
\* store: the statement is not executed and the error is returned.
Cancelled(w) ==
    /\ pc[w] \in StoreSteps \/ SettlingWrites(w)
    /\ Fault
    /\ Return(w, FALSE)
    /\ UNCHANGED <<account, row, request, docker, dirs, manager, issued, auto>>

\* Seeded fault: an account need not be active, only not on its way out.
PermittedToDisabled(w) ==
    LET u == job[w].user
        i == job[w].id
    IN
    /\ row[i] # None
    /\ user[u] \notin Frozen
    /\ pc[w] \in {"start", "stop"} => row[i].desired # "deleted"
    /\ pc[w] = "task" => row[i].desired = "running"
    /\ pc[w] = "upload" => cont[i] \in Running

\* Seeded fault: the task does not look at the desired state again.
PermittedToStaleTask(w) ==
    LET u == job[w].user
        i == job[w].id
    IN
    /\ row[i] # None
    /\ IF pc[w] = "reconcile" THEN user[u] \notin Frozen ELSE user[u] = "active"
    /\ pc[w] \in {"start", "stop"} => row[i].desired # "deleted"
    /\ pc[w] = "upload" => cont[i] \in Running

\* What a handler asks of the row and the account it reads under the lock:
\* withSession and requireActive, the callbacks' own conditions, and for an
\* upload a file service that answers.
Permitted(w) ==
    LET u == job[w].user
        i == job[w].id
    IN
    /\ row[i] # None
    /\ IF pc[w] = "reconcile" THEN user[u] \notin Frozen ELSE user[u] = "active"
    /\ pc[w] \in {"start", "stop"} => row[i].desired # "deleted"
    /\ pc[w] = "task" => row[i].desired = "running"
    /\ pc[w] = "upload" => cont[i] \in Running

\* The row is gone or the account is not active, the instance is being deleted
\* or no longer wanted: the handler returns without effect.
Refuse(w) ==
    /\ pc[w] \in {"task", "start", "stop", "delete", "upload", "reconcile"}
    /\ ~Permitted(w)
    /\ Release(w)
    /\ UNCHANGED <<account, row, request, docker, dirs, manager, issued, auto,
                   budget>>

-----------------------------------------------------------------------------
(* CreateSessionWithOptions.                                               *)

Owned(u) == {i \in Ids : row[i] # None /\ row[i].owner = u}

\* Seeded fault: the row starts without a desired state.
NewRowWithoutIntent(u, k) ==
    [owner |-> u, key |-> k, status |-> "creating", desired |-> "",
     err |-> FALSE, attempts |-> 0, wait |-> FALSE]

NewRow(u, k) == [owner |-> u, key |-> k, status |-> "creating",
                 desired |-> "running", err |-> FALSE, attempts |-> 0,
                 wait |-> FALSE]

\* May CreateSessionWithinQuota insert a row for this user and key?
Admits(u, k) == /\ user[u] = "active"
                /\ k # None => request[u][k] = "unused"
                /\ Cardinality(Owned(u)) < quota[u]

\* CreateSessionWithinQuota: one transaction on account, key, quota and row.
CreateInQuota(w) ==
    LET u == job[w].user
        k == job[w].key
    IN
    /\ pc[w] = "create"
    /\ Admits(u, k)
    /\ \E i \in Ids \ issued :
         /\ row' = [row EXCEPT ![i] = NewRow(u, k)]
         /\ request' = IF k = None THEN request
                       ELSE [request EXCEPT ![u][k] = i]
         /\ issued' = issued \cup {i}
         /\ auto' = [auto EXCEPT ![i] = 0]
         /\ job' = [job EXCEPT ![w].id = i]
         /\ sess' = [sess EXCEPT ![w] = NewRow(u, k)]
    /\ Goto(w, "mkdirs")
    /\ UNCHANGED <<account, docker, dirs, lock, manager, seen, todo, failed,
                   budget>>

\* The account is frozen or unknown, the key was used, or the quota is full:
\* the transaction rolls back, or returns the instance made for the key.
CreateRejected(w) ==
    /\ pc[w] = "create"
    /\ ~Admits(job[w].user, job[w].key)
    /\ Release(w)
    /\ UNCHANGED <<account, row, request, docker, dirs, manager, issued, auto,
                   budget>>

\* prepareDirectories with create.
MakeDirectories(w) ==
    LET i == job[w].id IN
    /\ pc[w] = "mkdirs"
    /\ \/ /\ Works
          /\ dirs' = [dirs EXCEPT ![i] = "complete"]
          /\ Goto(w, "spawn")
          /\ UNCHANGED <<row, lock, job, sess, seen, todo, failed>>
       \/ /\ DiskFault
          /\ \E d \in {"absent", "partial"} : dirs' = [dirs EXCEPT ![i] = d]
          /\ Fail(w, "error")
    /\ UNCHANGED <<account, request, docker, manager, issued, auto>>

\* beginBackgroundTask admits the rest of the creation unless the manager is
\* shutting down; either way the request is over.
SpawnTask(w) ==
    /\ pc[w] = "spawn"
    /\ tasks' = IF closing THEN tasks
              ELSE tasks \cup {[job[w] EXCEPT !.op = "task", !.key = None]}
    /\ Release(w)
    /\ UNCHANGED <<account, row, request, docker, dirs, sweep, closing,
                   deployment, issued, auto, budget>>

\* The creation task, its row still wanted and its owner still active.
ResumeCreation(w) ==
    /\ pc[w] = "task" /\ Permitted(w)
    /\ Hold(w) /\ Goto(w, "mark")
    /\ UNCHANGED <<account, row, request, docker, dirs, lock, manager, job,
                   seen, todo, failed, issued, auto, budget>>

-----------------------------------------------------------------------------
(* StartSession and startLocked.                                           *)

\* UpdateSessionRecovery(id, 0, nil): an explicit start renews the budget of
\* automatic ones.
StartSession(w) ==
    LET i == job[w].id IN
    /\ pc[w] = "start" /\ Permitted(w)
    /\ row' = [row EXCEPT ![i] = [@ EXCEPT !.attempts = 0, !.wait = FALSE]]
    /\ auto' = [auto EXCEPT ![i] = 0]
    /\ Hold(w) /\ Goto(w, "mark")
    /\ UNCHANGED <<account, request, docker, dirs, lock, manager, job, seen,
                   todo, failed, issued, budget>>

MarkStarting(w) ==
    /\ pc[w] = "mark"
    /\ Commit(w, "starting", "running")
    /\ Goto(w, "inspect")
    /\ UNCHANGED <<account, request, docker, dirs, lock, manager, job, seen,
                   todo, failed, issued, auto, budget>>

StartInspect(w) == pc[w] = "inspect" /\ Inspect(w, "checkDirs", "isolate")

StartIsolate(w) ==
    /\ pc[w] = "isolate"
    /\ Isolate(w, CASE seen[w] = "unhealthy" -> "restop"
                    [] seen[w] = "exited"    -> "boot"
                    [] OTHER                 -> "await")

\* An unhealthy container is stopped before it is started again.
StartRestop(w) == pc[w] = "restop" /\ StopContainer(w, "boot")

\* createContainer: prepareDirectories without create, then a free UDP port.
CheckDirectories(w) ==
    /\ pc[w] = "checkDirs"
    /\ \/ /\ dirs[job[w].id] \in Present /\ Works
          /\ Goto(w, "network")
          /\ UNCHANGED <<row, lock, job, sess, seen, todo, failed>>
       \/ /\ DiskFault \/ (dirs[job[w].id] \notin Present /\ Works)
          /\ Fail(w, "error")
    /\ UNCHANGED <<account, request, docker, dirs, manager, issued, auto>>

\* createContainer: ensureSessionNetwork.
EnsureNetwork(w) ==
    LET i == job[w].id IN
    /\ pc[w] = "network"
    /\ \/ /\ Works
          /\ net' = [net EXCEPT ![i] = @ \cup {deployment}]
          /\ Goto(w, "build")
          /\ UNCHANGED <<row, lock, job, sess, seen, todo, failed>>
       \/ /\ Fault
          /\ net' \in {net, [net EXCEPT ![i] = @ \cup {deployment}]}
          /\ Fail(w, "error")
    /\ UNCHANGED <<account, request, cont, madeBy, dirs, manager, issued, auto>>

\* createContainer: the first half of CreateSessionContainer.
BuildContainer(w) ==
    LET i == job[w].id IN
    /\ pc[w] = "build"
    /\ \/ /\ cont[i] = "none" /\ Works
          /\ cont' = [cont EXCEPT ![i] = "exited"]
          /\ madeBy' = [madeBy EXCEPT ![i] = deployment]
          /\ Goto(w, "boot")
          /\ UNCHANGED <<row, lock, job, sess, seen, todo, failed>>
       \/ /\ Fault
          /\ \/ UNCHANGED <<cont, madeBy>>
             \/ /\ cont' = [cont EXCEPT ![i] = "exited"]
                /\ madeBy' = [madeBy EXCEPT ![i] = deployment]
          /\ Fail(w, "error")
    /\ UNCHANGED <<account, request, net, dirs, manager, issued, auto>>

\* StartContainer, or the second half of CreateSessionContainer. A failed
\* start keeps the container. Docker makes the sources of the bind mounts that
\* are missing.
BootContainer(w) ==
    LET i == job[w].id
        booted == [cont EXCEPT ![i] = IF @ \in Running THEN @ ELSE "starting"]
        mounted == [dirs EXCEPT ![i] = IF @ = "lost" THEN "blank" ELSE @]
    IN
    /\ pc[w] = "boot"
    /\ auto' = IF job[w].op = "reconcile" THEN [auto EXCEPT ![i] = @ + 1]
                                          ELSE auto
    /\ \/ /\ cont[i] # "none" /\ Works
          /\ cont' = booted /\ dirs' = mounted
          /\ Goto(w, "await")
          /\ UNCHANGED <<row, lock, job, sess, seen, todo, failed>>
       \/ /\ Fault \/ (cont[i] = "none" /\ Works)
          /\ \/ UNCHANGED <<cont, dirs>>
             \/ cont[i] # "none" /\ cont' = booted /\ dirs' = mounted
          /\ Fail(w, "error")
    /\ UNCHANGED <<account, request, madeBy, net, manager, issued>>

\* waitForHealthy: polls until the container is healthy, has exited or failed
\* its healthcheck, cannot be inspected, or a minute has passed.
AwaitHealthy(w) ==
    LET i == job[w].id IN
    /\ pc[w] = "await"
    /\ \/ /\ cont[i] = "healthy" /\ Works
          /\ Goto(w, "ready")
          /\ UNCHANGED <<row, lock, job, sess, seen, todo, failed>>
       \/ /\ Fault \/ (cont[i] # "healthy" /\ Works)
          /\ Fail(w, "error")
    /\ UNCHANGED <<account, request, docker, dirs, manager, issued, auto>>

MarkRunning(w) ==
    /\ pc[w] = "ready"
    /\ Write(w, "running", "running", FALSE)
    /\ Return(w, TRUE)
    /\ UNCHANGED <<account, request, docker, dirs, manager, issued, auto,
                   budget>>

-----------------------------------------------------------------------------
(* StopSession and stopLocked.                                             *)

\* Seeded fault: the stop is shown but not made the desired state.
StopSessionStatusOnly(w) ==
    LET i == job[w].id IN
    /\ pc[w] = "stop" /\ Permitted(w)
    /\ Write(w, "stopping", row[i].desired, FALSE)
    /\ Hold(w) /\ Goto(w, "stopInspect")
    /\ UNCHANGED <<account, request, docker, dirs, lock, manager, job, seen,
                   todo, failed, issued, auto, budget>>

StopSession(w) ==
    LET i == job[w].id IN
    /\ pc[w] = "stop" /\ Permitted(w)
    /\ Write(w, "stopping", "stopped", FALSE)
    /\ sess' = [sess EXCEPT ![w] = [row[i] EXCEPT !.desired = "stopped"]]
    /\ Goto(w, "stopInspect")
    /\ UNCHANGED <<account, request, docker, dirs, lock, manager, job, seen,
                   todo, failed, issued, auto, budget>>

StopInspect(w) == pc[w] = "stopInspect"
                    /\ Inspect(w, "stopDone", "stopIsolate")

StopIsolate(w) ==
    /\ pc[w] = "stopIsolate"
    /\ Isolate(w, IF seen[w] \in Running THEN "stopStop" ELSE "stopDone")

\* Seeded fault: a stop is believed without a second inspection.
StopStopUnconfirmed(w) ==
    /\ pc[w] = "stopStop"
    /\ Goto(w, "stopDone")
    /\ \/ Works /\ cont' = [cont EXCEPT ![job[w].id] =
                               IF @ \in Running THEN "exited" ELSE @]
       \/ Fault /\ UNCHANGED cont
    /\ UNCHANGED <<account, row, request, madeBy, net, dirs, lock, manager, job,
                   sess, seen, todo, failed, issued, auto>>

StopStop(w) == pc[w] = "stopStop" /\ StopContainer(w, "stopCheck")

\* Only a second inspection confirms the stop.
StopCheck(w) ==
    LET i == job[w].id IN
    /\ pc[w] = "stopCheck"
    /\ \/ /\ cont[i] \notin Running /\ Works
          /\ Goto(w, "stopDone")
          /\ UNCHANGED <<row, lock, job, sess, seen, todo, failed>>
       \/ Fault /\ Fail(w, "unknown")
       \/ cont[i] \in Running /\ Works /\ Fail(w, "error")
    /\ UNCHANGED <<account, request, docker, dirs, manager, issued, auto>>

MarkStopped(w) ==
    /\ pc[w] = "stopDone"
    /\ Write(w, "stopped", "stopped", FALSE)
    /\ Return(w, TRUE)
    /\ UNCHANGED <<account, request, docker, dirs, manager, issued, auto,
                   budget>>

-----------------------------------------------------------------------------
(* DeleteSession and deleteLocked.                                         *)

DeleteSession(w) ==
    /\ pc[w] = "delete" /\ Permitted(w)
    /\ Hold(w) /\ Goto(w, "delMark")
    /\ UNCHANGED <<account, row, request, docker, dirs, lock, manager, job,
                   seen, todo, failed, issued, auto, budget>>

\* Seeded fault: only the status is written, not the desired state.
MarkDeletingStatusOnly(w) ==
    /\ pc[w] = "delMark"
    /\ Commit(w, "deleting", sess[w].desired)
    /\ Goto(w, "delInspect")
    /\ UNCHANGED <<account, request, docker, dirs, lock, manager, job, seen,
                   todo, failed, issued, auto, budget>>

MarkDeleting(w) ==
    /\ pc[w] = "delMark"
    /\ Commit(w, "deleting", "deleted")
    /\ Goto(w, "delInspect")
    /\ UNCHANGED <<account, request, docker, dirs, lock, manager, job, seen,
                   todo, failed, issued, auto, budget>>

\* Seeded fault: an outage is taken for the container's absence.
DeleteInspectTrustsOutage(w) ==
    /\ pc[w] = "delInspect"
    /\ \/ Inspect(w, "delNetwork",
                   IF cont[job[w].id] \in Running THEN "delStop" ELSE "delRemove")
       \/ /\ Fault /\ Goto(w, "delNetwork")
          /\ UNCHANGED <<account, row, request, docker, dirs, lock, manager,
                         job, sess, seen, todo, failed, issued, auto>>

DeleteInspect(w) ==
    /\ pc[w] = "delInspect"
    /\ Inspect(w, "delNetwork",
               IF cont[job[w].id] \in Running THEN "delStop" ELSE "delRemove")

DeleteStop(w) == pc[w] = "delStop" /\ StopContainer(w, "delRemove")

\* RemoveContainer without force; a container already gone is no error.
RemoveContainer(w) ==
    LET i == job[w].id
        removed == [cont EXCEPT ![i] = IF @ \in Running THEN @ ELSE "none"]
    IN
    /\ pc[w] = "delRemove"
    /\ \/ /\ cont[i] \notin Running /\ Works
          /\ cont' = removed
          /\ Goto(w, "delCheck")
          /\ UNCHANGED <<row, lock, job, sess, seen, todo, failed>>
       \/ /\ Fault \/ (cont[i] \in Running /\ Works)
          /\ cont' \in {cont, removed}
          /\ Fail(w, "error")
    /\ UNCHANGED <<account, request, madeBy, net, dirs, manager, issued, auto>>

\* Only a second inspection that finds nothing confirms the removal.
DeleteCheck(w) ==
    LET i == job[w].id IN
    /\ pc[w] = "delCheck"
    /\ \/ /\ cont[i] = "none" /\ Works
          /\ Goto(w, "delNetwork")
          /\ UNCHANGED <<row, lock, job, sess, seen, todo, failed>>
       \/ /\ Fault \/ (cont[i] # "none" /\ Works)
          /\ Fail(w, "unknown")
    /\ UNCHANGED <<account, request, docker, dirs, manager, issued, auto>>

\* Seeded fault: a network that could not be removed is forgotten.
RemoveNetworkIgnoresFailure(w) ==
    /\ pc[w] = "delNetwork"
    /\ Goto(w, "delDirs")
    /\ \/ Works /\ net' = [net EXCEPT ![job[w].id] = @ \ {deployment}]
       \/ Fault /\ UNCHANGED net
    /\ UNCHANGED <<account, row, request, cont, madeBy, dirs, lock, manager, job,
                   sess, seen, todo, failed, issued, auto>>

\* RemoveSessionNetwork refuses a network with another endpoint than the
\* manager's; only a running container is an endpoint.
RemoveNetwork(w) ==
    LET i == job[w].id
        removed == [net EXCEPT ![i] = IF cont[i] \in Running THEN @
                                      ELSE @ \ {deployment}]
    IN
    /\ pc[w] = "delNetwork"
    /\ \/ /\ cont[i] \notin Running /\ Works
          /\ net' = removed
          /\ Goto(w, "delDirs")
          /\ UNCHANGED <<row, lock, job, sess, seen, todo, failed>>
       \/ /\ Fault \/ (cont[i] \in Running /\ Works)
          /\ net' \in {net, removed}
          /\ Fail(w, "error")
    /\ UNCHANGED <<account, request, cont, madeBy, dirs, manager, issued, auto>>

RemoveDirectories(w) ==
    LET i == job[w].id IN
    /\ pc[w] = "delDirs"
    /\ \/ /\ Works
          /\ dirs' = [dirs EXCEPT ![i] = "absent"]
          /\ Goto(w, "delRow")
          /\ UNCHANGED <<row, lock, job, sess, seen, todo, failed>>
       \/ /\ DiskFault
          /\ \E d \in {dirs[i], IF dirs[i] \in Present THEN "partial"
                                                        ELSE dirs[i]} :
               dirs' = [dirs EXCEPT ![i] = d]
          /\ Fail(w, "error")
    /\ UNCHANGED <<account, request, docker, manager, issued, auto>>

\* Seeded fault: the request key is deleted with the row.
DeleteRowFreesKey(w) ==
    LET i == job[w].id IN
    /\ pc[w] = "delRow"
    /\ row' = [row EXCEPT ![i] = None]
    /\ request' = [u \in Users |-> [k \in Keys |->
                     IF request[u][k] = i THEN "unused" ELSE request[u][k]]]
    /\ Return(w, TRUE)
    /\ UNCHANGED <<account, docker, dirs, manager, issued, auto, budget>>

\* store.DeleteSession; the request key outlives the row with no instance.
DeleteRow(w) ==
    LET i == job[w].id IN
    /\ pc[w] = "delRow"
    /\ row' = [row EXCEPT ![i] = None]
    /\ request' = [u \in Users |-> [k \in Keys |->
                     IF request[u][k] = i THEN "gone" ELSE request[u][k]]]
    /\ Return(w, TRUE)
    /\ UNCHANGED <<account, docker, dirs, manager, issued, auto, budget>>

-----------------------------------------------------------------------------
(* DeleteUser, once it holds the lock.                                     *)

\* SetUserDeletionError, and the handler returns.
DeletionFailed(w) ==
    /\ user' = [user EXCEPT ![job[w].user] =
                  IF @ \in Frozen THEN "delete_failed" ELSE @]
    /\ Release(w)

ListInstances(w) ==
    /\ pc[w] = "deleteUser"
    /\ \/ /\ Works
          /\ todo' = [todo EXCEPT ![w] = Owned(job[w].user)]
          /\ Goto(w, "nextInstance")
          /\ UNCHANGED <<user, lock, job, sess, seen, failed>>
       \/ Fault /\ DeletionFailed(w)
    /\ UNCHANGED <<quota, row, request, docker, dirs, manager, issued, auto>>

NextInstance(w) ==
    /\ pc[w] = "nextInstance"
    /\ \E i \in todo[w] :
         /\ todo' = [todo EXCEPT ![w] = @ \ {i}]
         /\ job' = [job EXCEPT ![w].id = i]
         /\ sess' = [sess EXCEPT ![w] = row[i]]
    /\ Goto(w, "delMark")
    /\ UNCHANGED <<account, row, request, docker, dirs, lock, manager, seen,
                   failed, issued, auto, budget>>

\* store.DeleteUser refuses a user who is not frozen or still owns a row; the
\* account takes its request keys with it. Otherwise the failure is recorded.
FinishUserDeletion(w) ==
    LET u == job[w].user IN
    /\ pc[w] = "nextInstance" /\ todo[w] = {}
    /\ \/ /\ ~failed[w] /\ user[u] \in Frozen /\ Owned(u) = {} /\ Works
          /\ user' = [user EXCEPT ![u] = "absent"]
          /\ request' = [request EXCEPT ![u] = [k \in Keys |-> "unused"]]
          /\ Release(w)
       \/ /\ ~failed[w] /\ user[u] = "absent" /\ Works
          /\ Release(w)
          /\ UNCHANGED <<user, request>>
       \/ /\ \/ Fault
             \/ (failed[w] \/ Owned(u) # {} \/ user[u] \notin Frozen \cup {"absent"})
                  /\ Works
          /\ DeletionFailed(w)
          /\ UNCHANGED request
    /\ UNCHANGED <<quota, row, docker, dirs, manager, issued, auto>>

-----------------------------------------------------------------------------
(* The file upload under WithUserLock.                                     *)

\* Seeded fault: the lock covers the check but not the upload.
BeginUploadUnlocked(w) ==
    /\ pc[w] = "upload" /\ Permitted(w)
    /\ lock' = [lock EXCEPT ![job[w].user] = None]
    /\ Hold(w) /\ Goto(w, "uploading")
    /\ UNCHANGED <<account, row, request, docker, dirs, manager, job,
                   seen, todo, failed, issued, auto, budget>>

BeginUpload(w) ==
    /\ pc[w] = "upload" /\ Permitted(w)
    /\ Hold(w) /\ Goto(w, "uploading")
    /\ UNCHANGED <<account, row, request, docker, dirs, lock, manager, job,
                   seen, todo, failed, issued, auto, budget>>

EndUpload(w) ==
    /\ pc[w] = "uploading"
    /\ Release(w)
    /\ UNCHANGED <<account, row, request, docker, dirs, manager, issued, auto,
                   budget>>

-----------------------------------------------------------------------------
(* ReconcileOnce and reconcileLocked.                                      *)

\* Seeded fault: a deletion that failed is not swept again.
SweepBeginSkipsFailed ==
    /\ sweep.phase = "rest" /\ pc[Maint] = "idle" /\ ~closing
    /\ sweep' = [phase |-> "users", ids |-> {},
                 users |-> {u \in Users : user[u] = "deleting"}]
    /\ UNCHANGED <<account, row, request, docker, dirs, lock, tasks, closing,
                   deployment, thread, issued, auto, budget>>

\* ListDeletingUsers.
SweepBegin ==
    /\ sweep.phase = "rest" /\ pc[Maint] = "idle" /\ ~closing
    /\ sweep' = [phase |-> "users", ids |-> {},
                 users |-> {u \in Users : user[u] \in Frozen}]
    /\ UNCHANGED <<account, row, request, docker, dirs, lock, tasks, closing,
                   deployment, thread, issued, auto, budget>>

\* DeleteUser for one of them, or nothing if the account went meanwhile.
SweepUser(u) ==
    /\ sweep.phase = "users" /\ u \in sweep.users
    /\ sweep' = [sweep EXCEPT !.users = @ \ {u}]
    /\ UNCHANGED budget
    /\ \/ /\ MarkUserDeleting(u)
          /\ Submit(Maint, [op |-> "deleteUser", user |-> u, id |-> None,
                            key |-> None])
       \/ /\ user[u] = "absent" /\ pc[Maint] = "idle"
          /\ UNCHANGED <<account, row, request, docker, dirs, lock, tasks,
                         closing, deployment, thread, issued, auto>>

\* Seeded fault: the sweep passes over instances that are to be deleted.
SweepListSkipsDeleted ==
    /\ sweep.phase = "users" /\ sweep.users = {} /\ pc[Maint] = "idle"
    /\ sweep' = [phase |-> "ids", users |-> {},
                 ids |-> {i \in UNION {Owned(u) : u \in Users} :
                            row[i].desired # "deleted"}]
    /\ UNCHANGED <<account, row, request, docker, dirs, lock, tasks, closing,
                   deployment, thread, issued, auto, budget>>

\* ListAllSessions.
SweepList ==
    /\ sweep.phase = "users" /\ sweep.users = {} /\ pc[Maint] = "idle"
    /\ sweep' = [phase |-> "ids", users |-> {},
                 ids |-> {i \in Ids : row[i] # None}]
    /\ UNCHANGED <<account, row, request, docker, dirs, lock, tasks, closing,
                   deployment, thread, issued, auto, budget>>

\* withSession(reconcileLocked) for one row, or nothing if it went meanwhile.
SweepInstance(i) ==
    /\ sweep.phase = "ids" /\ i \in sweep.ids
    /\ sweep' = [sweep EXCEPT !.ids = @ \ {i}]
    /\ UNCHANGED <<user, budget>>
    /\ \/ /\ row[i] # None
          /\ Submit(Maint, [op |-> "reconcile", user |-> row[i].owner,
                            id |-> i, key |-> None])
       \/ /\ row[i] = None /\ pc[Maint] = "idle"
          /\ UNCHANGED <<quota, row, request, docker, dirs, lock, tasks,
                         closing, deployment, thread, issued, auto>>

SweepEnd ==
    /\ sweep.phase = "ids" /\ sweep.ids = {} /\ pc[Maint] = "idle"
    /\ sweep' = Rest
    /\ UNCHANGED <<account, row, request, docker, dirs, lock, tasks, closing,
                   deployment, thread, issued, auto, budget>>

\* A pending deletion is taken up again.
ReconcileDeleted(w) ==
    LET i == job[w].id IN
    /\ pc[w] = "reconcile" /\ Permitted(w)
    /\ row[i].desired = "deleted" \/ row[i].status = "deleting"
    /\ Hold(w) /\ Goto(w, "delMark")
    /\ UNCHANGED <<account, row, request, docker, dirs, lock, manager, job,
                   seen, todo, failed, issued, auto, budget>>

\* Otherwise the container is inspected. The row read under the lock is the
\* copy every later decision of this handler uses.
ReconcileInspect(w) ==
    LET i == job[w].id IN
    /\ pc[w] = "reconcile" /\ Permitted(w)
    /\ row[i].desired # "deleted" /\ row[i].status # "deleting"
    /\ \/ /\ cont[i] = "none" \/ madeBy[i] = deployment
          /\ Works
          /\ Goto(w, IF cont[i] = "none" THEN "recDirs" ELSE "recIsolate")
          /\ seen' = [seen EXCEPT ![w] = cont[i]]
          /\ Hold(w)
          /\ UNCHANGED <<row, lock, job, todo, failed>>
       \/ /\ \/ Fault /\ Write(w, "unknown", row[i].desired, TRUE)
             \/ /\ cont[i] # "none" /\ madeBy[i] # deployment /\ Works
                /\ Write(w, "error", row[i].desired, TRUE)
          /\ Release(w)
    /\ UNCHANGED <<account, request, docker, dirs, manager, issued, auto>>

\* isolateContainerNetwork, and SetPersistentRestartPolicy where needed.
ReconcileIsolate(w) == pc[w] = "recIsolate" /\ Isolate(w, "recDirs")

\* prepareDirectories without create: missing data stops every recovery.
ReconcileDirectories(w) ==
    /\ pc[w] = "recDirs"
    /\ \/ /\ dirs[job[w].id] \in Present /\ Works
          /\ Goto(w, "recSettle")
          /\ UNCHANGED <<row, lock, job, sess, seen, todo, failed>>
       \/ /\ DiskFault \/ (dirs[job[w].id] \notin Present /\ Works)
          /\ Fail(w, "error")
    /\ UNCHANGED <<account, request, docker, dirs, manager, issued, auto>>

\* A migrated expired instance becomes running or stopped by what was found.
SettleLegacy(w) ==
    /\ pc[w] = "recSettle" /\ sess[w].desired = "legacy_expired"
    /\ Commit(w, sess[w].status, IF seen[w] \in Running THEN "running"
                                                        ELSE "stopped")
    /\ UNCHANGED <<account, request, docker, dirs, lock, manager, pc, job,
                   seen, todo, failed, issued, auto, budget>>

SettleStopped(w) ==
    /\ pc[w] = "recSettle" /\ sess[w].desired = "stopped"
    /\ \/ /\ seen[w] = "none"
          /\ Fail(w, "error")
       \/ /\ seen[w] # "none"
          /\ Goto(w, "stopInspect")
          /\ UNCHANGED <<row, lock, job, sess, seen, todo, failed>>
    /\ UNCHANGED <<account, request, docker, dirs, manager, issued, auto,
                   budget>>

SettleHealthy(w) ==
    /\ pc[w] = "recSettle" /\ sess[w].desired = "running"
    /\ seen[w] = "healthy"
    /\ Goto(w, "recHealthy")
    /\ UNCHANGED <<account, row, request, docker, dirs, lock, manager, job,
                   sess, seen, todo, failed, issued, auto, budget>>

Wanted(w) == /\ pc[w] = "recSettle" /\ sess[w].desired = "running"
             /\ seen[w] # "healthy"

\* The recovery budget is spent: stop a container Docker keeps restarting,
\* record the exhaustion once, and otherwise leave the row alone.
SettleExhausted(w) ==
    /\ Wanted(w) /\ sess[w].attempts >= MaxRecoveryAttempts
    /\ \/ /\ seen[w] \in Running
          /\ Goto(w, "recExhausted")
          /\ UNCHANGED <<row, lock, job, sess, seen, todo, failed>>
       \/ /\ seen[w] \notin Running /\ ~sess[w].err
          /\ Fail(w, "error")
       \/ /\ seen[w] \notin Running /\ sess[w].err
          /\ Release(w)
          /\ UNCHANGED row
    /\ UNCHANGED <<account, request, docker, dirs, manager, issued, auto,
                   budget>>

SettleLater(w) ==
    /\ Wanted(w) /\ sess[w].attempts < MaxRecoveryAttempts /\ sess[w].wait
    /\ Release(w)
    /\ UNCHANGED <<account, row, request, docker, dirs, manager, issued, auto,
                   budget>>

\* Seeded fault: the attempt is not on record while it is made.
SettleRetryUncounted(w) ==
    /\ Wanted(w) /\ sess[w].attempts < MaxRecoveryAttempts /\ ~sess[w].wait
    /\ row' = [row EXCEPT ![job[w].id] = [@ EXCEPT !.wait = TRUE]]
    /\ Goto(w, IF seen[w] = "unhealthy" THEN "recStop" ELSE "mark")
    /\ UNCHANGED <<account, request, docker, dirs, lock, manager, job, sess,
                   seen, todo, failed, issued, auto, budget>>

\* UpdateSessionRecovery is committed before the attempt it counts.
SettleRetry(w) ==
    /\ Wanted(w) /\ sess[w].attempts < MaxRecoveryAttempts /\ ~sess[w].wait
    /\ row' = [row EXCEPT ![job[w].id] =
                 [@ EXCEPT !.attempts = sess[w].attempts + 1, !.wait = TRUE]]
    /\ Goto(w, IF seen[w] = "unhealthy" THEN "recStop" ELSE "mark")
    /\ UNCHANGED <<account, request, docker, dirs, lock, manager, job, sess,
                   seen, todo, failed, issued, auto, budget>>

ReconcileHealthy(w) ==
    /\ pc[w] = "recHealthy"
    /\ Write(w, "running", "running", FALSE)
    /\ IF sess[w].attempts # 0
       THEN Goto(w, "recReset") /\ UNCHANGED <<lock, job, sess, seen, todo, failed>>
       ELSE Release(w)
    /\ UNCHANGED <<account, request, docker, dirs, manager, issued, auto,
                   budget>>

ReconcileReset(w) ==
    LET i == job[w].id IN
    /\ pc[w] = "recReset"
    /\ row' = [row EXCEPT ![i] = [@ EXCEPT !.attempts = 0, !.wait = FALSE]]
    /\ auto' = [auto EXCEPT ![i] = 0]
    /\ Release(w)
    /\ UNCHANGED <<account, request, docker, dirs, manager, issued, budget>>

\* Stopped or not, the row ends in error.
ReconcileExhausted(w) ==
    LET i == job[w].id
        halted == [cont EXCEPT ![i] = IF @ \in Running THEN "exited" ELSE @]
    IN
    /\ pc[w] = "recExhausted"
    /\ \/ Works /\ cont' = halted
       \/ Fault /\ cont' \in {cont, halted}
    /\ Fail(w, "error")
    /\ UNCHANGED <<account, request, madeBy, net, dirs, manager, issued, auto>>

ReconcileStop(w) == pc[w] = "recStop" /\ StopContainer(w, "mark")

-----------------------------------------------------------------------------
(* Administrators, Docker, the disk and the process itself.                *)

SetUserStatus(u, s) ==
    /\ user[u] \in {"active", "disabled"} /\ s \in {"active", "disabled"}
    /\ s # user[u]
    /\ Spend("admin")
    /\ user' = [user EXCEPT ![u] = s]
    /\ UNCHANGED <<quota, row, request, docker, dirs, lock, manager, thread,
                   issued, auto>>

UpdateUserQuota(u, q) ==
    /\ user[u] \in {"active", "disabled"} /\ q # quota[u]
    /\ Spend("admin")
    /\ quota' = [quota EXCEPT ![u] = q]
    /\ UNCHANGED <<user, row, request, docker, dirs, lock, manager, thread,
                   issued, auto>>

\* The healthcheck of a starting container comes to a result; later it may
\* change its mind, or Docker restarts a process that crashed.
HealthChanges(i, h) ==
    /\ cont[i] \in Running /\ h \in Running \ {cont[i]}
    /\ IF cont[i] = "starting" THEN UNCHANGED budget ELSE Spend("exit")
    /\ cont' = [cont EXCEPT ![i] = h]
    /\ UNCHANGED <<account, row, request, madeBy, net, dirs, lock, manager,
                   thread, issued, auto>>

\* The container exits for good, or someone removes it.
ContainerDies(i, c) ==
    /\ \/ cont[i] \in Running /\ c = "exited"
       \/ cont[i] # "none" /\ c = "none"
    /\ Spend("exit")
    /\ cont' = [cont EXCEPT ![i] = c]
    /\ UNCHANGED <<account, row, request, madeBy, net, dirs, lock, manager,
                   thread, issued, auto>>

\* The data directory of an instance disappears.
DataLost(i) ==
    /\ dirs[i] = "complete"
    /\ Spend("loss")
    /\ dirs' = [dirs EXCEPT ![i] = "lost"]
    /\ UNCHANGED <<account, row, request, docker, lock, manager, thread,
                   issued, auto>>

\* recovery_next_at passes.
BackoffElapses(i) ==
    /\ row[i] # None /\ row[i].wait
    /\ row' = [row EXCEPT ![i] = [@ EXCEPT !.wait = FALSE]]
    /\ UNCHANGED <<account, request, docker, dirs, lock, manager, thread,
                   issued, auto, budget>>

\* Service.Shutdown: no new background task, running ones are cancelled.
Shutdown ==
    /\ ~closing /\ budget.crash > 0
    /\ closing' = TRUE
    /\ UNCHANGED <<account, row, request, docker, dirs, lock, tasks, sweep,
                   deployment, thread, issued, auto, budget>>

\* The process ends, cleanly or not, and the next manager starts, perhaps
\* configured with another data path or network. Tables, containers, networks
\* and directories stay; locks, tasks and half-done handlers do not.
Restart(d) ==
    /\ Spend("crash")
    /\ deployment' = d
    /\ lock' = [u \in Users |-> None]
    /\ tasks' = {} /\ sweep' = Rest /\ closing' = FALSE
    /\ pc' = [w \in Threads |-> "idle"]
    /\ job' = [w \in Threads |-> NoJob]
    /\ sess' = [w \in Threads |-> None]
    /\ seen' = [w \in Threads |-> "none"]
    /\ todo' = [w \in Threads |-> {}]
    /\ failed' = [w \in Threads |-> FALSE]
    /\ UNCHANGED <<account, row, request, docker, dirs, issued, auto>>

-----------------------------------------------------------------------------
StartStep(w) ==
    \/ StartSession(w) \/ ResumeCreation(w) \/ MarkStarting(w)
    \/ StartInspect(w) \/ StartIsolate(w) \/ StartRestop(w)
    \/ CheckDirectories(w) \/ EnsureNetwork(w) \/ BuildContainer(w)
    \/ BootContainer(w) \/ AwaitHealthy(w) \/ MarkRunning(w)

StopStep(w) ==
    \/ StopSession(w) \/ StopInspect(w) \/ StopIsolate(w) \/ StopStop(w)
    \/ StopCheck(w) \/ MarkStopped(w)

DeleteStep(w) ==
    \/ DeleteSession(w) \/ MarkDeleting(w) \/ DeleteInspect(w) \/ DeleteStop(w)
    \/ RemoveContainer(w) \/ DeleteCheck(w) \/ RemoveNetwork(w)
    \/ RemoveDirectories(w) \/ DeleteRow(w)
    \/ ListInstances(w) \/ NextInstance(w) \/ FinishUserDeletion(w)

RepairStep(w) ==
    \/ ReconcileDeleted(w) \/ ReconcileInspect(w) \/ ReconcileIsolate(w)
    \/ ReconcileDirectories(w) \/ SettleLegacy(w) \/ SettleStopped(w)
    \/ SettleHealthy(w) \/ SettleExhausted(w) \/ SettleLater(w)
    \/ SettleRetry(w) \/ ReconcileHealthy(w) \/ ReconcileReset(w)
    \/ ReconcileExhausted(w) \/ ReconcileStop(w)

\* What a handler does on its own, once it was submitted.
HandlerStep(w) ==
    \/ Acquire(w) \/ Refuse(w)
    \/ CreateInQuota(w) \/ CreateRejected(w) \/ MakeDirectories(w)
    \/ SpawnTask(w) \/ BeginUpload(w) \/ EndUpload(w)
    \/ StartStep(w) \/ StopStep(w) \/ DeleteStep(w) \/ RepairStep(w)

SweepStep ==
    \/ SweepBegin \/ SweepList \/ SweepEnd
    \/ \E u \in Users : SweepUser(u)
    \/ \E i \in Ids : SweepInstance(i)

Submission(w) ==
    \/ \E u \in Users, k \in Keys \cup {None} : RequestCreate(w, u, k)
    \/ \E i \in Ids, op \in {"start", "stop", "delete", "upload"} :
         RequestOnInstance(w, op, i)
    \/ \E u \in Users : RequestDeleteUser(w, u)

Environment ==
    \/ \E u \in Users, s \in Accounts : SetUserStatus(u, s)
    \/ \E u \in Users, q \in Quotas : UpdateUserQuota(u, q)
    \/ \E i \in Ids, h \in Running : HealthChanges(i, h)
    \/ \E i \in Ids, c \in Containers : ContainerDies(i, c)
    \/ \E i \in Ids : DataLost(i) \/ BackoffElapses(i)
    \/ Shutdown
    \/ \E d \in Deployments : Restart(d)

Next ==
    \/ \E w \in Threads : \/ HandlerStep(w) \/ GiveUp(w) \/ Cancelled(w)
                          \/ Submission(w)
                          \/ \E t \in tasks : RunTask(w, t)
    \/ SweepStep
    \/ Environment

Spec == Init /\ [][Next]_vars

\* A handler that was submitted runs on, the 15 s ticker of StartMaintenance
\* keeps firing, and a manager that was shut down is started again. That a
\* handler runs on assumes that its calls to the store, the disk and Docker
\* return, well or not: only the creation task has a deadline, the maintenance
\* loop has none, nor has the Docker client; and that a handler waiting for a
\* lock gets it in the end. Nothing is assumed of new requests or administrators.
Fairness ==
    /\ \A w \in Threads : WF_vars(HandlerStep(w))
    /\ WF_vars(SweepStep)
    /\ WF_vars(closing /\ \E d \in Deployments : Restart(d))
    /\ \A i \in Ids : WF_vars(BackoffElapses(i))

FairSpec == Spec /\ Fairness

-----------------------------------------------------------------------------
(* What the life cycle promises.                                           *)

\* Every variable has its type.
TypeOK ==
    /\ user \in [Users -> Accounts]
    /\ quota \in [Users -> Quotas]
    /\ row \in [Ids -> Row \cup {None}]
    /\ request \in [Users -> [Keys -> Ids \cup {"unused", "gone"}]]
    /\ cont \in [Ids -> Containers]
    /\ madeBy \in [Ids -> Deployments]
    /\ net \in [Ids -> SUBSET Deployments]
    /\ dirs \in [Ids -> Disks]
    /\ lock \in [Users -> Threads \cup {None}]
    /\ tasks \in SUBSET [op : {"task"}, user : Users, id : Ids, key : {None}]
    /\ sweep \in [phase : {"rest", "users", "ids"}, users : SUBSET Users,
                  ids : SUBSET Ids]
    /\ closing \in BOOLEAN
    /\ deployment \in Deployments
    /\ pc \in [Threads -> Steps]
    /\ job \in [Threads -> Job]
    /\ sess \in [Threads -> Row \cup {None}]
    /\ seen \in [Threads -> Containers]
    /\ todo \in [Threads -> SUBSET Ids]
    /\ failed \in [Threads -> BOOLEAN]
    /\ issued \in SUBSET Ids
    /\ auto \in [Ids -> Nat]
    /\ budget \in Budget

\* No hidden container and no data without a record: whatever a crash, an
\* outage or a race leaves behind, a container or a directory of an instance
\* implies its row, and the row an account that still exists.
NoOrphanResources ==
    \A i \in Ids :
        /\ cont[i] # "none" \/ dirs[i] # "absent" => row[i] # None
        /\ row[i] # None => user[row[i].owner] # "absent"

\* The same for networks, as long as deploymentID never changes.
NoOrphanNetworks ==
    (\A d, e \in Deployments : d = e) =>
        \A i \in Ids : net[i] # {} => row[i] # None

\* While a handler works on an instance, the row exists, belongs to the user
\* whose lock it holds, and still has the desired state the handler read: no
\* failure is ever recorded over somebody else's newer intent.
HandlerOwnsItsRow ==
    \A w \in Threads : pc[w] \in RowSteps =>
        /\ row[job[w].id] # None
        /\ row[job[w].id].owner = job[w].user
        /\ row[job[w].id].desired = sess[w].desired

\* The status an owner sees never contradicts what the instance is meant to
\* be: a late failure or completion cannot show a deleted or stopped instance
\* as running, nor an instance that is to run as stopped.
StatusAgreesWithIntent ==
    \A i \in Ids : row[i] # None =>
        /\ row[i].status \in {"creating", "starting", "running"}
              => row[i].desired = "running"
        /\ row[i].status \in {"stopping", "stopped"} => row[i].desired = "stopped"
        /\ row[i].status = "deleting" => row[i].desired = "deleted"

\* An instance shown as stopped is not running, in any interleaving of crash,
\* exit and restart.
StoppedMeansStopped ==
    \A i \in Ids : row[i] # None /\ row[i].status = "stopped"
                     => cont[i] \notin Running

\* A handler about to stop, start or remove a container found it to be its
\* own: ownership is never inferred from a name.
TouchesOnlyItsOwn ==
    \A w \in Threads :
        /\ pc[w] \in {"restop", "boot", "stopStop", "delStop", "delRemove",
                     "recExhausted", "recStop"}
        /\ cont[job[w].id] # "none"
        => madeBy[job[w].id] = deployment

\* Automatic recovery starts a container at most MaxRecoveryAttempts times
\* between two moments the budget is renewed, also across crashes: every
\* attempt is on record before it is made.
BoundedRecovery ==
    \A i \in Ids : row[i] # None =>
        /\ row[i].attempts <= MaxRecoveryAttempts
        /\ auto[i] <= row[i].attempts

\* A request key names at most one instance, the one made for it.
OneInstancePerRequest ==
    \A i \in Ids : row[i] # None /\ row[i].key # None
                     => request[row[i].owner][row[i].key] = i

\* An upload in progress keeps its instance: neither the row, nor the
\* directories, nor the account goes while the file is written.
UploadKeepsInstance ==
    \A w \in Threads : pc[w] = "uploading" =>
        /\ row[job[w].id] # None /\ user[job[w].user] # "absent"
        /\ dirs[job[w].id] \in {"complete", "lost", "blank"}

\* A deletion, of an instance or of an account, is never revoked: no start,
\* failure or late completion brings either back.
DeletionIsIrrevocable ==
    [][/\ \A i \in Ids : row[i] # None /\ row[i].desired = "deleted"
            => row'[i] = None \/ row'[i].desired = "deleted"
       /\ \A u \in Users : user[u] \in Frozen
            => user'[u] \in Frozen \cup {"absent"}]_vars

\* A container starts only for an instance that is meant to run and whose
\* account exists: a stopped or deleted instance is not resurrected by a task,
\* a retry or the maintenance loop. And neither a request nor a creation task
\* that waited for the lock begins a start once the account is disabled, which
\* takes no lock; what has begun, and recovery, goes on.
StartsAreWanted ==
    [][/\ \A i \in Ids : cont[i] \notin Running /\ cont'[i] \in Running
            => /\ row[i] # None /\ row[i].desired = "running"
               /\ user[row[i].owner] # "absent"
       /\ \A w \in Threads : pc[w] \in EntrySteps /\ pc'[w] \in StartSteps
            => user[job[w].user] = "active"]_vars

\* An instance its owner stopped runs again only because someone asked for it:
\* neither the creation task that was still waiting, nor recovery, nor a late
\* failure turns a stop back into a wish to run.
StopsAreRespected ==
    [][\A i \in Ids :
         /\ row[i] # None /\ row[i].desired = "stopped"
         /\ row'[i] # None /\ row'[i].desired # "stopped"
         => \E w \in Threads :
              /\ job[w].id = i
              /\ pc[w] = "delMark" \/ (pc[w] = "mark" /\ job[w].op = "start")]_vars

\* The manager removes an instance's data, wholly or in part, only to complete
\* a deletion and only once the container is gone.
DataOutlivesContainer ==
    [][\A i \in Ids :
         \/ dirs[i] \in Present \cup {"partial"} /\ dirs'[i] = "absent"
         \/ dirs[i] \in Present /\ dirs'[i] = "partial"
         => row[i] # None /\ row[i].desired = "deleted" /\ cont[i] = "none"]_vars

\* A request key stays spent after its instance is deleted, so that a late
\* repetition of the request makes no second instance.
KeysStaySpent ==
    [][\A u \in Users, k \in Keys : request[u][k] # "unused"
         => request'[u][k] \in {request[u][k], "gone"} \/ user'[u] = "absent"]_vars

\* No start runs the browser on anything but the instance's own data.
StartsHaveTheirData ==
    [][\A i \in Ids : cont[i] \notin Running /\ cont'[i] \in Running
         => dirs[i] = "complete"]_vars

\* A deletion someone confirmed is completed, by the handler or by the
\* maintenance loop after failures and restarts.
DeletionCompletes ==
    \A i \in Ids : (row[i] # None /\ row[i].desired = "deleted")
                     ~> (row[i] = None)

\* So is the deletion of an account, with every instance it owns.
UserDeletionCompletes ==
    \A u \in Users : (user[u] \in Frozen) ~> (user[u] = "absent")

\* "unknown" is shown while Docker cannot be asked; once it can, the
\* maintenance loop replaces it by what it finds.
UnknownIsTemporary ==
    \A i \in Ids : (row[i] # None /\ row[i].status = "unknown")
                     ~> (row[i] = None \/ row[i].status # "unknown")

=============================================================================
