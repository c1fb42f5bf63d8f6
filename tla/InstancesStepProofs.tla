-------------------------- MODULE InstancesStepProofs --------------------------
(* What no step of the manager ever does: start a container nobody wants,     *)
(* remove data that is still in use, revoke a deletion or overrule a stop.    *)
(* From the inductive invariant: only one action starts containers, two touch *)
(* directories and four change what an instance is meant to be.               *)
EXTENDS InstancesProofs, InstancesPromise

-----------------------------------------------------------------------------
(* Only BootContainer starts a container.                                     *)

StartsNothing == \A i \in Ids : cont'[i] \in Running => cont[i] \in Running

LEMMA CallsStartNothing ==
    ASSUME Inductive, NEW w \in Threads, NEW a, NEW b,
           Inspect(w, a, b) \/ Isolate(w, a) \/ StopContainer(w, a)
    PROVE  StartsNothing
<1>1. cont \in [Ids -> Containers] /\ "exited" \notin Running
  BY DEF Inductive, TypeOK, Running
<1>2. CASE Inspect(w, a, b) \/ Isolate(w, a)
  BY <1>2 DEF Inspect, Isolate, StartsNothing, docker
<1>3. CASE StopContainer(w, a)
  BY <1>1, <1>3 DEF StopContainer, StartsNothing
<1> QED BY <1>2, <1>3

LEMMA StartersStartNothing ==
    ASSUME Inductive, NEW w \in Threads, StartStep(w), ~BootContainer(w)
    PROVE  StartsNothing
<1>1. CASE StartInspect(w) \/ StartIsolate(w) \/ StartRestop(w)
  BY <1>1, CallsStartNothing DEF StartInspect, StartIsolate, StartRestop
<1>2. CASE BuildContainer(w)
  <2>1. cont \in [Ids -> Containers] /\ "exited" \notin Running
    BY DEF Inductive, TypeOK, Running
  <2>2. QED BY <1>2, <2>1 DEF BuildContainer, StartsNothing
<1>3. CASE \/ StartSession(w) \/ ResumeCreation(w) \/ MarkStarting(w) \/ CheckDirectories(w)
           \/ EnsureNetwork(w) \/ AwaitHealthy(w) \/ MarkRunning(w)
  BY <1>3 DEF StartSession, ResumeCreation, MarkStarting, CheckDirectories, EnsureNetwork,
              AwaitHealthy, MarkRunning, StartsNothing, docker
<1> QED BY <1>1, <1>2, <1>3 DEF StartStep

LEMMA StoppersStartNothing ==
    ASSUME Inductive, NEW w \in Threads, StopStep(w)
    PROVE  StartsNothing
<1>1. CASE StopInspect(w) \/ StopIsolate(w) \/ StopStop(w)
  BY <1>1, CallsStartNothing DEF StopInspect, StopIsolate, StopStop
<1>2. CASE StopSession(w) \/ StopCheck(w) \/ MarkStopped(w)
  BY <1>2 DEF StopSession, StopCheck, MarkStopped, StartsNothing, docker
<1> QED BY <1>1, <1>2 DEF StopStep

LEMMA DeletersStartNothing ==
    ASSUME Inductive, NEW w \in Threads, DeleteStep(w)
    PROVE  StartsNothing
<1>1. CASE DeleteInspect(w) \/ DeleteStop(w)
  BY <1>1, CallsStartNothing DEF DeleteInspect, DeleteStop
<1>2. CASE RemoveContainer(w)
  <2>1. cont \in [Ids -> Containers] /\ "none" \notin Running
    BY DEF Inductive, TypeOK, Running
  <2>2. QED BY <1>2, <2>1 DEF RemoveContainer, StartsNothing
<1>3. CASE \/ DeleteSession(w) \/ MarkDeleting(w) \/ DeleteCheck(w) \/ RemoveNetwork(w)
           \/ RemoveDirectories(w) \/ DeleteRow(w) \/ ListInstances(w)
           \/ NextInstance(w) \/ FinishUserDeletion(w)
  BY <1>3 DEF DeleteSession, MarkDeleting, DeleteCheck, RemoveNetwork, RemoveDirectories,
              DeleteRow, ListInstances, NextInstance, FinishUserDeletion, StartsNothing,
              docker
<1> QED BY <1>1, <1>2, <1>3 DEF DeleteStep

LEMMA RepairersStartNothing ==
    ASSUME Inductive, NEW w \in Threads, RepairStep(w)
    PROVE  StartsNothing
<1>1. CASE ReconcileIsolate(w) \/ ReconcileStop(w)
  BY <1>1, CallsStartNothing DEF ReconcileIsolate, ReconcileStop
<1>2. CASE ReconcileExhausted(w)
  <2>1. cont \in [Ids -> Containers] /\ "exited" \notin Running
    BY DEF Inductive, TypeOK, Running
  <2>2. QED BY <1>2, <2>1 DEF ReconcileExhausted, StartsNothing
<1>3. CASE \/ ReconcileDeleted(w) \/ ReconcileInspect(w) \/ ReconcileDirectories(w)
           \/ SettleLegacy(w) \/ SettleStopped(w) \/ SettleHealthy(w)
           \/ SettleExhausted(w) \/ SettleLater(w) \/ SettleRetry(w)
           \/ ReconcileHealthy(w) \/ ReconcileReset(w)
  BY <1>3 DEF ReconcileDeleted, ReconcileInspect, ReconcileDirectories, SettleLegacy,
              SettleStopped, SettleHealthy, SettleExhausted, SettleLater, SettleRetry,
              ReconcileHealthy, ReconcileReset, StartsNothing, docker
<1> QED BY <1>1, <1>2, <1>3 DEF RepairStep

LEMMA OthersStartNothing ==
    ASSUME Inductive, SweepStep \/ Environment \/ UNCHANGED vars
    PROVE  StartsNothing
<1> USE DEF docker
<1>1. CASE SweepStep
  BY <1>1 DEF SweepStep, SweepBegin, SweepList, SweepEnd, SweepUser, SweepInstance, Submit,
              StartsNothing
<1>2. ASSUME NEW i \in Ids, NEW c \in Containers, HealthChanges(i, c) \/ ContainerDies(i, c)
      PROVE  StartsNothing
  <2>1. /\ cont \in [Ids -> Containers] /\ cont' = [cont EXCEPT ![i] = c]
        /\ c \in Running => cont[i] \in Running
    BY <1>2 DEF HealthChanges, ContainerDies, Inductive, TypeOK, Running
  <2>2. QED BY <2>1 DEF StartsNothing
<1>3. CASE /\ Environment
           /\ \A i \in Ids, c \in Containers : ~HealthChanges(i, c) /\ ~ContainerDies(i, c)
  <2>1. cont' = cont
    BY <1>3 DEF Environment, SetUserStatus, UpdateUserQuota, DataLost, BackoffElapses,
                Shutdown, Restart, Containers
  <2>2. QED BY <2>1 DEF StartsNothing
<1>4. CASE UNCHANGED vars
  BY <1>4 DEF vars, StartsNothing
<1> QED BY <1>1, <1>2, <1>3, <1>4

LEMMA OnlyBootStarts ==
    ASSUME Inductive, [Next]_vars
    PROVE  StartsNothing \/ \E w \in Threads : BootContainer(w)
<1>1. ASSUME NEW w \in Threads,
             \/ Acquire(w) \/ Refuse(w) \/ CreateInQuota(w) \/ CreateRejected(w)
             \/ MakeDirectories(w) \/ SpawnTask(w) \/ BeginUpload(w) \/ EndUpload(w)
             \/ GiveUp(w) \/ Cancelled(w) \/ Submission(w)
             \/ \E t \in tasks : RunTask(w, t)
      PROVE  StartsNothing
  BY <1>1 DEF Acquire, Refuse, CreateInQuota, CreateRejected, MakeDirectories, SpawnTask,
              BeginUpload, EndUpload, GiveUp, Cancelled, Submission, RequestCreate,
              RequestOnInstance, RequestDeleteUser, Request, Submit, RunTask,
              StartsNothing, docker
<1> QED BY <1>1, StartersStartNothing, StoppersStartNothing, DeletersStartNothing,
           RepairersStartNothing, OthersStartNothing DEF Next, HandlerStep

LEMMA WantedStart ==
    ASSUME Inductive, [Next]_vars, NEW i \in Ids,
           cont[i] \notin Running, cont'[i] \in Running
    PROVE  /\ row[i] # None /\ row[i].desired = "running"
           /\ user[row[i].owner] # "absent"
<1>1. PICK w \in Threads : BootContainer(w)
  BY OnlyBootStarts DEF StartsNothing
<1>2. pc[w] = "boot" /\ cont \in [Ids -> Containers]
  BY <1>1 DEF BootContainer, Inductive, TypeOK
<1>3. i = job[w].id
  BY <1>1, <1>2 DEF BootContainer
<1>4. pc[w] \in RowSteps /\ pc[w] \in StartSteps \ {"mark"}
  BY <1>2 DEF RowSteps, StartSteps
<1>5. sess[w].desired = "running"
  BY <1>4 DEF Inductive, ThreadInv, HasCome, Reached
<1>6. row[i] # None /\ row[i].desired = "running"
  BY <1>3, <1>4, <1>5, InHand, IdentityAssumption
<1> QED BY <1>6 DEF Inductive, NoOrphanResources

-----------------------------------------------------------------------------
(* Only StartSession and ResumeCreation begin a start under the lock they got.*)

BeginsNone == \A w \in Threads : pc[w] \in EntrySteps => pc'[w] \notin StartSteps

\* A step of v to a step that is none of the start, or from one under way.
LEMMA ThreadBeginsNone ==
    ASSUME Inductive, NEW v \in Threads, NEW step, Goto(v, step),
           step \notin StartSteps \/ pc[v] \notin EntrySteps
    PROVE  BeginsNone
<1>1. pc \in [Threads -> Steps] /\ StartSteps \cap EntrySteps = {}
  BY StepKinds DEF Inductive, TypeOK
<1> QED BY <1>1 DEF Goto, BeginsNone

LEMMA StillBeginsNone == ASSUME Inductive, pc' = pc PROVE BeginsNone
BY StepKinds DEF BeginsNone

LEMMA ReturnBeginsNone ==
    ASSUME Inductive, NEW v \in Threads, NEW ok, Return(v, ok)
    PROVE  BeginsNone
<1>1. "idle" \notin StartSteps /\ "nextInstance" \notin StartSteps
  BY DEF StartSteps
<1>2. Goto(v, "idle") \/ Goto(v, "nextInstance")
  BY DEF Return, Release
<1> QED BY <1>1, <1>2, ThreadBeginsNone

LEMMA CallsBeginNone ==
    ASSUME Inductive, NEW v \in Threads, NEW a, NEW b,
           Inspect(v, a, b) \/ Isolate(v, a) \/ StopContainer(v, a),
           (a \notin StartSteps /\ b \notin StartSteps) \/ pc[v] \notin EntrySteps
    PROVE  BeginsNone
<1>1. \/ Return(v, FALSE) \/ Goto(v, a) \/ Goto(v, IF cont[job[v].id] = "none" THEN a ELSE b)
  BY DEF Inspect, Isolate, StopContainer, Fail
<1>2. CASE Return(v, FALSE)
  BY <1>2, ReturnBeginsNone
<1>3. CASE Goto(v, a)
  BY <1>3, ThreadBeginsNone
<1>4. CASE Goto(v, IF cont[job[v].id] = "none" THEN a ELSE b)
  BY <1>4, ThreadBeginsNone
<1> QED BY <1>1, <1>2, <1>3, <1>4

LEMMA StartersBeginNone ==
    ASSUME Inductive, NEW v \in Threads, StartStep(v), ~StartSession(v), ~ResumeCreation(v)
    PROVE  BeginsNone
<1>1. StartSteps \cap EntrySteps = {}
  BY StepKinds
<1>2. CASE StartInspect(v) \/ StartIsolate(v) \/ StartRestop(v)
  <2>1. pc[v] \notin EntrySteps
    BY <1>2 DEF StartInspect, StartIsolate, StartRestop, EntrySteps
  <2> QED BY <1>2, <2>1, CallsBeginNone DEF StartInspect, StartIsolate, StartRestop
<1>3. CASE \/ MarkStarting(v) \/ CheckDirectories(v) \/ EnsureNetwork(v) \/ BuildContainer(v)
           \/ BootContainer(v) \/ AwaitHealthy(v) \/ MarkRunning(v)
  <2>1. pc[v] \notin EntrySteps
    BY <1>3 DEF MarkStarting, CheckDirectories, EnsureNetwork, BuildContainer, BootContainer,
                AwaitHealthy, MarkRunning, EntrySteps
  <2>2. \/ Return(v, TRUE) \/ Return(v, FALSE)
        \/ \E step \in Steps : Goto(v, step)
    BY <1>3 DEF MarkStarting, CheckDirectories, EnsureNetwork, BuildContainer, BootContainer,
                AwaitHealthy, MarkRunning, Fail, Steps, LockedSteps, RowSteps, StartSteps
  <2> QED BY <2>1, <2>2, ThreadBeginsNone, ReturnBeginsNone
<1> QED BY <1>2, <1>3 DEF StartStep

LEMMA StoppersBeginNone ==
    ASSUME Inductive, NEW v \in Threads, StopStep(v)
    PROVE  BeginsNone
<1>1. CASE StopInspect(v) \/ StopIsolate(v) \/ StopStop(v)
  <2>1. pc[v] \notin EntrySteps
    BY <1>1 DEF StopInspect, StopIsolate, StopStop, EntrySteps
  <2> QED BY <1>1, <2>1, CallsBeginNone DEF StopInspect, StopIsolate, StopStop
<1>2. CASE StopSession(v) \/ StopCheck(v) \/ MarkStopped(v)
  <2>1. \/ Return(v, TRUE) \/ Return(v, FALSE)
        \/ Goto(v, "stopInspect") \/ Goto(v, "stopDone")
    BY <1>2 DEF StopSession, StopCheck, MarkStopped, Fail
  <2>2. "stopInspect" \notin StartSteps /\ "stopDone" \notin StartSteps
    BY DEF StartSteps
  <2> QED BY <2>1, <2>2, ThreadBeginsNone, ReturnBeginsNone
<1> QED BY <1>1, <1>2 DEF StopStep

LEMMA DeletersBeginNone ==
    ASSUME Inductive, NEW v \in Threads, DeleteStep(v)
    PROVE  BeginsNone
<1>1. CASE DeleteInspect(v) \/ DeleteStop(v)
  <2>1. pc[v] \notin EntrySteps
    BY <1>1 DEF DeleteInspect, DeleteStop, EntrySteps
  <2>2. CASE DeleteInspect(v)
    <3>1. \/ Fault /\ Goto(v, "delNetwork")
          \/ \E a, b \in Steps : Inspect(v, a, b)
          \/ Return(v, FALSE)
      BY <2>2 DEF DeleteInspect, Fail, Steps, LockedSteps, RowSteps, DeleteSteps
    <3> QED BY <2>1, <3>1, CallsBeginNone, ThreadBeginsNone, ReturnBeginsNone
  <2>3. CASE DeleteStop(v)
    BY <2>1, <2>3, CallsBeginNone DEF DeleteStop
  <2> QED BY <1>1, <2>2, <2>3
<1>2. CASE \/ DeleteSession(v) \/ MarkDeleting(v) \/ RemoveContainer(v) \/ DeleteCheck(v)
           \/ RemoveNetwork(v) \/ RemoveDirectories(v) \/ DeleteRow(v)
           \/ ListInstances(v) \/ NextInstance(v) \/ FinishUserDeletion(v)
  <2>1. \/ Return(v, TRUE) \/ Return(v, FALSE)
        \/ Goto(v, "idle") \/ Goto(v, "nextInstance") \/ Goto(v, "delMark")
        \/ Goto(v, "delInspect") \/ Goto(v, "delCheck") \/ Goto(v, "delNetwork")
        \/ Goto(v, "delDirs") \/ Goto(v, "delRow")
    BY <1>2 DEF DeleteSession, MarkDeleting, RemoveContainer, DeleteCheck, RemoveNetwork,
                RemoveDirectories, DeleteRow, ListInstances, NextInstance,
                FinishUserDeletion, DeletionFailed, Fail, Release
  <2>2. {"idle", "nextInstance", "delMark", "delInspect", "delCheck", "delNetwork",
         "delDirs", "delRow"} \cap StartSteps = {}
    BY DEF StartSteps
  <2> QED BY <2>1, <2>2, ThreadBeginsNone, ReturnBeginsNone
<1> QED BY <1>1, <1>2 DEF DeleteStep

LEMMA RepairersBeginNone ==
    ASSUME Inductive, NEW v \in Threads, RepairStep(v)
    PROVE  BeginsNone
<1>1. CASE ReconcileIsolate(v) \/ ReconcileStop(v)
  <2>1. pc[v] \notin EntrySteps
    BY <1>1 DEF ReconcileIsolate, ReconcileStop, EntrySteps
  <2> QED BY <1>1, <2>1, CallsBeginNone DEF ReconcileIsolate, ReconcileStop
<1>2. CASE ReconcileDeleted(v) \/ ReconcileInspect(v)
  <2>1. \E step \in {"idle", "delMark", "recDirs", "recIsolate"} : Goto(v, step)
    BY <1>2 DEF ReconcileDeleted, ReconcileInspect, Release
  <2>2. {"idle", "delMark", "recDirs", "recIsolate"} \cap StartSteps = {}
    BY DEF StartSteps
  <2> QED BY <2>1, <2>2, ThreadBeginsNone
<1>3. CASE \/ ReconcileDirectories(v) \/ SettleLegacy(v) \/ SettleStopped(v) \/ SettleHealthy(v)
           \/ SettleExhausted(v) \/ SettleLater(v) \/ SettleRetry(v) \/ ReconcileHealthy(v)
           \/ ReconcileReset(v) \/ ReconcileExhausted(v)
  <2>1. pc[v] \notin EntrySteps
    <3>1. pc[v] \in {"recDirs", "recSettle", "recHealthy", "recReset", "recExhausted"}
      BY <1>3 DEF ReconcileDirectories, SettleLegacy, SettleStopped, SettleHealthy,
                  SettleExhausted, SettleLater, SettleRetry, Wanted, ReconcileHealthy,
                  ReconcileReset, ReconcileExhausted
    <3> QED BY <3>1 DEF EntrySteps
  <2>2. \/ Return(v, FALSE) \/ pc' = pc \/ Goto(v, "idle")
        \/ Goto(v, "recSettle") \/ Goto(v, "stopInspect") \/ Goto(v, "recHealthy")
        \/ Goto(v, "recExhausted") \/ Goto(v, "recReset")
        \/ Goto(v, "recStop") \/ Goto(v, "mark")
    BY <1>3 DEF ReconcileDirectories, SettleLegacy, SettleStopped, SettleHealthy, SettleExhausted,
                SettleLater, SettleRetry, ReconcileHealthy, ReconcileReset, ReconcileExhausted,
                Fail, Release
  <2> QED BY <2>1, <2>2, ThreadBeginsNone, ReturnBeginsNone, StillBeginsNone
<1> QED BY <1>1, <1>2, <1>3 DEF RepairStep

LEMMA OthersBeginNone ==
    ASSUME Inductive, SweepStep \/ Environment \/ UNCHANGED vars
    PROVE  BeginsNone
<1>1. "lock" \notin StartSteps /\ "idle" \notin StartSteps
  BY DEF StartSteps
<1>2. CASE \E v \in Threads : Goto(v, "lock")
  BY <1>1, <1>2, ThreadBeginsNone
<1>3. CASE \E d \in Deployments : Restart(d)
  BY <1>1, <1>3 DEF Restart, BeginsNone
<1>4. CASE pc' = pc
  BY <1>4, StillBeginsNone
<1>5. SweepStep => pc' = pc \/ \E v \in Threads : Goto(v, "lock")
  BY DEF SweepStep, SweepBegin, SweepList, SweepEnd, SweepUser, SweepInstance, Submit, thread,
         Threads
<1>6. Environment => pc' = pc \/ \E d \in Deployments : Restart(d)
  BY DEF Environment, SetUserStatus, UpdateUserQuota, HealthChanges, ContainerDies, DataLost,
         BackoffElapses, Shutdown, thread
<1> QED BY <1>2, <1>3, <1>4, <1>5, <1>6 DEF vars

LEMMA OnlyPermittedBegin ==
    ASSUME Inductive, [Next]_vars
    PROVE  BeginsNone \/ \E v \in Threads : StartSession(v) \/ ResumeCreation(v)
<1>1. ASSUME NEW v \in Threads,
             \/ Acquire(v) \/ Refuse(v) \/ CreateInQuota(v) \/ CreateRejected(v)
             \/ MakeDirectories(v) \/ SpawnTask(v) \/ BeginUpload(v) \/ EndUpload(v)
             \/ GiveUp(v) \/ Cancelled(v) \/ Submission(v)
             \/ \E t \in tasks : RunTask(v, t)
      PROVE  BeginsNone
  <2>1. Acquire(v) => job[v].op \in EntrySteps
    BY DEF Acquire, Inductive, ThreadInv, HoldsItsLock, Knows
  <2>2. \/ Return(v, FALSE) \/ Goto(v, "idle") \/ Goto(v, "lock") \/ Goto(v, "mkdirs")
        \/ Goto(v, "spawn") \/ Goto(v, "uploading")
        \/ job[v].op \in EntrySteps /\ Goto(v, job[v].op)
    BY <1>1, <2>1 DEF Acquire, Refuse, CreateInQuota, CreateRejected, MakeDirectories, SpawnTask,
                BeginUpload, EndUpload, GiveUp, Cancelled, Submission, RequestCreate,
                RequestOnInstance, RequestDeleteUser, Request, Submit, RunTask, Release, Fail
  <2>3. ({"idle", "lock", "mkdirs", "spawn", "uploading"} \cup EntrySteps) \cap StartSteps = {}
    BY DEF StartSteps, EntrySteps
  <2> QED BY <2>2, <2>3, ThreadBeginsNone, ReturnBeginsNone
<1> QED BY <1>1, StartersBeginNone, StoppersBeginNone, DeletersBeginNone,
           RepairersBeginNone, OthersBeginNone DEF Next, HandlerStep

LEMMA PermittedStart ==
    ASSUME Inductive, [Next]_vars, NEW w \in Threads,
           pc[w] \in EntrySteps, pc'[w] \in StartSteps
    PROVE  user[job[w].user] = "active"
<1>1. PICK v \in Threads : StartSession(v) \/ ResumeCreation(v)
  BY OnlyPermittedBegin DEF BeginsNone
<1>2. Permitted(v) /\ pc[v] \in {"start", "task"} /\ Goto(v, "mark")
  BY <1>1 DEF StartSession, ResumeCreation
<1>3. v = w
  BY <1>2, StepKinds DEF Goto, Inductive, TypeOK
<1> QED BY <1>2, <1>3 DEF Permitted

\* A container starts only for an instance that is meant to run and whose
\* account exists, whoever starts it: startLocked never trusts an older row. And
\* no request or creation task begins a start for an account that is disabled.
THEOREM OnlyWantedStarts == Spec => StartsAreWanted
<1>1. Inductive /\ [Next]_vars =>
        /\ \A i \in Ids : cont[i] \notin Running /\ cont'[i] \in Running
             => /\ row[i] # None /\ row[i].desired = "running"
                /\ user[row[i].owner] # "absent"
        /\ \A w \in Threads : pc[w] \in EntrySteps /\ pc'[w] \in StartSteps
             => user[job[w].user] = "active"
  BY WantedStart, PermittedStart
<1> QED BY <1>1, Invariance, PTL DEF Spec, StartsAreWanted

-----------------------------------------------------------------------------
(* Only MakeDirectories, RemoveDirectories, a starting container and the      *)
(* world outside touch data.                                                  *)

LEMMA DirectoriesUntouched ==
    ASSUME [Next]_vars,
           \A w \in Threads : /\ ~MakeDirectories(w) /\ ~RemoveDirectories(w)
                               /\ ~BootContainer(w),
           \A i \in Ids : ~DataLost(i)
    PROVE  dirs' = dirs
<1>1. ASSUME NEW w \in Threads, HandlerStep(w) PROVE dirs' = dirs
  <2>1. CASE StartStep(w)
    BY <2>1 DEF StartStep, StartSession, ResumeCreation, MarkStarting, StartInspect,
                StartIsolate, StartRestop, CheckDirectories, EnsureNetwork,
                BuildContainer, AwaitHealthy, MarkRunning, Inspect, Isolate,
                StopContainer
  <2>2. CASE StopStep(w)
    BY <2>2 DEF StopStep, StopSession, StopInspect, StopIsolate, StopStop, StopCheck,
                MarkStopped, Inspect, Isolate, StopContainer
  <2>3. CASE DeleteStep(w)
    BY <2>3 DEF DeleteStep, DeleteSession, MarkDeleting, DeleteInspect, DeleteStop,
                RemoveContainer, DeleteCheck, RemoveNetwork, DeleteRow, ListInstances,
                NextInstance, FinishUserDeletion, Inspect, StopContainer
  <2>4. CASE RepairStep(w)
    BY <2>4 DEF RepairStep, ReconcileDeleted, ReconcileInspect, ReconcileIsolate,
                ReconcileDirectories, SettleLegacy, SettleStopped, SettleHealthy,
                SettleExhausted, SettleLater, SettleRetry, ReconcileHealthy,
                ReconcileReset, ReconcileExhausted, ReconcileStop, Isolate, StopContainer
  <2>5. QED BY <1>1, <2>1, <2>2, <2>3, <2>4
            DEF HandlerStep, Acquire, Refuse, CreateInQuota, CreateRejected, SpawnTask,
                BeginUpload, EndUpload
<1>2. ASSUME NEW w \in Threads,
             GiveUp(w) \/ Cancelled(w) \/ Submission(w) \/ \E t \in tasks : RunTask(w, t)
      PROVE  dirs' = dirs
  BY <1>2 DEF GiveUp, Cancelled, Submission, RequestCreate, RequestOnInstance,
              RequestDeleteUser, Request, Submit, RunTask
<1>3. CASE SweepStep
  BY <1>3 DEF SweepStep, SweepBegin, SweepList, SweepEnd, SweepUser, SweepInstance, Submit
<1>4. CASE Environment
  BY <1>4 DEF Environment, SetUserStatus, UpdateUserQuota, HealthChanges, ContainerDies,
              BackoffElapses, Shutdown, Restart
<1>5. CASE UNCHANGED vars
  BY <1>5 DEF vars
<1> QED BY <1>1, <1>2, <1>3, <1>4, <1>5 DEF Next

\* The manager removes data, wholly or in part, only to complete a deletion and
\* only once the container is gone: removeDirectories comes last, and what
\* made it come is still true, however long ago the handler looked.
THEOREM DataGoesLast == Spec => DataOutlivesContainer
<1>1. Inductive /\ [Next]_vars =>
        \A i \in Ids :
          \/ dirs[i] \in Present \cup {"partial"} /\ dirs'[i] = "absent"
          \/ dirs[i] \in Present /\ dirs'[i] = "partial"
          => row[i] # None /\ row[i].desired = "deleted" /\ cont[i] = "none"
  <2> SUFFICES ASSUME Inductive, [Next]_vars, NEW i \in Ids,
                      \/ dirs[i] \in Present \cup {"partial"} /\ dirs'[i] = "absent"
                      \/ dirs[i] \in Present /\ dirs'[i] = "partial"
               PROVE  row[i] # None /\ row[i].desired = "deleted" /\ cont[i] = "none"
    OBVIOUS
  <2>1. dirs \in [Ids -> Disks]
    BY DEF Inductive, TypeOK
  <2>2. /\ \A k \in Ids : ~DataLost(k)
        /\ \A w \in Threads : ~BootContainer(w)
    BY <2>1 DEF DataLost, BootContainer, Present
  <2>3. ASSUME NEW w \in Threads, MakeDirectories(w) PROVE FALSE
    <3>1. pc[w] = "mkdirs" /\ pc[w] \in RowSteps
      BY <2>3 DEF MakeDirectories, RowSteps
    <3>2. job[w].id \in Ids /\ dirs[job[w].id] = "absent"
      BY <3>1, InHand DEF Inductive, ThreadInv, HasCome, Reached
    <3>3. \A k \in Ids \ {job[w].id} : dirs'[k] = dirs[k]
      BY <2>1, <2>3 DEF MakeDirectories
    <3>4. QED BY <3>2, <3>3 DEF Present
  <2>4. PICK w \in Threads : RemoveDirectories(w)
    BY <2>2, <2>3, DirectoriesUntouched DEF Present
  <2>5. pc[w] = "delDirs" /\ pc[w] \in RowSteps /\ pc[w] \in DeleteSteps \ {"delMark"}
    BY <2>4 DEF RemoveDirectories, RowSteps, DeleteSteps
  <2>6. i = job[w].id
    BY <2>1, <2>4 DEF RemoveDirectories, Present
  <2>7. sess[w].desired = "deleted" /\ cont[i] = "none"
    BY <2>5, <2>6 DEF Inductive, ThreadInv, HasCome, Reached
  <2>8. QED BY <2>5, <2>6, <2>7, InHand, IdentityAssumption
<1> QED BY <1>1, Invariance, PTL DEF Spec, DataOutlivesContainer

-----------------------------------------------------------------------------
(* What an instance is meant to be changes in four places only, and its row   *)
(* comes and goes in two.                                                     *)

\* A row keeps its owner and its request.
SameName(i) == Exists(i) /\ Exists(i)' => /\ row'[i].owner = row[i].owner
                                           /\ row'[i].key = row[i].key

IntentKept ==
    \A i \in Ids : /\ Exists(i) <=> Exists(i)'
                   /\ Exists(i) => row'[i].desired = row[i].desired
                   /\ SameName(i)

LEMMA RowKept ==
    ASSUME row' = row
    PROVE  IntentKept
  BY DEF IntentKept, SameName, Exists

\* A handler that rewrites the row in its hand keeps it a row.
LEMMA UpdatesKeepIntent ==
    ASSUME Inductive, NEW w \in Threads, HasInHand(w), Updates(w),
           row'[job[w].id].desired = row[job[w].id].desired
    PROVE  IntentKept
  BY IdentityAssumption DEF Updates, HasInHand, IntentKept, SameName, Exists

LEMMA WriteKeepsIntent ==
    ASSUME Inductive, NEW w \in Threads, HasInHand(w), NEW s \in Statuses,
           NEW e \in BOOLEAN, Write(w, s, row[job[w].id].desired, e)
    PROVE  IntentKept
<1>1. row[job[w].id].desired \in Intents
  BY DEF HasInHand, Row
<1> QED BY <1>1, Written, UpdatesKeepIntent

\* recordFailure keeps the desired state it finds in the handler's copy, which
\* is the one in the row.
LEMMA FailKeepsIntent ==
    ASSUME Inductive, NEW w \in Threads, pc[w] \in RowSteps,
           NEW s \in {"error", "unknown"}, Fail(w, s)
    PROVE  IntentKept
<1>1. s \in Statuses
  BY DEF Statuses
<1> QED BY <1>1, InHand, WriteKeepsIntent DEF Fail

LEMMA CountKeepsIntent ==
    ASSUME Inductive, NEW w \in Threads, HasInHand(w), NEW n \in Nat, NEW b \in BOOLEAN,
           row' = [row EXCEPT ![job[w].id] = [@ EXCEPT !.attempts = n, !.wait = b]]
    PROVE  IntentKept
  BY Recounted, UpdatesKeepIntent

LEMMA CallsKeepIntent ==
    ASSUME Inductive, NEW w \in Threads, pc[w] \in RowSteps, NEW a, NEW b,
           Inspect(w, a, b) \/ Isolate(w, a) \/ StopContainer(w, a)
    PROVE  IntentKept
  BY RowKept, FailKeepsIntent DEF Inspect, Isolate, StopContainer

LEMMA StartersKeepIntent ==
    ASSUME Inductive, NEW w \in Threads, StartStep(w),
           MarkStarting(w) => job[w].op # "start"
    PROVE  IntentKept
<1>1. CASE StartInspect(w) \/ StartIsolate(w) \/ StartRestop(w)
  <2>1. pc[w] \in RowSteps
    BY <1>1 DEF StartInspect, StartIsolate, StartRestop, RowSteps, StartSteps
  <2>2. QED BY <1>1, <2>1, CallsKeepIntent DEF StartInspect, StartIsolate, StartRestop
<1>2. CASE \/ CheckDirectories(w) \/ EnsureNetwork(w) \/ BuildContainer(w)
           \/ BootContainer(w) \/ AwaitHealthy(w) \/ ResumeCreation(w)
  <2>1. row' = row \/ (Fail(w, "error") /\ pc[w] \in RowSteps)
    BY <1>2 DEF CheckDirectories, EnsureNetwork, BuildContainer, BootContainer, AwaitHealthy,
                ResumeCreation, RowSteps, StartSteps
  <2>2. QED BY <2>1, RowKept, FailKeepsIntent
<1>3. CASE StartSession(w)
  <2>1. HasInHand(w)
    BY <1>3, Chosen DEF StartSession, EntrySteps
  <2>2. QED BY <1>3, <2>1, CountKeepsIntent DEF StartSession, HasInHand
<1>4. CASE MarkStarting(w) \/ MarkRunning(w)
  <2>1. pc[w] \in RowSteps /\ pc[w] \in StartSteps
    BY <1>4 DEF MarkStarting, MarkRunning, RowSteps, StartSteps
  <2>2. sess[w].desired = "running"
    <3>1. pc[w] = "ready" \/ (pc[w] = "mark" /\ job[w].op # "start")
      BY <1>4 DEF MarkStarting, MarkRunning
    <3>2. QED BY <2>1, <3>1 DEF Inductive, ThreadInv, HasCome, Reached
  <2>3. HasInHand(w) /\ row[job[w].id].desired = "running"
    BY <2>1, <2>2, InHand
  <2>4. QED BY <1>4, <2>3, WriteKeepsIntent
            DEF MarkStarting, MarkRunning, Commit, Statuses
<1> QED BY <1>1, <1>2, <1>3, <1>4 DEF StartStep

LEMMA StoppersKeepIntent ==
    ASSUME Inductive, NEW w \in Threads, StopStep(w), ~StopSession(w)
    PROVE  IntentKept
<1>1. pc[w] \in StopSteps /\ pc[w] \in RowSteps
  BY DEF StopStep, StopInspect, StopIsolate, StopStop, StopCheck, MarkStopped,
         StopSteps, RowSteps
<1>2. CASE StopInspect(w) \/ StopIsolate(w) \/ StopStop(w)
  BY <1>1, <1>2, CallsKeepIntent DEF StopInspect, StopIsolate, StopStop
<1>3. CASE StopCheck(w)
  BY <1>1, <1>3, RowKept, FailKeepsIntent DEF StopCheck
<1>4. CASE MarkStopped(w)
  <2>1. sess[w].desired = "stopped"
    BY <1>1 DEF Inductive, ThreadInv, HasCome, Reached
  <2>2. HasInHand(w) /\ row[job[w].id].desired = "stopped"
    BY <1>1, <2>1, InHand
  <2>3. QED BY <1>4, <2>2, WriteKeepsIntent DEF MarkStopped, Statuses
<1> QED BY <1>2, <1>3, <1>4 DEF StopStep

LEMMA DeletersKeepIntent ==
    ASSUME Inductive, NEW w \in Threads, DeleteStep(w), ~MarkDeleting(w), ~DeleteRow(w)
    PROVE  IntentKept
<1>1. CASE DeleteInspect(w) \/ DeleteStop(w)
  <2>1. pc[w] \in RowSteps
    BY <1>1 DEF DeleteInspect, DeleteStop, RowSteps, DeleteSteps
  <2>2. QED BY <1>1, <2>1, CallsKeepIntent DEF DeleteInspect, DeleteStop
<1>2. CASE RemoveContainer(w) \/ DeleteCheck(w) \/ RemoveNetwork(w) \/ RemoveDirectories(w)
  <2>1. pc[w] \in RowSteps /\ (row' = row \/ Fail(w, "error") \/ Fail(w, "unknown"))
    BY <1>2 DEF RemoveContainer, DeleteCheck, RemoveNetwork, RemoveDirectories,
                RowSteps, DeleteSteps
  <2>2. QED BY <2>1, RowKept, FailKeepsIntent
<1>3. CASE \/ DeleteSession(w) \/ ListInstances(w) \/ NextInstance(w)
           \/ FinishUserDeletion(w)
  BY <1>3, RowKept DEF DeleteSession, ListInstances, NextInstance, FinishUserDeletion
<1> QED BY <1>1, <1>2, <1>3 DEF DeleteStep

LEMMA RepairersKeepIntent ==
    ASSUME Inductive, NEW w \in Threads, RepairStep(w), ~SettleLegacy(w)
    PROVE  IntentKept
<1>1. CASE ReconcileDeleted(w) \/ SettleHealthy(w) \/ SettleLater(w)
  BY <1>1, RowKept DEF ReconcileDeleted, SettleHealthy, SettleLater
<1>2. CASE ReconcileInspect(w)
  <2>1. HasInHand(w)
    BY <1>2, Chosen DEF ReconcileInspect, EntrySteps
  <2>2. QED BY <1>2, <2>1, RowKept, WriteKeepsIntent DEF ReconcileInspect, Statuses
<1>3. ASSUME pc[w] \in RepairSteps PROVE IntentKept
  <2>1. pc[w] \in RowSteps /\ HasInHand(w) /\ job[w].id \in Ids /\ row[job[w].id] \in Row
        /\ row[job[w].id].desired = sess[w].desired
    BY <1>3, InHand DEF RowSteps
  <2>2. CASE ReconcileIsolate(w) \/ ReconcileStop(w)
    BY <2>1, <2>2, CallsKeepIntent DEF ReconcileIsolate, ReconcileStop
  <2>3. CASE \/ ReconcileDirectories(w) \/ SettleStopped(w) \/ SettleExhausted(w)
             \/ ReconcileExhausted(w)
    BY <2>1, <2>3, RowKept, FailKeepsIntent
       DEF ReconcileDirectories, SettleStopped, SettleExhausted, ReconcileExhausted
  <2>4. CASE SettleRetry(w)
    <3>1. sess[w].attempts + 1 \in Nat
      BY <2>1, InHand DEF Row
    <3>2. row' = [row EXCEPT ![job[w].id] =
                    [@ EXCEPT !.attempts = sess[w].attempts + 1, !.wait = TRUE]]
      BY <2>4 DEF SettleRetry
    <3>3. QED BY <2>1, <3>1, <3>2, CountKeepsIntent
  <2>5. CASE ReconcileHealthy(w)
    <3>1. sess[w].desired = "running"
      BY <2>1, <2>5 DEF ReconcileHealthy, Inductive, ThreadInv, HasCome, Reached
    <3>2. QED BY <2>1, <2>5, <3>1, WriteKeepsIntent DEF ReconcileHealthy, Statuses
  <2>6. CASE ReconcileReset(w)
    BY <2>1, <2>6, CountKeepsIntent DEF ReconcileReset
  <2>7. QED BY <1>1, <1>2, <2>2, <2>3, <2>4, <2>5, <2>6 DEF RepairStep
<1>4. pc[w] \in RepairSteps \/ ReconcileDeleted(w) \/ ReconcileInspect(w)
  BY DEF RepairStep, ReconcileIsolate, ReconcileDirectories, SettleStopped, SettleHealthy,
         SettleExhausted, SettleLater, SettleRetry, ReconcileHealthy, ReconcileReset,
         ReconcileExhausted, ReconcileStop, Wanted, RepairSteps
<1> QED BY <1>1, <1>2, <1>3, <1>4

LEMMA OthersKeepIntent ==
    ASSUME Inductive,
           \/ SweepStep \/ Environment \/ UNCHANGED vars
           \/ \E w \in Threads :
                \/ Acquire(w) \/ Refuse(w) \/ CreateRejected(w) \/ MakeDirectories(w)
                \/ SpawnTask(w) \/ BeginUpload(w) \/ EndUpload(w) \/ GiveUp(w)
                \/ Cancelled(w) \/ Submission(w) \/ \E t \in tasks : RunTask(w, t)
    PROVE  IntentKept
<1>1. CASE SweepStep
  BY <1>1, RowKept DEF SweepStep, SweepBegin, SweepList, SweepEnd, SweepUser,
                       SweepInstance, Submit
<1>2. CASE Environment /\ \A i \in Ids : ~BackoffElapses(i)
  BY <1>2, RowKept DEF Environment, SetUserStatus, UpdateUserQuota, HealthChanges,
                       ContainerDies, DataLost, Shutdown, Restart
<1>3. ASSUME NEW i \in Ids, BackoffElapses(i) PROVE IntentKept
  <2> DEFINE new == [row[i] EXCEPT !.wait = FALSE]
  <2>1. row \in [Ids -> Row \cup {None}] /\ row[i] \in Row
    BY <1>3 DEF BackoffElapses, Inductive, TypeOK
  <2>2. /\ new \in Row /\ new.desired = row[i].desired
        /\ new.owner = row[i].owner /\ new.key = row[i].key
    BY <2>1 DEF Row
  <2>3. row' = [row EXCEPT ![i] = new]
    BY <1>3 DEF BackoffElapses
  <2> HIDE DEF new
  <2>4. QED BY <2>1, <2>2, <2>3, IdentityAssumption DEF IntentKept, SameName, Exists
<1>4. CASE UNCHANGED vars
  BY <1>4, RowKept DEF vars
<1>5. ASSUME NEW w \in Threads, MakeDirectories(w) PROVE IntentKept
  <2>1. pc[w] \in RowSteps /\ (row' = row \/ Fail(w, "error"))
    BY <1>5 DEF MakeDirectories, RowSteps
  <2>2. QED BY <2>1, RowKept, FailKeepsIntent
<1>6. ASSUME NEW w \in Threads,
             \/ Acquire(w) \/ Refuse(w) \/ CreateRejected(w) \/ SpawnTask(w)
             \/ BeginUpload(w) \/ EndUpload(w) \/ GiveUp(w) \/ Cancelled(w)
             \/ Submission(w) \/ \E t \in tasks : RunTask(w, t)
      PROVE  IntentKept
  BY <1>6, RowKept
     DEF Acquire, Refuse, CreateRejected, SpawnTask, BeginUpload, EndUpload, GiveUp,
         Cancelled, Submission, RequestCreate, RequestOnInstance, RequestDeleteUser,
         Request, Submit, RunTask
<1> QED BY <1>1, <1>2, <1>3, <1>4, <1>5, <1>6

\* A request to start, a request to stop, a deletion, the settling of a
\* migrated instance.
Decides(w) == \/ MarkStarting(w) /\ job[w].op = "start"
              \/ StopSession(w) \/ MarkDeleting(w) \/ SettleLegacy(w)

LEMMA IntentMoves ==
    ASSUME Inductive, [Next]_vars, ~IntentKept
    PROVE  \E w \in Threads : Decides(w) \/ CreateInQuota(w) \/ DeleteRow(w)
  BY StartersKeepIntent, StoppersKeepIntent, DeletersKeepIntent, RepairersKeepIntent,
     OthersKeepIntent DEF Next, HandlerStep, Decides

\* What a decision leaves of the row of the handler's instance.
LEMMA Decided ==
    ASSUME Inductive, NEW w \in Threads, Decides(w)
    PROVE  /\ Updates(w) /\ HasInHand(w)
           /\ row'[job[w].id].desired \in {"running", "stopped", "deleted"}
<1>1. CASE MarkStarting(w) \/ MarkDeleting(w) \/ SettleLegacy(w)
  <2>1. pc[w] \in RowSteps
    BY <1>1 DEF MarkStarting, MarkDeleting, SettleLegacy, RowSteps, StartSteps, DeleteSteps,
                RepairSteps
  <2>2. sess[w].status \in Statuses /\ HasInHand(w)
    BY <2>1, InHand DEF Row
  <2>3. PICK s \in Statuses, d \in {"running", "stopped", "deleted"} : Commit(w, s, d)
    BY <1>1, <2>2 DEF MarkStarting, MarkDeleting, SettleLegacy, Statuses
  <2>4. d \in Intents
    BY DEF Intents
  <2>5. QED BY <2>1, <2>2, <2>3, <2>4, Committed
<1>2. CASE StopSession(w)
  <2>1. HasInHand(w)
    BY <1>2, Chosen DEF StopSession, EntrySteps
  <2>2. QED BY <1>2, <2>1, Written DEF StopSession, Statuses, Intents
<1> QED BY <1>1, <1>2 DEF Decides

LEMMA IntentChanges ==
    ASSUME Inductive, [Next]_vars, NEW i \in Ids, Exists(i), Exists(i)',
           row'[i].desired # row[i].desired
    PROVE  \E w \in Threads : job[w].id = i /\ Decides(w)
<1>1. PICK w \in Threads : Decides(w) \/ CreateInQuota(w) \/ DeleteRow(w)
  BY IntentMoves DEF IntentKept
<1>2. row \in [Ids -> Row \cup {None}] /\ i \in issued
  BY DEF Inductive, TypeOK, Issued
<1>3. ~CreateInQuota(w) /\ ~DeleteRow(w)
  BY <1>2 DEF CreateInQuota, DeleteRow, Exists
<1> QED BY <1>1, <1>3, Decided DEF Updates

LEMMA NamesStay ==
    ASSUME Inductive, [Next]_vars, NEW i \in Ids
    PROVE  SameName(i)
<1>1. SUFFICES ASSUME Exists(i), Exists(i)', NEW w \in Threads,
                      Decides(w) \/ CreateInQuota(w) \/ DeleteRow(w)
               PROVE  SameName(i)
  BY IntentMoves DEF IntentKept, SameName
<1>2. row \in [Ids -> Row \cup {None}] /\ i \in issued
  BY <1>1 DEF Inductive, TypeOK, Issued
<1>3. CASE CreateInQuota(w) \/ DeleteRow(w)
  BY <1>1, <1>2, <1>3 DEF CreateInQuota, DeleteRow, SameName, Exists
<1> QED BY <1>1, <1>3, Decided DEF Updates, SameName

LEMMA RowComes ==
    ASSUME Inductive, [Next]_vars, NEW i \in Ids, ~Exists(i), Exists(i)'
    PROVE  \E w \in Threads : CreateInQuota(w)
<1>1. PICK w \in Threads : Decides(w) \/ CreateInQuota(w) \/ DeleteRow(w)
  BY IntentMoves DEF IntentKept
<1>2. row \in [Ids -> Row \cup {None}]
  BY DEF Inductive, TypeOK
<1>3. ~DeleteRow(w)
  BY <1>2 DEF DeleteRow, Exists
<1>4. ~Decides(w)
  BY Decided, IdentityAssumption DEF Updates, HasInHand, Exists
<1> QED BY <1>1, <1>3, <1>4

LEMMA RowGoes ==
    ASSUME Inductive, [Next]_vars, NEW i \in Ids, Exists(i), ~Exists(i)'
    PROVE  \E w \in Threads : job[w].id = i /\ DeleteRow(w)
<1>1. PICK w \in Threads : Decides(w) \/ CreateInQuota(w) \/ DeleteRow(w)
  BY IntentMoves DEF IntentKept
<1>2. row \in [Ids -> Row \cup {None}] /\ i \in issued
  BY DEF Inductive, TypeOK, Issued
<1>3. ~CreateInQuota(w)
  BY <1>2 DEF CreateInQuota, Exists
<1>4. ~Decides(w)
  BY Decided, IdentityAssumption DEF Updates, HasInHand, Exists
<1> QED BY <1>1, <1>2, <1>3, <1>4 DEF DeleteRow, Exists

\* A stop lasts until the owner starts the instance or deletes it: neither the
\* creation task still waiting, nor recovery, nor a late failure overrules it.
THEOREM OnlyOwnersOverrule == Spec => StopsAreRespected
<1>1. Inductive /\ [Next]_vars =>
        \A i \in Ids :
          /\ row[i] # None /\ row[i].desired = "stopped"
          /\ row'[i] # None /\ row'[i].desired # "stopped"
          => \E w \in Threads :
               /\ job[w].id = i
               /\ pc[w] = "delMark" \/ (pc[w] = "mark" /\ job[w].op = "start")
  <2> SUFFICES ASSUME Inductive, [Next]_vars, NEW i \in Ids,
                      row[i] # None /\ row[i].desired = "stopped",
                      row'[i] # None /\ row'[i].desired # "stopped"
               PROVE  \E w \in Threads :
                        /\ job[w].id = i
                        /\ pc[w] = "delMark" \/ (pc[w] = "mark" /\ job[w].op = "start")
    OBVIOUS
  <2>1. PICK w \in Threads : job[w].id = i /\ Decides(w)
    BY IntentChanges DEF Exists
  <2>2. ~SettleLegacy(w)
    <3>1. SettleLegacy(w) => pc[w] \in RowSteps /\ sess[w].desired = "legacy_expired"
      BY DEF SettleLegacy, RowSteps, RepairSteps
    <3>2. QED BY <2>1, <3>1, InHand
  <2>3. ~StopSession(w)
    <3>1. ASSUME StopSession(w) PROVE row'[i].desired = "stopped"
      BY <2>1, <3>1, Chosen, Written
         DEF StopSession, EntrySteps, Statuses, Intents
    <3>2. QED BY <3>1
  <2>4. QED BY <2>1, <2>2, <2>3 DEF Decides, MarkStarting, MarkDeleting
<1> QED BY <1>1, Invariance, PTL DEF Spec, StopsAreRespected

-----------------------------------------------------------------------------
(* Deletions.                                                                 *)

LEMMA FrozenAccounts ==
    ASSUME Inductive, [Next]_vars, NEW u \in Users, user[u] \in Frozen
    PROVE  user'[u] \in Frozen \cup {"absent"}
<1> USE DEF account
<1>1. user \in [Users -> Accounts] /\ "deleting" \in Frozen /\ "delete_failed" \in Frozen
  BY DEF Inductive, TypeOK, Frozen
<1>2. ASSUME NEW w \in Threads, HandlerStep(w)
      PROVE  \/ user' = user
             \/ DeletionFailed(w)
             \/ user' = [user EXCEPT ![job[w].user] = "absent"]
  <2>1. CASE StartStep(w)
    BY <2>1 DEF StartStep, StartSession, ResumeCreation, MarkStarting, StartInspect,
                StartIsolate, StartRestop, CheckDirectories, EnsureNetwork,
                BuildContainer, BootContainer, AwaitHealthy, MarkRunning,
                Inspect, Isolate, StopContainer
  <2>2. CASE StopStep(w)
    BY <2>2 DEF StopStep, StopSession, StopInspect, StopIsolate, StopStop, StopCheck,
                MarkStopped, Inspect, Isolate, StopContainer
  <2>3. CASE DeleteStep(w)
    BY <2>3 DEF DeleteStep, DeleteSession, MarkDeleting, DeleteInspect, DeleteStop,
                RemoveContainer, DeleteCheck, RemoveNetwork, RemoveDirectories, DeleteRow,
                ListInstances, NextInstance, FinishUserDeletion, Inspect, StopContainer
  <2>4. CASE RepairStep(w)
    BY <2>4 DEF RepairStep, ReconcileDeleted, ReconcileInspect, ReconcileIsolate,
                ReconcileDirectories, SettleLegacy, SettleStopped, SettleHealthy,
                SettleExhausted, SettleLater, SettleRetry, ReconcileHealthy,
                ReconcileReset, ReconcileExhausted, ReconcileStop, Isolate, StopContainer
  <2>5. QED BY <1>2, <2>1, <2>2, <2>3, <2>4
            DEF HandlerStep, Acquire, Refuse, CreateInQuota, CreateRejected,
                MakeDirectories, SpawnTask, BeginUpload, EndUpload
<1>3. ASSUME NEW w \in Threads,
             GiveUp(w) \/ Cancelled(w) \/ Submission(w) \/ \E t \in tasks : RunTask(w, t)
      PROVE  user' = user \/ \E v \in Users : MarkUserDeleting(v)
  BY <1>3 DEF GiveUp, Cancelled, Submission, RequestCreate, RequestOnInstance,
              RequestDeleteUser, RunTask
<1>4. CASE SweepStep
  <2>1. user' = user \/ \E v \in Users : MarkUserDeleting(v)
    BY <1>4 DEF SweepStep, SweepBegin, SweepList, SweepEnd, SweepUser, SweepInstance
  <2>2. QED BY <1>1, <2>1 DEF MarkUserDeleting
<1>5. CASE Environment /\ \A v \in Users, s \in Accounts : ~SetUserStatus(v, s)
  <2>1. user' = user
    BY <1>5 DEF Environment, UpdateUserQuota, HealthChanges, ContainerDies, DataLost,
                BackoffElapses, Shutdown, Restart
  <2>2. QED BY <2>1
<1>6. ASSUME NEW v \in Users, NEW s \in Accounts, SetUserStatus(v, s)
      PROVE  user'[u] = user[u]
  BY <1>1, <1>6 DEF SetUserStatus, Frozen
<1>7. CASE UNCHANGED vars
  BY <1>7 DEF vars
<1>8. ASSUME NEW w \in Threads, HandlerStep(w) PROVE user'[u] \in Frozen \cup {"absent"}
  BY <1>1, <1>2, <1>8 DEF DeletionFailed
<1>9. ASSUME NEW w \in Threads,
             GiveUp(w) \/ Cancelled(w) \/ Submission(w) \/ \E t \in tasks : RunTask(w, t)
      PROVE  user'[u] \in Frozen \cup {"absent"}
  BY <1>1, <1>3, <1>9 DEF MarkUserDeleting
<1> QED BY <1>4, <1>5, <1>6, <1>7, <1>8, <1>9 DEF Next

LEMMA DeletionStands ==
    ASSUME Inductive, [Next]_vars, NEW i \in Ids, Exists(i), row[i].desired = "deleted",
           Exists(i)'
    PROVE  row'[i].desired = "deleted"
<1> SUFFICES ASSUME row'[i].desired # "deleted" PROVE FALSE
  OBVIOUS
<1>1. PICK w \in Threads : job[w].id = i /\ Decides(w)
  BY IntentChanges
<1>2. ASSUME pc[w] \in RowSteps PROVE sess[w].desired = "deleted"
  BY <1>1, <1>2, InHand
<1>3. ~MarkStarting(w)
  <2>1. MarkStarting(w) => pc[w] = "mark" /\ pc[w] \in RowSteps
    BY DEF MarkStarting, RowSteps, StartSteps
  <2>2. QED BY <1>2, <2>1 DEF Inductive, ThreadInv, HasCome, Reached
<1>4. ~SettleLegacy(w)
  <2>1. SettleLegacy(w) => pc[w] \in RowSteps /\ sess[w].desired = "legacy_expired"
    BY DEF SettleLegacy, RowSteps, RepairSteps
  <2>2. QED BY <1>2, <2>1
<1>5. ~StopSession(w)
  BY <1>1 DEF StopSession, Permitted
<1>6. ASSUME MarkDeleting(w) PROVE row'[i].desired = "deleted"
  <2>1. pc[w] \in RowSteps
    BY <1>6 DEF MarkDeleting, RowSteps, DeleteSteps
  <2>2. QED BY <1>1, <1>6, <2>1, Committed DEF MarkDeleting, Statuses, Intents
<1> QED BY <1>1, <1>3, <1>4, <1>5, <1>6 DEF Decides

\* A deletion, of an instance or of an account, is never revoked: no start,
\* failure or late completion of another handler brings either back.
THEOREM DeletionsStand == Spec => DeletionIsIrrevocable
<1>1. Inductive /\ [Next]_vars =>
        /\ \A i \in Ids : row[i] # None /\ row[i].desired = "deleted"
             => row'[i] = None \/ row'[i].desired = "deleted"
        /\ \A u \in Users : user[u] \in Frozen => user'[u] \in Frozen \cup {"absent"}
  BY DeletionStands, FrozenAccounts DEF Exists
<1> QED BY <1>1, Invariance, PTL DEF Spec, DeletionIsIrrevocable

-----------------------------------------------------------------------------
(* Request keys.                                                              *)

\* Keys are taken by a creation, and outlive their instance, not their account.
LEMMA KeysUntouched ==
    ASSUME [Next]_vars,
           \A w \in Threads : ~CreateInQuota(w) /\ ~DeleteRow(w) /\ ~FinishUserDeletion(w)
    PROVE  request' = request
<1>1. ASSUME NEW w \in Threads, HandlerStep(w) PROVE request' = request
  <2>1. CASE StartStep(w)
    BY <2>1 DEF StartStep, StartSession, ResumeCreation, MarkStarting, StartInspect,
                StartIsolate, StartRestop, CheckDirectories, EnsureNetwork, BuildContainer,
                BootContainer, AwaitHealthy, MarkRunning, Inspect, Isolate, StopContainer
  <2>2. CASE StopStep(w)
    BY <2>2 DEF StopStep, StopSession, StopInspect, StopIsolate, StopStop, StopCheck,
                MarkStopped, Inspect, Isolate, StopContainer
  <2>3. CASE DeleteStep(w)
    BY <2>3 DEF DeleteStep, DeleteSession, MarkDeleting, DeleteInspect, DeleteStop,
                RemoveContainer, DeleteCheck, RemoveNetwork, RemoveDirectories,
                ListInstances, NextInstance, Inspect, StopContainer
  <2>4. CASE RepairStep(w)
    BY <2>4 DEF RepairStep, ReconcileDeleted, ReconcileInspect, ReconcileIsolate,
                ReconcileDirectories, SettleLegacy, SettleStopped, SettleHealthy,
                SettleExhausted, SettleLater, SettleRetry, ReconcileHealthy, ReconcileReset,
                ReconcileExhausted, ReconcileStop, Isolate, StopContainer
  <2>5. QED BY <1>1, <2>1, <2>2, <2>3, <2>4
            DEF HandlerStep, Acquire, Refuse, CreateRejected, MakeDirectories, SpawnTask,
                BeginUpload, EndUpload
<1>2. ASSUME NEW w \in Threads,
             GiveUp(w) \/ Cancelled(w) \/ Submission(w) \/ \E t \in tasks : RunTask(w, t)
      PROVE  request' = request
  BY <1>2 DEF GiveUp, Cancelled, Submission, RequestCreate, RequestOnInstance,
              RequestDeleteUser, Request, Submit, RunTask
<1>3. CASE SweepStep
  BY <1>3 DEF SweepStep, SweepBegin, SweepList, SweepEnd, SweepUser, SweepInstance, Submit
<1>4. CASE Environment
  BY <1>4 DEF Environment, SetUserStatus, UpdateUserQuota, HealthChanges, ContainerDies,
              DataLost, BackoffElapses, Shutdown, Restart
<1> QED BY <1>1, <1>2, <1>3, <1>4 DEF Next, vars

LEMMA NewNamed ==
    ASSUME Inductive, NEW w \in Threads, CreateInQuota(w), NEW i \in Ids,
           ~Exists(i), Exists(i)', row'[i].key # None
    PROVE  request'[row'[i].owner][row'[i].key] = i
<1> DEFINE u == job[w].user
           k == job[w].key
           new == NewRow(u, k)
<1>1. PICK n \in Ids \ issued :
        /\ row' = [row EXCEPT ![n] = new]
        /\ request' = IF k = None THEN request ELSE [request EXCEPT ![u][k] = n]
  BY DEF CreateInQuota
<1>2. /\ row \in [Ids -> Row \cup {None}] /\ k \in Keys \cup {None} /\ u \in Users
      /\ request \in [Users -> [Keys -> Ids \cup {"unused", "gone"}]]
  BY DEF Inductive, TypeOK, Job, CreateInQuota, ThreadInv, HoldsItsLock, Knows
<1>3. new.owner = u /\ new.key = k
  BY DEF NewRow
<1> HIDE DEF new
<1>4. i = n /\ row'[i] = new
  BY <1>1, <1>2 DEF Exists
<1> QED BY <1>1, <1>2, <1>3, <1>4

LEMMA StillNamed ==
    ASSUME Inductive, OneInstancePerRequest, [Next]_vars, NEW i \in Ids,
           Exists(i), Exists(i)', row'[i].key # None
    PROVE  request'[row'[i].owner][row'[i].key] = i
<1> DEFINE o == row[i].owner
           k == row[i].key
<1>1. row'[i].owner = o /\ row'[i].key = k
  BY NamesStay DEF SameName
<1>2. /\ row[i] \in Row /\ o \in Users /\ k \in Keys /\ request[o][k] = i
      /\ row \in [Ids -> Row \cup {None}]
      /\ request \in [Users -> [Keys -> Ids \cup {"unused", "gone"}]]
  BY <1>1 DEF OneInstancePerRequest, Exists, Inductive, TypeOK, Row
<1>3. SUFFICES request'[o][k] = i
  BY <1>1
<1>4. CASE request' = request
  BY <1>2, <1>4
<1>5. ASSUME NEW w \in Threads, CreateInQuota(w) PROVE request'[o][k] = i
  <2>1. PICK n \in Ids : request' = IF job[w].key = None THEN request
                                    ELSE [request EXCEPT ![job[w].user][job[w].key] = n]
    BY <1>5 DEF CreateInQuota
  <2>2. job[w].key # None => request[job[w].user][job[w].key] = "unused"
    BY <1>5 DEF CreateInQuota, Admits
  <2>3. QED BY <1>2, <2>1, <2>2, IdentityAssumption
<1>6. ASSUME NEW w \in Threads, DeleteRow(w) PROVE request'[o][k] = i
  <2>1. job[w].id # i
    BY <1>2, <1>6 DEF DeleteRow, Exists
  <2>2. QED BY <1>2, <1>6, <2>1 DEF DeleteRow
<1>7. ASSUME NEW w \in Threads, FinishUserDeletion(w) PROVE request'[o][k] = i
  <2>1. request' = request \/ Owned(job[w].user) = {}
    BY <1>7 DEF FinishUserDeletion
  <2>2. CASE Owned(job[w].user) = {}
    <3>1. o # job[w].user
      BY <2>2 DEF Owned, Exists
    <3>2. QED BY <1>2, <1>7, <3>1 DEF FinishUserDeletion
  <2>3. QED BY <1>4, <2>1, <2>2
<1> QED BY <1>4, <1>5, <1>6, <1>7, KeysUntouched

\* CreateSessionWithinQuota records key and row in one transaction: however
\* requests, deletions and crashes interleave, a key leads to its own instance.
THEOREM KeysNameInstances == Spec => []OneInstancePerRequest
<1>1. Init => OneInstancePerRequest
  <2> SUFFICES ASSUME Init, NEW i \in Ids, row[i] # None PROVE row[i].key = None
    BY DEF OneInstancePerRequest
  <2>1. PICK u \in Users : row[i] \in LegacyRow(u)
    BY DEF Init
  <2>2. QED BY <2>1 DEF LegacyRow
<1>2. Inductive /\ OneInstancePerRequest /\ [Next]_vars => OneInstancePerRequest'
  <2> SUFFICES ASSUME Inductive, OneInstancePerRequest, [Next]_vars, NEW i \in Ids,
                      Exists(i)', row'[i].key # None
               PROVE  request'[row'[i].owner][row'[i].key] = i
    BY DEF OneInstancePerRequest, Exists
  <2>1. CASE Exists(i)
    BY <2>1, StillNamed
  <2>2. CASE ~Exists(i)
    BY <2>2, RowComes, NewNamed
  <2>3. QED BY <2>1, <2>2
<1> QED BY <1>1, <1>2, Invariance, PTL DEF Spec

\* A key once used is free again only with its account.
THEOREM KeysAreSpent == Spec => KeysStaySpent
<1>1. Inductive /\ [Next]_vars =>
        \A u \in Users, k \in Keys : request[u][k] # "unused"
          => request'[u][k] \in {request[u][k], "gone"} \/ user'[u] = "absent"
  <2> SUFFICES ASSUME Inductive, [Next]_vars, NEW u \in Users, NEW k \in Keys,
                      request[u][k] # "unused"
               PROVE  request'[u][k] \in {request[u][k], "gone"} \/ user'[u] = "absent"
    OBVIOUS
  <2>1. /\ request \in [Users -> [Keys -> Ids \cup {"unused", "gone"}]]
        /\ user \in [Users -> Accounts]
    BY DEF Inductive, TypeOK
  <2>2. ASSUME NEW w \in Threads, CreateInQuota(w) PROVE request'[u][k] = request[u][k]
    BY <2>1, <2>2 DEF CreateInQuota, Admits
  <2>3. ASSUME NEW w \in Threads, DeleteRow(w)
        PROVE  request'[u][k] \in {request[u][k], "gone"}
    BY <2>1, <2>3 DEF DeleteRow
  <2>4. ASSUME NEW w \in Threads, FinishUserDeletion(w)
        PROVE  request'[u][k] = request[u][k] \/ user'[u] = "absent"
    BY <2>1, <2>4 DEF FinishUserDeletion, DeletionFailed
  <2>5. QED BY <2>2, <2>3, <2>4, KeysUntouched
<1> QED BY <1>1, Invariance, PTL DEF Spec, KeysStaySpent

-----------------------------------------------------------------------------
(* The promise.                                                               *)

Runs(i) == cont[i] \in Running
Data(i) == dirs[i] # "absent"

\* No step but CreateInQuota issues identifiers.
LEMMA IssuedKept ==
    ASSUME [Next]_vars, \A w \in Threads : ~CreateInQuota(w)
    PROVE  issued' = issued
<1>1. ASSUME NEW w \in Threads, HandlerStep(w) PROVE issued' = issued
  <2>1. CASE StartStep(w)
    BY <2>1 DEF StartStep, StartSession, ResumeCreation, MarkStarting, StartInspect,
                StartIsolate, StartRestop, CheckDirectories, EnsureNetwork,
                BuildContainer, BootContainer, AwaitHealthy, MarkRunning, Inspect,
                Isolate, StopContainer
  <2>2. CASE StopStep(w)
    BY <2>2 DEF StopStep, StopSession, StopInspect, StopIsolate, StopStop, StopCheck,
                MarkStopped, Inspect, Isolate, StopContainer
  <2>3. CASE DeleteStep(w)
    BY <2>3 DEF DeleteStep, DeleteSession, MarkDeleting, DeleteInspect, DeleteStop,
                RemoveContainer, DeleteCheck, RemoveNetwork, RemoveDirectories, DeleteRow,
                ListInstances, NextInstance, FinishUserDeletion, Inspect, StopContainer
  <2>4. CASE RepairStep(w)
    BY <2>4 DEF RepairStep, ReconcileDeleted, ReconcileInspect, ReconcileIsolate,
                ReconcileDirectories, SettleLegacy, SettleStopped, SettleHealthy,
                SettleExhausted, SettleLater, SettleRetry, ReconcileHealthy,
                ReconcileReset, ReconcileExhausted, ReconcileStop, Isolate, StopContainer
  <2>5. QED BY <1>1, <2>1, <2>2, <2>3, <2>4
            DEF HandlerStep, Acquire, Refuse, CreateRejected, MakeDirectories, SpawnTask,
                BeginUpload, EndUpload
<1>2. ASSUME NEW w \in Threads,
             GiveUp(w) \/ Cancelled(w) \/ Submission(w) \/ \E t \in tasks : RunTask(w, t)
      PROVE  issued' = issued
  BY <1>2 DEF GiveUp, Cancelled, Submission, RequestCreate, RequestOnInstance,
              RequestDeleteUser, Request, Submit, RunTask
<1>3. CASE SweepStep
  BY <1>3 DEF SweepStep, SweepBegin, SweepList, SweepEnd, SweepUser, SweepInstance, Submit
<1>4. CASE Environment
  BY <1>4 DEF Environment, SetUserStatus, UpdateUserQuota, HealthChanges, ContainerDies,
              DataLost, BackoffElapses, Shutdown, Restart
<1>5. CASE UNCHANGED vars
  BY <1>5 DEF vars
<1> QED BY <1>1, <1>2, <1>3, <1>4, <1>5 DEF Next

-----------------------------------------------------------------------------
(* A step that changes the wish is a decision, the insertion of the row or    *)
(* its removal, and touches neither container nor data.                       *)

Decision(i) ==
    /\ Wish(i) \in {"running", "stopped", "legacy_expired"}
    /\ Wish(i)' \in {"running", "stopped", "deleted"}

Creation(i) == Wish(i) = "none" /\ Wish(i)' = "running"

Removal(i) == /\ Wish(i) = "deleted" /\ Wish(i)' = "gone"
              /\ ~Runs(i) /\ ~Data(i)

LEMMA DecisionTaken ==
    ASSUME Inductive, [Next]_vars, NEW i \in Ids, Exists(i), Exists(i)',
           Wish(i)' # Wish(i)
    PROVE  Decision(i) /\ UNCHANGED <<cont, dirs>>
<1>1. row[i] \in Row /\ row[i].desired \in Intents
  BY DEF Inductive, TypeOK, Exists, Row
<1>2. Wish(i) = row[i].desired /\ Wish(i)' = row'[i].desired
  BY DEF Wish, Exists
<1>3. PICK w \in Threads : job[w].id = i /\ Decides(w)
  BY <1>2, IntentChanges
<1>4. row'[i].desired \in {"running", "stopped", "deleted"}
  BY <1>3, Decided
<1>5. row[i].desired # "deleted"
  BY <1>2, DeletionStands
<1>6. UNCHANGED <<cont, dirs>>
  BY <1>3 DEF Decides, MarkStarting, StopSession, MarkDeleting, SettleLegacy, docker
<1> QED BY <1>1, <1>2, <1>4, <1>5, <1>6 DEF Decision, Intents

LEMMA RowInserted ==
    ASSUME Inductive, [Next]_vars, NEW i \in Ids, ~Exists(i), Wish(i)' # Wish(i)
    PROVE  Creation(i) /\ UNCHANGED <<cont, dirs>>
<1>1. row \in [Ids -> Row \cup {None}]
  BY DEF Inductive, TypeOK
<1>2. PICK w \in Threads : CreateInQuota(w)
  <2>1. CASE Exists(i)'
    BY <2>1, RowComes
  <2>2. CASE ~Exists(i)'
    <3>1. issued' # issued
      BY <2>2 DEF Wish, Exists
    <3>2. QED BY <3>1, IssuedKept
  <2>3. QED BY <2>1, <2>2
<1>3. PICK k \in Ids \ issued : /\ row' = [row EXCEPT ![k] = NewRow(job[w].user, job[w].key)]
                                /\ issued' = issued \cup {k}
  BY <1>2 DEF CreateInQuota
<1>4. i = k
  BY <1>1, <1>3 DEF Wish, Exists
<1>5. Wish(i) = "none"
  BY <1>3, <1>4 DEF Wish, Exists
<1>6. NewRow(job[w].user, job[w].key) # None
  <2>1. pc[w] = "create" /\ pc[w] \in LockedSteps
    BY <1>2 DEF CreateInQuota, LockedSteps, EntrySteps
  <2>2. job[w].user \in Users
    BY <2>1, LockHeld
  <2>3. job[w].key \in Keys \cup {None}
    BY DEF Inductive, TypeOK, Job
  <2>4. NewRow(job[w].user, job[w].key) \in Row
    BY <2>2, <2>3 DEF NewRow, Row, Statuses, Intents
  <2>5. QED BY <2>4, IdentityAssumption
<1>7. Wish(i)' = "running"
  BY <1>1, <1>3, <1>4, <1>6 DEF Wish, NewRow
<1>8. UNCHANGED <<cont, dirs>>
  BY <1>2 DEF CreateInQuota, docker
<1> QED BY <1>5, <1>7, <1>8 DEF Creation

LEMMA RowRemoved ==
    ASSUME Inductive, [Next]_vars, NEW i \in Ids, Exists(i), ~Exists(i)'
    PROVE  Removal(i) /\ UNCHANGED <<cont, dirs>>
<1>1. PICK w \in Threads : job[w].id = i /\ DeleteRow(w)
  BY RowGoes
<1>2. pc[w] = "delRow" /\ pc[w] \in RowSteps /\ pc[w] \in DeleteSteps \ {"delMark"}
  BY <1>1 DEF DeleteRow, RowSteps, DeleteSteps
<1>3. /\ row[i].desired = "deleted"
      /\ cont[i] = "none" /\ dirs[i] = "absent"
  BY <1>1, <1>2, InHand DEF Inductive, ThreadInv, HasCome, Reached
<1>4. UNCHANGED <<cont, dirs, issued>> /\ i \in issued
  BY <1>1 DEF DeleteRow, docker, Inductive, Issued
<1>5. Wish(i) = "deleted" /\ Wish(i)' = "gone"
  BY <1>3, <1>4 DEF Wish, Exists
<1> QED BY <1>3, <1>4, <1>5 DEF Removal, Runs, Data, Running

-----------------------------------------------------------------------------
(* A step that changes whether there is data is prepareDirectories of a       *)
(* creation or removeDirectories of a deletion.                               *)

Provision(i) == Wish(i) \in {"running", "stopped", "legacy_expired"} /\ Data(i)'

Erasure(i) == Wish(i) = "deleted" /\ ~Runs(i) /\ ~Data(i)'

LEMMA DataMoves ==
    ASSUME Inductive, [Next]_vars, NEW i \in Ids, Data(i)' # Data(i)
    PROVE  (Provision(i) \/ Erasure(i)) /\ cont' = cont
<1>1. dirs \in [Ids -> Disks]
  BY DEF Inductive, TypeOK
<1>2. dirs'[i] # dirs[i] /\ (dirs[i] = "absent" \/ dirs'[i] = "absent")
  BY DEF Data
<1>3. PICK w \in Threads : MakeDirectories(w) \/ RemoveDirectories(w)
  <2>1. \A k \in Ids : ~DataLost(k)
    BY <1>1, <1>2 DEF DataLost
  <2>2. \A w \in Threads : ~BootContainer(w)
    BY <1>1, <1>2 DEF BootContainer
  <2>3. QED BY <1>2, <2>1, <2>2, DirectoriesUntouched
<1>4. i = job[w].id
  BY <1>1, <1>2, <1>3 DEF MakeDirectories, RemoveDirectories
<1>5. pc[w] \in RowSteps
  BY <1>3 DEF MakeDirectories, RemoveDirectories, RowSteps, DeleteSteps
<1>6. /\ row[i] # None /\ row[i].desired = sess[w].desired /\ row[i].desired \in Intents
      /\ HasCome(w)
  BY <1>4, <1>5, InHand, IdentityAssumption DEF Row, Inductive, ThreadInv
<1>7. Wish(i) = row[i].desired /\ cont' = cont
  BY <1>3, <1>6 DEF Wish, MakeDirectories, RemoveDirectories, docker
<1>8. CASE MakeDirectories(w)
  <2>1. pc[w] = "mkdirs"
    BY <1>8 DEF MakeDirectories
  <2>2. dirs[i] = "absent" /\ row[i].desired # "deleted"
    BY <1>4, <1>6, <2>1 DEF HasCome, Reached
  <2>3. QED BY <1>2, <1>6, <1>7, <2>2 DEF Provision, Data, Intents
<1>9. CASE RemoveDirectories(w)
  <2>1. pc[w] = "delDirs" /\ pc[w] \in DeleteSteps \ {"delMark"}
    BY <1>9 DEF RemoveDirectories, DeleteSteps
  <2>2. cont[i] = "none" /\ row[i].desired = "deleted"
    BY <1>4, <1>6, <2>1 DEF HasCome, Reached
  <2>3. dirs'[i] = "absent"
    BY <1>1, <1>2, <1>4, <1>9 DEF RemoveDirectories, Present
  <2>4. QED BY <1>7, <2>2, <2>3 DEF Erasure, Data, Runs, Running
<1> QED BY <1>3, <1>7, <1>8, <1>9

-----------------------------------------------------------------------------
(* Together.                                                                  *)

Wishes(i) == Wish(i)' = Wish(i)
Moves(i) ==
    \/ (Decision(i) \/ Creation(i) \/ Removal(i)) /\ Runs(i)' = Runs(i) /\ Data(i)' = Data(i)
    \/ Wishes(i) /\ Runs(i)' = Runs(i)
         /\ ((Provision(i) /\ ~Data(i)) \/ (Erasure(i) /\ Data(i)))
    \/ Wishes(i) /\ Data(i)' = Data(i)
         /\ \/ Runs(i)' = Runs(i)
            \/ Runs(i) /\ ~Runs(i)'
            \/ Wish(i) = "running" /\ ~Runs(i) /\ Runs(i)'

LEMMA StepsMove ==
    ASSUME Inductive, [Next]_vars, NEW i \in Ids
    PROVE  Moves(i)
<1>1. CASE Wish(i)' # Wish(i)
  <2>1. (Decision(i) \/ Creation(i) \/ Removal(i)) /\ UNCHANGED <<cont, dirs>>
    BY <1>1, DecisionTaken, RowInserted, RowRemoved
  <2>2. QED BY <2>1 DEF Moves, Runs, Data
<1>2. CASE Wishes(i) /\ Data(i)' # Data(i)
  <2>1. (Provision(i) \/ Erasure(i)) /\ cont' = cont
    BY <1>2, DataMoves
  <2>2. (Provision(i) /\ ~Data(i)) \/ (Erasure(i) /\ Data(i))
    BY <1>2, <2>1 DEF Provision, Erasure, Data
  <2>3. QED BY <1>2, <2>1, <2>2 DEF Moves, Runs
<1>3. CASE Wishes(i) /\ Data(i)' = Data(i)
  <2>1. ~Runs(i) /\ Runs(i)' => Wish(i) = "running"
    BY WantedStart DEF Runs, Wish
  <2>2. QED BY <1>3, <2>1 DEF Moves, Runs
<1> QED BY <1>1, <1>2, <1>3 DEF Wishes

LEMMA StepSimulation == Inductive /\ [Next]_vars => [Promise!Next]_(Promise!vars)
<1> SUFFICES ASSUME Inductive, [Next]_vars PROVE Promise!Next
  OBVIOUS
<1> QED BY StepsMove
        DEF Moves, Wishes, Runs, Data, Decision, Creation, Removal, Provision, Erasure,
            Promise!Next, Promise!Create, Promise!Decide, Promise!Forget, Promise!Run,
            Promise!Halt, Promise!Provide, Promise!Erase, Promise!Stay, Promise!Same,
            Promise!Kept

LEMMA StartPromised == Init => Promise!Init
<1> SUFFICES ASSUME Init PROVE Promise!Init
  OBVIOUS
<1>1. ASSUME NEW i \in LegacyIds
      PROVE  Wish(i) \in {"running", "stopped", "legacy_expired"}
  <2>1. i \in Ids /\ row[i] # None
    BY <1>1, ParameterAssumption DEF Init
  <2>2. PICK u \in Users : row[i] \in LegacyRow(u)
    BY <2>1 DEF Init
  <2>3. row[i].desired \in {"running", "stopped", "legacy_expired"}
    BY <2>2 DEF LegacyRow
  <2>4. QED BY <2>1, <2>3 DEF Wish
<1>2. ASSUME NEW i \in Ids \ LegacyIds
      PROVE  Wish(i) = "none" /\ ~Runs(i) /\ ~Data(i)
  BY <1>2 DEF Init, Wish, Runs, Data, Running
<1>3. \A i \in Ids : Wish(i) \in {"running", "stopped", "legacy_expired", "none"}
  BY <1>1, <1>2
<1>4. \A i \in Ids : Runs(i) \/ Data(i) => Wish(i) # "none"
  BY <1>1, <1>2
<1>5. /\ [i \in Ids |-> cont[i] \in Running] \in [Ids -> BOOLEAN]
      /\ [i \in Ids |-> dirs[i] # "absent"] \in [Ids -> BOOLEAN]
  <2>1. \A i \in Ids : (cont[i] \in Running) \in BOOLEAN /\ (dirs[i] # "absent") \in BOOLEAN
    OBVIOUS
  <2>2. QED BY <2>1
<1>6. [i \in Ids |-> Wish(i)] \in [Ids -> Promise!Kept \cup {"none"}]
  BY <1>3 DEF Promise!Kept
<1> QED BY <1>4, <1>5, <1>6 DEF Promise!Init, Runs, Data

\* What an owner was promised holds of every behaviour of the manager, for any
\* number of owners, instances, requests at once, failures and crashes.
THEOREM PromiseKept == Spec => KeepsThePromise
  BY StartPromised, StepSimulation, Invariance, PTL
     DEF Spec, KeepsThePromise, Promise!Spec
=============================================================================
