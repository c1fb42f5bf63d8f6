---------------------------- MODULE InstancesProofs ----------------------------
(* The invariant of InstancesInvariant holds in every reachable state, for    *)
(* every number of users, instances and goroutines, and with it the safety    *)
(* properties of Instances that follow.                                       *)
(*                                                                            *)
(* A step of a handler that has a row in hand is accounted for once and for   *)
(* all by what it may touch (Aside, Updates): the other threads work under    *)
(* other locks, hence on other instances (OthersUntouched). What is left for  *)
(* each action is what its own thread knows afterwards.                       *)
EXTENDS InstancesInvariant, TLAPS

-----------------------------------------------------------------------------
(* What a handler's step may touch.                                           *)

ThreadTypes ==
    /\ lock \in [Users -> Threads \cup {None}]
    /\ pc \in [Threads -> Steps]
    /\ job \in [Threads -> Job]
    /\ sess \in [Threads -> Row \cup {None}]
    /\ seen \in [Threads -> Containers]
    /\ todo \in [Threads -> SUBSET Ids]
    /\ failed \in [Threads -> BOOLEAN]

WorldTypes ==
    /\ cont \in [Ids -> Containers]
    /\ madeBy \in [Ids -> Deployments]
    /\ net \in [Ids -> SUBSET Deployments]
    /\ dirs \in [Ids -> Disks]
    /\ auto \in [Ids -> Nat]
    /\ budget \in Budget

\* The step is thread w's, and takes no other thread's lock away.
OnlyThread(w) ==
    /\ \A v \in Threads \ {w} : /\ pc'[v] = pc[v] /\ job'[v] = job[v]
                                /\ sess'[v] = sess[v] /\ todo'[v] = todo[v]
    /\ \A u \in Users, v \in Threads \ {w} : lock[u] = v => lock'[u] = v

\* Outside the tables it touches at most the instance in w's hand,
Aside(w) ==
    /\ UNCHANGED <<user, quota, request, tasks, sweep, closing, deployment, issued>>
    /\ WorldTypes'
    /\ \A i \in Ids \ {job[w].id} : cont'[i] = cont[i] /\ dirs'[i] = dirs[i]

\* and of the rows it rewrites at most that one, for the same owner and request.
Updates(w) ==
    /\ row' \in [Ids -> Row \cup {None}]
    /\ \A i \in Ids \ {job[w].id} : row'[i] = row[i]
    /\ row'[job[w].id] \in Row
    /\ row'[job[w].id].owner = row[job[w].id].owner
    /\ row'[job[w].id].key = row[job[w].id].key

InPlace(w) == Aside(w) /\ Updates(w)

\* Where a handler may go on to from its step.
Successor(w, next) == /\ next \in RowSteps
                      /\ pc[w] \in DeleteSteps => next \in DeleteSteps

-----------------------------------------------------------------------------
\* w is at work on an instance: it holds the lock of the owner of a row.
HasInHand(w) ==
    /\ pc[w] \in EntrySteps \cup RowSteps
    /\ job[w].id \in Ids /\ job[w].id \in issued /\ job[w].user \in Users
    /\ row[job[w].id] \in Row /\ row[job[w].id].owner = job[w].user
    /\ lock[job[w].user] = w

LEMMA StepKinds ==
    /\ "idle" \notin LockedSteps /\ "lock" \notin LockedSteps
    /\ "nextInstance" \notin RowSteps \cup EntrySteps
    /\ RowSteps \cap EntrySteps = {}
    /\ EntrySteps \subseteq LockedSteps /\ RowSteps \subseteq LockedSteps
    /\ DeleteSteps \subseteq RowSteps /\ StartSteps \subseteq RowSteps
    /\ StopSteps \subseteq RowSteps /\ RepairSteps \subseteq RowSteps
    /\ "mkdirs" \in RowSteps /\ LockedSteps \subseteq Steps /\ "nextInstance" \in LockedSteps
  BY DEF Steps, LockedSteps, RowSteps, EntrySteps, StartSteps, StopSteps, DeleteSteps,
         RepairSteps

\* Only a step with a row in hand has come anywhere.
LEMMA NothingReached ==
    ASSUME NEW w \in Threads, pc'[w] \notin RowSteps
    PROVE  HasCome(w)'
  BY DEF HasCome, Reached, RowSteps, StartSteps, StopSteps, DeleteSteps, RepairSteps

LEMMA InHand ==
    ASSUME Inductive, NEW w \in Threads, pc[w] \in RowSteps
    PROVE  /\ HasInHand(w)
           /\ job[w].id \in Ids /\ job[w].user \in Users
           /\ row[job[w].id] \in Row /\ sess[w] \in Row
           /\ row[job[w].id].desired = sess[w].desired
<1>1. HoldsItsLock(w) /\ OwnsItsRow(w) /\ pc[w] \in LockedSteps /\ pc[w] # "idle"
  BY StepKinds DEF Inductive, ThreadInv
<1>2. lock[job[w].user] = w /\ Knows(job[w]) /\ job[w].id \in issued /\ Exists(job[w].id)
  BY <1>1 DEF HoldsItsLock, OwnsItsRow
<1>3. job[w].id \in Ids /\ None \notin Ids
  BY <1>2, IdentityAssumption DEF Inductive, TypeOK
<1>4. job[w].user \in Users /\ row[job[w].id].owner = job[w].user
  BY <1>2, <1>3 DEF Knows
<1>5. row[job[w].id] \in Row /\ sess[w] \in Row /\ row[job[w].id].desired = sess[w].desired
  BY <1>1, <1>2, <1>3 DEF OwnsItsRow, Exists, Inductive, TypeOK
<1> QED BY <1>2, <1>3, <1>4, <1>5 DEF HasInHand

\* withSession: the row a handler is permitted to work on.
LEMMA Chosen ==
    ASSUME Inductive, NEW w \in Threads, Permitted(w),
           pc[w] \in EntrySteps \ {"create", "deleteUser"}
    PROVE  HasInHand(w)
<1>1. HoldsItsLock(w) /\ row[job[w].id] # None /\ pc[w] \in LockedSteps
  BY StepKinds DEF Inductive, ThreadInv, Permitted
<1>2. pc[w] = job[w].op /\ pc[w] # "idle" /\ lock[job[w].user] = w /\ Knows(job[w])
  BY <1>1, StepKinds DEF HoldsItsLock
<1>3. /\ job[w].user \in Users /\ job[w].id \in issued
      /\ row[job[w].id].owner = job[w].user
  BY <1>1, <1>2 DEF Knows, Exists
<1>4. job[w].id \in Ids /\ row[job[w].id] \in Row
  BY <1>1, <1>3 DEF Inductive, TypeOK
<1> QED BY <1>1, <1>2, <1>3, <1>4 DEF HasInHand

LEMMA KnowsKept ==
    ASSUME Inductive, NEW w \in Threads, HasInHand(w), InPlace(w), NEW j, Knows(j)
    PROVE  Knows(j)'
<1>1. issued \subseteq Ids /\ None \notin Row
  BY IdentityAssumption DEF Inductive, TypeOK
<1> QED BY <1>1 DEF Knows, HasInHand, InPlace, Aside, Updates, Exists

\* The other threads work under other locks, hence on other instances.
LEMMA OthersUntouched ==
    ASSUME Inductive, NEW w \in Threads, HasInHand(w), InPlace(w), OnlyThread(w),
           NEW v \in Threads \ {w}
    PROVE  ThreadInv(v)'
<1> DEFINE i == job[w].id
<1>1. ThreadInv(v) /\ issued \subseteq Ids /\ todo[v] \subseteq Ids
  BY DEF Inductive, TypeOK
<1>2. pc'[v] = pc[v] /\ job'[v] = job[v] /\ sess'[v] = sess[v] /\ todo'[v] = todo[v]
  BY DEF OnlyThread
<1>3. HoldsItsLock(v)'
  <2>1. pc[v] # "idle" => Knows(job[v])'
    <3>1. pc[v] # "idle" => Knows(job[v])
      BY <1>1 DEF ThreadInv, HoldsItsLock
    <3>2. QED BY <3>1, <1>2, KnowsKept DEF Knows
  <2>2. pc[v] \in LockedSteps => lock'[job[v].user] = v
    BY <1>1, StepKinds DEF ThreadInv, HoldsItsLock, OnlyThread, Knows
  <2>3. QED BY <2>1, <2>2, <1>1, <1>2 DEF ThreadInv, HoldsItsLock
<1>4. pc[v] \in RowSteps => job[v].id \in Ids \ {i}
  BY InHand DEF HasInHand
<1>5. OwnsItsRow(v)'
  BY <1>1, <1>2, <1>4 DEF ThreadInv, OwnsItsRow, InPlace, Aside, Updates, Exists
<1>6. OwnsItsList(v)'
  <2>1. todo[v] # {} => pc[v] \in LockedSteps
    BY <1>1, StepKinds DEF ThreadInv, OwnsItsList
  <2>2. \A j \in todo[v] : /\ j \in issued /\ Exists(j) /\ j \in Ids
                           /\ row[j].owner = job[v].user /\ lock[job[v].user] = v
    BY <1>1, <2>1 DEF ThreadInv, OwnsItsList, HoldsItsLock
  <2>3. \A j \in todo[v] : j # i
    BY <2>2 DEF HasInHand
  <2>4. QED BY <1>1, <1>2, <2>2, <2>3
            DEF ThreadInv, OwnsItsList, InPlace, Aside, Updates, Exists
<1>7. HasCome(v)'
  <2>1. CASE pc[v] \in RowSteps
    BY <2>1, <1>1, <1>2, <1>4 DEF ThreadInv, HasCome, Reached, InPlace, Aside, Updates
  <2>2. CASE pc[v] \notin RowSteps
    BY <2>2, <1>2, NothingReached
  <2>3. QED BY <2>1, <2>2
<1> QED BY <1>3, <1>5, <1>6, <1>7 DEF ThreadInv

LEMMA GlobalKept ==
    ASSUME Inductive, NEW w \in Threads, HasInHand(w), InPlace(w)
    PROVE  Issued' /\ TasksKnow' /\ NoOrphanResources'
<1>1. None \notin Row
  BY IdentityAssumption
<1>2. Issued'
  BY <1>1 DEF Inductive, Issued, InPlace, Aside, Updates, Exists, HasInHand
<1>3. TasksKnow'
  <2>1. \A t \in tasks : Knows(t)'
    BY KnowsKept DEF Inductive, TasksKnow
  <2>2. QED BY <2>1 DEF TasksKnow, InPlace, Aside
<1>4. NoOrphanResources'
  BY <1>1 DEF Inductive, NoOrphanResources, InPlace, Aside, Updates, HasInHand
<1> QED BY <1>2, <1>3, <1>4

\* So a step on an instance in hand need only answer for its own thread.
LEMMA Stepped ==
    ASSUME Inductive, NEW w \in Threads, HasInHand(w), InPlace(w), OnlyThread(w),
           ThreadTypes', ThreadInv(w)'
    PROVE  Inductive'
<1>1. TypeOK'
  BY DEF Inductive, TypeOK, InPlace, Aside, Updates, WorldTypes, ThreadTypes
<1>2. \A v \in Threads : ThreadInv(v)'
  BY OthersUntouched
<1> QED BY <1>1, <1>2, GlobalKept DEF Inductive

-----------------------------------------------------------------------------
(* The ways a handler's step can end: it goes on to another step, returns to  *)
(* the loop of DeleteUser or releases the lock and is over.                   *)

LEMMA Proceeds ==
    ASSUME Inductive, NEW w \in Threads, HasInHand(w), InPlace(w),
           NEW next, Successor(w, next), Goto(w, next),
           UNCHANGED <<lock, job, todo, failed>>,
           seen' \in [Threads -> Containers],
           sess' \in [Threads -> Row \cup {None}], sess'[w] \in Row,
           \A v \in Threads \ {w} : sess'[v] = sess[v],
           row'[job[w].id].desired = sess'[w].desired,
           HasCome(w)'
    PROVE  Inductive'
<1>1. OnlyThread(w)
  BY DEF OnlyThread, Goto, Inductive, TypeOK
<1>2. next \in RowSteps /\ next \in LockedSteps /\ next \in Steps
  BY StepKinds DEF Successor
<1>3. ThreadTypes'
  BY <1>2 DEF ThreadTypes, Goto, Inductive, TypeOK
<1>4. pc'[w] = next /\ job'[w] = job[w] /\ todo'[w] = todo[w]
  BY DEF Goto, Inductive, TypeOK
<1>5. HoldsItsLock(w)'
  <2>1. Knows(job[w])
    BY StepKinds DEF HasInHand, Inductive, ThreadInv, HoldsItsLock
  <2>2. Knows(job[w])'
    BY <2>1, <1>4, KnowsKept DEF Knows
  <2>3. QED BY <1>2, <1>4, <2>2, StepKinds DEF HoldsItsLock, HasInHand
<1>6. OwnsItsRow(w)'
  BY <1>4, IdentityAssumption
     DEF OwnsItsRow, HasInHand, InPlace, Aside, Updates, Exists
<1>7. OwnsItsList(w)'
  <2>1. OwnsItsList(w) /\ todo[w] \subseteq Ids
    BY DEF Inductive, ThreadInv, TypeOK
  <2>2. todo[w] # {} => pc[w] \in DeleteSteps
    BY <2>1, StepKinds DEF OwnsItsList, HasInHand
  <2>3. QED BY <2>1, <2>2, <1>4, <1>2, StepKinds
            DEF OwnsItsList, InPlace, Aside, Updates, Exists, Successor
<1> QED BY <1>1, <1>3, <1>5, <1>6, <1>7, Stepped DEF ThreadInv

LEMMA Written ==
    ASSUME Inductive, NEW w \in Threads, HasInHand(w),
           NEW s \in Statuses, NEW d \in Intents, NEW e \in BOOLEAN, Write(w, s, d, e)
    PROVE  Updates(w) /\ row'[job[w].id].desired = d
<1> DEFINE i == job[w].id
           new == [row[i] EXCEPT !.status = s, !.desired = d, !.err = e]
<1>1. row \in [Ids -> Row \cup {None}] /\ i \in Ids /\ row[i] \in Row
  BY DEF Inductive, TypeOK, HasInHand
<1>2. new \in Row /\ new.owner = row[i].owner /\ new.key = row[i].key /\ new.desired = d
  BY <1>1 DEF Row
<1>3. row' = [row EXCEPT ![i] = new]
  BY DEF Write
<1> HIDE DEF new
<1> QED BY <1>1, <1>2, <1>3 DEF Updates

\* UpdateSessionRecovery leaves the desired state alone.
LEMMA Recounted ==
    ASSUME Inductive, NEW w \in Threads, HasInHand(w), NEW n \in Nat, NEW b \in BOOLEAN,
           row' = [row EXCEPT ![job[w].id] = [@ EXCEPT !.attempts = n, !.wait = b]]
    PROVE  Updates(w) /\ row'[job[w].id].desired = row[job[w].id].desired
<1> DEFINE i == job[w].id
           new == [row[i] EXCEPT !.attempts = n, !.wait = b]
<1>1. row \in [Ids -> Row \cup {None}] /\ i \in Ids /\ row[i] \in Row
  BY DEF Inductive, TypeOK, HasInHand
<1>2. new \in Row /\ new.owner = row[i].owner /\ new.key = row[i].key /\ new.desired = row[i].desired
  BY <1>1 DEF Row
<1>3. row' = [row EXCEPT ![i] = new]
  OBVIOUS
<1> HIDE DEF new
<1> QED BY <1>1, <1>2, <1>3 DEF Updates

LEMMA Unwritten ==
    ASSUME Inductive, NEW w \in Threads, HasInHand(w), row' = row
    PROVE  Updates(w) /\ row'[job[w].id].desired = row[job[w].id].desired
  BY DEF Updates, Inductive, TypeOK, HasInHand

\* Commit leaves the handler's copy with the desired state it wrote.
LEMMA Committed ==
    ASSUME Inductive, NEW w \in Threads, pc[w] \in RowSteps,
           NEW s \in Statuses, NEW d \in Intents, Commit(w, s, d)
    PROVE  /\ Updates(w) /\ row'[job[w].id].desired = d
           /\ sess' \in [Threads -> Row \cup {None}] /\ sess'[w] \in Row
           /\ sess'[w].desired = d
           /\ \A v \in Threads \ {w} : sess'[v] = sess[v]
<1>1. Updates(w) /\ row'[job[w].id].desired = d
  BY InHand, Written DEF Commit
<1>2. sess[w] \in Row /\ sess \in [Threads -> Row \cup {None}]
  BY InHand DEF Inductive, TypeOK
<1>3. /\ [sess[w] EXCEPT !.desired = d] \in Row
      /\ [sess[w] EXCEPT !.desired = d].desired = d
  BY <1>2 DEF Row
<1>4. sess' = [sess EXCEPT ![w] = [sess[w] EXCEPT !.desired = d]]
  BY DEF Commit
<1> QED BY <1>1, <1>2, <1>3, <1>4

\* What a released thread knows.
LEMMA Idle ==
    ASSUME NEW w \in Threads, pc'[w] = "idle", job'[w] = NoJob, todo'[w] = {}
    PROVE  ThreadInv(w)'
<1>1. HoldsItsLock(w)' /\ OwnsItsRow(w)' /\ OwnsItsList(w)'
  BY StepKinds DEF HoldsItsLock, OwnsItsRow, OwnsItsList
<1>2. HasCome(w)'
  BY NothingReached, StepKinds
<1> QED BY <1>1, <1>2 DEF ThreadInv

LEMMA Released ==
    ASSUME Inductive, NEW w \in Threads, Release(w),
           job[w].user \in Users => lock[job[w].user] \in {w, None}
    PROVE  OnlyThread(w) /\ ThreadTypes' /\ ThreadInv(w)'
<1>1. OnlyThread(w)
  BY IdentityAssumption DEF OnlyThread, Release, Goto, Inductive, TypeOK
<1>2. ThreadTypes'
  BY
     DEF ThreadTypes, Release, Goto, Inductive, TypeOK, Steps, NoJob, Job, Ops, Containers
<1>3. pc'[w] = "idle" /\ job'[w] = NoJob /\ todo'[w] = {}
  BY DEF Release, Goto, Inductive, TypeOK
<1> QED BY <1>1, <1>2, <1>3, Idle

LEMMA Over ==
    ASSUME Inductive, NEW w \in Threads, HasInHand(w), InPlace(w), Release(w)
    PROVE  Inductive'
  BY Released, Stepped DEF HasInHand

LEMMA Returned ==
    ASSUME Inductive, NEW w \in Threads, pc[w] \in RowSteps, InPlace(w),
           NEW ok \in BOOLEAN, Return(w, ok)
    PROVE  Inductive'
<1>1. CASE job[w].op # "deleteUser"
  BY <1>1, Over, InHand DEF Return
<1>2. CASE job[w].op = "deleteUser"
  <2> USE <1>2
  <2>1. OnlyThread(w)
    BY DEF OnlyThread, Return, Goto, Inductive, TypeOK
  <2>2. ThreadTypes'
    BY DEF ThreadTypes, Return, Goto, Inductive, TypeOK, Steps, LockedSteps, Containers
  <2>3. pc'[w] = "nextInstance" /\ job'[w] = job[w] /\ todo'[w] = todo[w] /\ lock' = lock
    BY DEF Return, Goto, Inductive, TypeOK
  <2>4. HoldsItsLock(w)'
    <3>1. Knows(job[w])
      BY StepKinds DEF Inductive, ThreadInv, HoldsItsLock
    <3>2. Knows(job[w])'
      BY <3>1, KnowsKept, InHand, <2>3 DEF Knows
    <3>3. QED BY <2>3, <3>2, InHand, StepKinds DEF HoldsItsLock, HasInHand
  <2>5. OwnsItsList(w)'
    <3>1. OwnsItsList(w) /\ pc[w] # "nextInstance" /\ todo[w] \subseteq Ids
      BY StepKinds DEF Inductive, ThreadInv, TypeOK
    <3>2. QED BY <3>1, <2>3 DEF OwnsItsList, InPlace, Aside, Updates, Exists
  <2>6. OwnsItsRow(w)' /\ HasCome(w)'
    BY <2>3, StepKinds, NothingReached DEF OwnsItsRow
  <2>7. QED BY <2>1, <2>2, <2>4, <2>5, <2>6, InHand, Stepped DEF ThreadInv
<1> QED BY <1>1, <1>2

LEMMA Failed ==
    ASSUME Inductive, NEW w \in Threads, pc[w] \in RowSteps, Aside(w),
           NEW s \in Statuses, Fail(w, s)
    PROVE  Inductive'
<1>1. Updates(w)
  <2>1. sess[w].desired \in Intents
    BY InHand DEF Row
  <2>2. QED BY <2>1, InHand, Written DEF Fail
<1> QED BY <1>1, Returned DEF InPlace, Fail

LEMMA Continues ==
    ASSUME Inductive, NEW w \in Threads, pc[w] \in RowSteps, Aside(w),
           NEW next, Successor(w, next), Goto(w, next),
           UNCHANGED <<row, lock, job, sess, todo, failed>>,
           seen' \in [Threads -> Containers],
           HasCome(w)'
    PROVE  Inductive'
<1>1. InPlace(w) /\ row'[job[w].id].desired = sess'[w].desired /\ sess'[w] \in Row
  BY Unwritten, InHand DEF InPlace
<1>2. sess' \in [Threads -> Row \cup {None}]
  BY DEF Inductive, TypeOK
<1> QED BY <1>1, <1>2, InHand, Proceeds

-----------------------------------------------------------------------------
(* The calls several handlers share.                                          *)

LEMMA Budgeted ==
    ASSUME budget \in Budget, Fault \/ DiskFault \/ Works
    PROVE  budget' \in Budget
  BY DEF Fault, DiskFault, Works, Spend, Budget

\* The next step knows at least what this one did.
LEMMA InspectCall ==
    ASSUME Inductive, NEW w \in Threads, pc[w] \in RowSteps,
           NEW absent, NEW present, Inspect(w, absent, present),
           Successor(w, absent), Successor(w, present),
           cont[job[w].id] = "none" => Reached(absent, job[w], sess[w].desired),
           cont[job[w].id] # "none" => Reached(present, job[w], sess[w].desired)
    PROVE  Inductive'
<1> USE DEF account, docker, manager
<1> DEFINE i == job[w].id
           next == IF cont[i] = "none" THEN absent ELSE present
<1>1. TypeOK
  BY DEF Inductive
<1>2. Aside(w)
  BY <1>1, Budgeted DEF Inspect, Aside, WorldTypes, TypeOK
<1>3. CASE Fail(w, "unknown") \/ Fail(w, "error")
  BY <1>2, <1>3, Failed DEF Statuses
<1>4. CASE /\ Goto(w, next)
           /\ seen' = [seen EXCEPT ![w] = cont[i]]
           /\ UNCHANGED <<row, lock, job, sess, todo, failed>>
  <2>1. Successor(w, next) /\ Reached(next, job[w], sess[w].desired)
    OBVIOUS
  <2>2. pc'[w] = next /\ cont' = cont /\ dirs' = dirs
    BY <1>4, <1>1 DEF Goto, TypeOK, Inspect
  <2>3. HasCome(w)'
    BY <2>1, <2>2, <1>4 DEF HasCome, Reached
  <2>4. seen' \in [Threads -> Containers]
    BY <1>4, <1>1, InHand DEF TypeOK
  <2>5. QED BY <1>2, <1>4, <2>1, <2>3, <2>4, Continues
<1>5. QED BY <1>3, <1>4 DEF Inspect

LEMMA IsolateCall ==
    ASSUME Inductive, NEW w \in Threads, pc[w] \in RowSteps,
           NEW next, Isolate(w, next), Successor(w, next),
           Reached(next, job[w], sess[w].desired)
    PROVE  Inductive'
<1> USE DEF account, docker, manager
<1>1. TypeOK
  BY DEF Inductive
<1>2. Aside(w)
  <2>1. net' \in {net, [net EXCEPT ![job[w].id] = @ \cup {deployment}]}
    BY DEF Isolate
  <2>2. net' \in [Ids -> SUBSET Deployments]
    BY <2>1, <1>1, InHand DEF TypeOK
  <2>3. budget' \in Budget
    BY <1>1, Budgeted DEF Isolate, TypeOK
  <2>4. QED BY <1>1, <2>2, <2>3 DEF Isolate, Aside, WorldTypes, TypeOK
<1>3. CASE Fail(w, "error")
  BY <1>2, <1>3, Failed DEF Statuses
<1>4. CASE Goto(w, next) /\ UNCHANGED <<row, lock, job, sess, seen, todo, failed>>
  <2>1. pc'[w] = next /\ cont' = cont /\ dirs' = dirs
    BY <1>4, <1>1 DEF Goto, TypeOK, Isolate
  <2>2. HasCome(w)'
    BY <2>1, <1>4 DEF HasCome, Reached
  <2>3. QED BY <1>2, <1>4, <2>2, <1>1, Continues DEF TypeOK
<1>5. QED BY <1>3, <1>4 DEF Isolate

LEMMA StopCall ==
    ASSUME Inductive, NEW w \in Threads, pc[w] \in RowSteps,
           NEW next, StopContainer(w, next), Successor(w, next),
           next \notin {"delNetwork", "delDirs", "delRow"},
           Reached(next, job[w], sess[w].desired)
    PROVE  Inductive'
<1> USE DEF account, docker, manager
<1>1. TypeOK
  BY DEF Inductive
<1>2. Aside(w)
  <2>1. cont' \in {cont, [cont EXCEPT ![job[w].id] =
                            IF @ \in Running THEN "exited" ELSE @]}
    BY DEF StopContainer
  <2>2. /\ cont' \in [Ids -> Containers]
        /\ \A i \in Ids \ {job[w].id} : cont'[i] = cont[i]
    BY <2>1, <1>1, InHand DEF TypeOK, Containers
  <2>3. budget' \in Budget
    BY <1>1, Budgeted DEF StopContainer, TypeOK
  <2>4. QED BY <1>1, <2>2, <2>3 DEF StopContainer, Aside, WorldTypes, TypeOK
<1>3. CASE Fail(w, "error")
  BY <1>2, <1>3, Failed DEF Statuses
<1>4. CASE Goto(w, next) /\ UNCHANGED <<row, lock, job, sess, seen, todo, failed>>
  <2>1. pc'[w] = next /\ dirs' = dirs
    BY <1>4, <1>1 DEF Goto, TypeOK, StopContainer
  <2>2. HasCome(w)'
    BY <2>1, <1>4 DEF HasCome, Reached
  <2>3. QED BY <1>2, <1>4, <2>2, <1>1, Continues DEF TypeOK
<1>5. QED BY <1>3, <1>4 DEF StopContainer

-----------------------------------------------------------------------------
(* startLocked.                                                               *)

LEMMA StartLocked ==
    ASSUME Inductive, NEW w \in Threads,
           \/ MarkStarting(w) \/ StartInspect(w) \/ StartIsolate(w) \/ StartRestop(w)
           \/ CheckDirectories(w) \/ EnsureNetwork(w) \/ BuildContainer(w)
           \/ BootContainer(w) \/ AwaitHealthy(w) \/ MarkRunning(w)
    PROVE  Inductive'
<1> USE DEF account, docker, manager
<1> DEFINE i == job[w].id
<1>1. /\ pc[w] \in StartSteps /\ pc[w] \in RowSteps /\ pc[w] \notin DeleteSteps
  BY DEF MarkStarting, StartInspect, StartIsolate, StartRestop, CheckDirectories,
         EnsureNetwork, BuildContainer, BootContainer, AwaitHealthy, MarkRunning,
         RowSteps, StartSteps, DeleteSteps
<1>2. TypeOK /\ HasCome(w)
  BY DEF Inductive, ThreadInv
<1>3. pc[w] # "mark" => sess[w].desired = "running"
  BY <1>1, <1>2 DEF HasCome, Reached
<1>4. \A next \in StartSteps : Successor(w, next)
  BY <1>1 DEF Successor, RowSteps
<1>5. \A next \in StartSteps :
        sess[w].desired = "running" => Reached(next, job[w], sess[w].desired)
  BY DEF Reached, StartSteps, StopSteps, DeleteSteps, RepairSteps
<1>6. CASE MarkStarting(w)
  <2>1. /\ Updates(w) /\ row'[i].desired = "running"
        /\ sess' \in [Threads -> Row \cup {None}] /\ sess'[w] \in Row
        /\ sess'[w].desired = "running"
        /\ \A v \in Threads \ {w} : sess'[v] = sess[v]
    BY <1>6, <1>1, Committed DEF MarkStarting, Statuses, Intents
  <2>2. Aside(w)
    BY <1>6, <1>2 DEF MarkStarting, Aside, WorldTypes, TypeOK
  <2>3. /\ Goto(w, "inspect") /\ "inspect" \in StartSteps
        /\ UNCHANGED <<lock, job, seen, todo, failed>>
    BY <1>6 DEF MarkStarting, StartSteps
  <2>4. HasCome(w)'
    BY <2>1, <2>3, <1>2 DEF Goto, TypeOK, HasCome, Reached,
                            StartSteps, StopSteps, DeleteSteps, RepairSteps
  <2>5. QED BY <1>1, <1>2, <1>4, <2>1, <2>2, <2>3, <2>4, InHand, Proceeds
               DEF InPlace, TypeOK
<1>7. CASE StartInspect(w)
  <2>1. "checkDirs" \in StartSteps /\ "isolate" \in StartSteps /\ pc[w] # "mark"
    BY <1>7 DEF StartInspect, StartSteps
  <2>2. QED BY <1>1, <1>3, <1>4, <1>5, <1>7, <2>1, InspectCall DEF StartInspect
<1>8. CASE StartIsolate(w)
  <2> DEFINE next == CASE seen[w] = "unhealthy" -> "restop"
                       [] seen[w] = "exited"    -> "boot"
                       [] OTHER                 -> "await"
  <2>1. next \in StartSteps /\ pc[w] # "mark"
    BY <1>8 DEF StartIsolate, StartSteps
  <2>2. Isolate(w, next)
    BY <1>8 DEF StartIsolate
  <2> HIDE DEF next
  <2>3. QED BY <1>1, <1>3, <1>4, <1>5, <2>1, <2>2, IsolateCall
<1>9. CASE StartRestop(w)
  <2>1. "boot" \in StartSteps /\ pc[w] # "mark"
    BY <1>9 DEF StartRestop, StartSteps
  <2>2. QED BY <1>1, <1>3, <1>4, <1>5, <1>9, <2>1, StopCall DEF StartRestop
<1>10. CASE \/ CheckDirectories(w) \/ EnsureNetwork(w) \/ BuildContainer(w)
            \/ BootContainer(w) \/ AwaitHealthy(w)
  <2>1. Aside(w)
    <3>1. CASE CheckDirectories(w)
      BY <3>1, <1>2, Budgeted DEF CheckDirectories, Aside, WorldTypes, TypeOK
    <3>2. CASE EnsureNetwork(w)
      BY <3>2, <1>2, Budgeted DEF EnsureNetwork, Aside, WorldTypes, TypeOK
    <3>3. CASE BuildContainer(w)
      <4>1. /\ cont' \in {cont, [cont EXCEPT ![i] = "exited"]}
            /\ madeBy' \in {madeBy, [madeBy EXCEPT ![i] = deployment]}
        BY <3>3 DEF BuildContainer
      <4>2. i \in Ids /\ cont \in [Ids -> Containers] /\ madeBy \in [Ids -> Deployments]
            /\ deployment \in Deployments /\ "exited" \in Containers
        BY <1>1, <1>2, InHand DEF TypeOK, Containers
      <4>3. /\ cont' \in [Ids -> Containers] /\ madeBy' \in [Ids -> Deployments]
            /\ \A k \in Ids \ {i} : cont'[k] = cont[k]
        BY <4>1, <4>2
      <4>4. budget' \in Budget
        BY <3>3, <1>2, Budgeted DEF BuildContainer, TypeOK
      <4>5. QED BY <3>3, <4>3, <4>4, <1>2 DEF BuildContainer, Aside, WorldTypes, TypeOK
    <3>4. CASE BootContainer(w)
      <4>1. /\ cont' \in {cont, [cont EXCEPT ![i] = IF @ \in Running THEN @ ELSE "starting"]}
            /\ auto' \in {auto, [auto EXCEPT ![i] = @ + 1]}
            /\ dirs' \in {dirs, [dirs EXCEPT ![i] = IF @ = "lost" THEN "blank" ELSE @]}
        BY <3>4 DEF BootContainer
      <4>2. i \in Ids /\ cont \in [Ids -> Containers] /\ auto \in [Ids -> Nat]
            /\ dirs \in [Ids -> Disks] /\ "starting" \in Containers /\ "blank" \in Disks
        BY <1>1, <1>2, InHand DEF TypeOK, Containers, Running, Disks
      <4>3. /\ cont' \in [Ids -> Containers] /\ auto' \in [Ids -> Nat]
            /\ dirs' \in [Ids -> Disks]
            /\ \A k \in Ids \ {i} : cont'[k] = cont[k] /\ dirs'[k] = dirs[k]
        BY <4>1, <4>2
      <4>4. budget' \in Budget
        BY <3>4, <1>2, Budgeted DEF BootContainer, TypeOK
      <4>5. QED BY <3>4, <4>3, <4>4, <1>2 DEF BootContainer, Aside, WorldTypes, TypeOK
    <3>5. CASE AwaitHealthy(w)
      BY <3>5, <1>2, Budgeted DEF AwaitHealthy, Aside, WorldTypes, TypeOK
    <3>6. QED BY <1>10, <3>1, <3>2, <3>3, <3>4, <3>5
  <2>2. \/ Fail(w, "error")
        \/ \E next \in StartSteps : /\ Goto(w, next)
                                    /\ UNCHANGED <<row, lock, job, sess, seen, todo, failed>>
    BY <1>10 DEF CheckDirectories, EnsureNetwork, BuildContainer, BootContainer,
                 AwaitHealthy, StartSteps
  <2>3. sess[w].desired = "running"
    BY <1>3, <1>10
       DEF CheckDirectories, EnsureNetwork, BuildContainer, BootContainer, AwaitHealthy
  <2>4. CASE Fail(w, "error")
    BY <1>1, <2>1, <2>4, Failed DEF Statuses
  <2>5. ASSUME NEW next \in StartSteps, Goto(w, next),
               UNCHANGED <<row, lock, job, sess, seen, todo, failed>>
        PROVE  Inductive'
    <3>1. HasCome(w)'
      BY <2>3, <2>5, <1>2 DEF HasCome, Reached, Goto, TypeOK,
                              StartSteps, StopSteps, DeleteSteps, RepairSteps
    <3>2. QED BY <1>1, <1>2, <1>4, <2>1, <2>5, <3>1, Continues DEF TypeOK
  <2>6. QED BY <2>2, <2>4, <2>5
<1>11. CASE MarkRunning(w)
  <2>1. Updates(w)
    BY <1>11, <1>1, InHand, Written DEF MarkRunning, Statuses, Intents
  <2>2. Aside(w)
    BY <1>11, <1>2 DEF MarkRunning, Aside, WorldTypes, TypeOK
  <2>3. QED BY <1>1, <1>11, <2>1, <2>2, Returned DEF MarkRunning, InPlace
<1> QED BY <1>6, <1>7, <1>8, <1>9, <1>10, <1>11

-----------------------------------------------------------------------------
(* stopLocked.                                                                *)

LEMMA StopLocked ==
    ASSUME Inductive, NEW w \in Threads,
           \/ StopInspect(w) \/ StopIsolate(w) \/ StopStop(w) \/ StopCheck(w)
           \/ MarkStopped(w)
    PROVE  Inductive'
<1> USE DEF account, docker, manager
<1>1. /\ pc[w] \in StopSteps /\ pc[w] \in RowSteps /\ pc[w] \notin DeleteSteps
  BY DEF StopInspect, StopIsolate, StopStop, StopCheck, MarkStopped,
         RowSteps, StopSteps, DeleteSteps
<1>2. TypeOK /\ HasCome(w)
  BY DEF Inductive, ThreadInv
<1>3. sess[w].desired = "stopped"
  BY <1>1, <1>2 DEF HasCome, Reached
<1>4. \A next \in StopSteps : Successor(w, next) /\ Reached(next, job[w], "stopped")
  BY <1>1
     DEF Successor, RowSteps, Reached, StartSteps, StopSteps, DeleteSteps, RepairSteps
<1>5. /\ "stopDone" \in StopSteps /\ "stopIsolate" \in StopSteps
      /\ "stopStop" \in StopSteps /\ "stopCheck" \in StopSteps
  BY DEF StopSteps
<1>6. CASE StopInspect(w)
  BY <1>1, <1>3, <1>4, <1>5, <1>6, InspectCall DEF StopInspect
<1>7. CASE StopIsolate(w)
  <2> DEFINE next == IF seen[w] \in Running THEN "stopStop" ELSE "stopDone"
  <2>1. next \in StopSteps /\ Isolate(w, next)
    BY <1>5, <1>7 DEF StopIsolate
  <2> HIDE DEF next
  <2>2. QED BY <1>1, <1>3, <1>4, <2>1, IsolateCall
<1>8. CASE StopStop(w)
  BY <1>1, <1>3, <1>4, <1>5, <1>8, StopCall DEF StopStop
<1>9. CASE StopCheck(w)
  <2>1. Aside(w)
    BY <1>9, <1>2, Budgeted DEF StopCheck, Aside, WorldTypes, TypeOK
  <2>2. CASE Fail(w, "unknown") \/ Fail(w, "error")
    BY <1>1, <2>1, <2>2, Failed DEF Statuses
  <2>3. CASE /\ Goto(w, "stopDone")
             /\ UNCHANGED <<row, lock, job, sess, seen, todo, failed>>
    <3>1. HasCome(w)'
      BY <1>3, <2>3, <1>2 DEF HasCome, Reached, Goto, TypeOK,
                              StartSteps, StopSteps, DeleteSteps, RepairSteps
    <3>2. QED BY <1>1, <1>2, <1>4, <1>5, <2>1, <2>3, <3>1, Continues DEF TypeOK
  <2>4. QED BY <1>9, <2>2, <2>3 DEF StopCheck
<1>10. CASE MarkStopped(w)
  <2>1. Updates(w)
    BY <1>10, <1>1, InHand, Written DEF MarkStopped, Statuses, Intents
  <2>2. Aside(w)
    BY <1>10, <1>2 DEF MarkStopped, Aside, WorldTypes, TypeOK
  <2>3. QED BY <1>1, <1>10, <2>1, <2>2, Returned DEF MarkStopped, InPlace
<1> QED BY <1>6, <1>7, <1>8, <1>9, <1>10

-----------------------------------------------------------------------------
(* deleteLocked.                                                              *)

LEMMA DeleteLocked ==
    ASSUME Inductive, NEW w \in Threads,
           \/ MarkDeleting(w) \/ DeleteInspect(w) \/ DeleteStop(w)
           \/ RemoveContainer(w) \/ DeleteCheck(w) \/ RemoveNetwork(w)
           \/ RemoveDirectories(w)
    PROVE  Inductive'
<1> USE DEF account, docker, manager
<1> DEFINE i == job[w].id
<1>1. /\ pc[w] \in DeleteSteps /\ pc[w] \in RowSteps
  BY DEF MarkDeleting, DeleteInspect, DeleteStop, RemoveContainer, DeleteCheck,
         RemoveNetwork, RemoveDirectories, RowSteps, DeleteSteps
<1>2. TypeOK /\ HasCome(w) /\ i \in Ids
  BY <1>1, InHand DEF Inductive, ThreadInv
<1>3. pc[w] # "delMark" => sess[w].desired = "deleted"
  BY <1>1, <1>2 DEF HasCome, Reached
<1>4. \A next \in DeleteSteps : Successor(w, next)
  BY <1>1 DEF Successor, RowSteps
<1>5. \A next \in DeleteSteps \ {"delNetwork", "delDirs", "delRow"} :
        Reached(next, job[w], "deleted")
  BY DEF Reached, StartSteps, StopSteps, DeleteSteps, RepairSteps
<1>6. /\ "delInspect" \in DeleteSteps /\ "delStop" \in DeleteSteps
      /\ "delRemove" \in DeleteSteps /\ "delCheck" \in DeleteSteps
      /\ "delNetwork" \in DeleteSteps /\ "delDirs" \in DeleteSteps
      /\ "delRow" \in DeleteSteps
  BY DEF DeleteSteps
<1>7. CASE MarkDeleting(w)
  <2>1. /\ Updates(w) /\ row'[i].desired = "deleted"
        /\ sess' \in [Threads -> Row \cup {None}] /\ sess'[w] \in Row
        /\ sess'[w].desired = "deleted"
        /\ \A v \in Threads \ {w} : sess'[v] = sess[v]
    BY <1>7, <1>1, Committed DEF MarkDeleting, Statuses, Intents
  <2>2. Aside(w)
    BY <1>7, <1>2 DEF MarkDeleting, Aside, WorldTypes, TypeOK
  <2>3. /\ Goto(w, "delInspect") /\ UNCHANGED <<lock, job, seen, todo, failed>>
    BY <1>7 DEF MarkDeleting
  <2>4. HasCome(w)'
    BY <2>1, <2>3, <1>2 DEF Goto, TypeOK, HasCome, Reached,
                            StartSteps, StopSteps, DeleteSteps, RepairSteps
  <2>5. QED BY <1>1, <1>2, <1>4, <1>6, <2>1, <2>2, <2>3, <2>4, InHand, Proceeds
               DEF InPlace, TypeOK
<1>8. CASE DeleteInspect(w)
  <2> DEFINE present == IF cont[i] \in Running THEN "delStop" ELSE "delRemove"
  <2>1. present \in DeleteSteps /\ Inspect(w, "delNetwork", present) /\ pc[w] # "delMark"
    BY <1>6, <1>8 DEF DeleteInspect
  <2>2. cont[i] = "none" => Reached("delNetwork", job[w], "deleted")
    BY DEF Reached, StartSteps, StopSteps, DeleteSteps, RepairSteps
  <2>3. Reached(present, job[w], "deleted")
    BY <1>5, <1>6
  <2> HIDE DEF present
  <2>4. QED BY <1>1, <1>3, <1>4, <1>6, <2>1, <2>2, <2>3, InspectCall
<1>9. CASE DeleteStop(w)
  <2>1. pc[w] # "delMark" /\ StopContainer(w, "delRemove")
    BY <1>9 DEF DeleteStop
  <2>2. QED BY <1>1, <1>3, <1>4, <1>5, <1>6, <2>1, StopCall
<1>10. CASE RemoveContainer(w) \/ DeleteCheck(w) \/ RemoveNetwork(w) \/ RemoveDirectories(w)
  <2>1. Aside(w)
    <3>1. CASE RemoveContainer(w)
      <4>1. cont' \in {cont, [cont EXCEPT ![i] = IF @ \in Running THEN @ ELSE "none"]}
        BY <3>1 DEF RemoveContainer
      <4>2. cont \in [Ids -> Containers] /\ "none" \in Containers
        BY <1>2 DEF TypeOK, Containers
      <4>3. /\ cont' \in [Ids -> Containers]
            /\ \A k \in Ids \ {i} : cont'[k] = cont[k]
        BY <4>1, <4>2, <1>2
      <4>4. budget' \in Budget
        BY <3>1, <1>2, Budgeted DEF RemoveContainer, TypeOK
      <4>5. QED BY <3>1, <4>3, <4>4, <1>2 DEF RemoveContainer, Aside, WorldTypes, TypeOK
    <3>2. CASE DeleteCheck(w)
      BY <3>2, <1>2, Budgeted DEF DeleteCheck, Aside, WorldTypes, TypeOK
    <3>3. CASE RemoveNetwork(w)
      <4>1. net' \in {net, [net EXCEPT ![i] = IF cont[i] \in Running THEN @
                                              ELSE @ \ {deployment}]}
        BY <3>3 DEF RemoveNetwork
      <4>2. net' \in [Ids -> SUBSET Deployments]
        BY <4>1, <1>2 DEF TypeOK
      <4>3. budget' \in Budget
        BY <3>3, <1>2, Budgeted DEF RemoveNetwork, TypeOK
      <4>4. QED BY <3>3, <4>2, <4>3, <1>2 DEF RemoveNetwork, Aside, WorldTypes, TypeOK
    <3>4. CASE RemoveDirectories(w)
      <4>1. dirs \in [Ids -> Disks] /\ {"absent", "partial", dirs[i]} \subseteq Disks
        BY <1>2 DEF TypeOK, Disks
      <4>2. PICK d \in {"absent", "partial", dirs[i]} : dirs' = [dirs EXCEPT ![i] = d]
        BY <3>4 DEF RemoveDirectories
      <4>3. /\ dirs' \in [Ids -> Disks]
            /\ \A k \in Ids \ {i} : dirs'[k] = dirs[k]
        BY <4>1, <4>2, <1>2
      <4>4. budget' \in Budget
        BY <3>4, <1>2, Budgeted DEF RemoveDirectories, TypeOK
      <4>5. QED BY <3>4, <4>3, <4>4, <1>2
                   DEF RemoveDirectories, Aside, WorldTypes, TypeOK
    <3>5. QED BY <1>10, <3>1, <3>2, <3>3, <3>4
  <2>2. sess[w].desired = "deleted"
    BY <1>3, <1>10 DEF RemoveContainer, DeleteCheck, RemoveNetwork, RemoveDirectories
  <2>3. CASE Fail(w, "error") \/ Fail(w, "unknown")
    BY <1>1, <2>1, <2>3, Failed DEF Statuses
  <2>4. ASSUME NEW next \in DeleteSteps, Goto(w, next),
               UNCHANGED <<row, lock, job, sess, seen, todo, failed>>,
               \/ next = "delCheck"
               \/ next \in {"delNetwork", "delDirs"} /\ cont'[i] = "none"
               \/ next = "delRow" /\ cont'[i] = "none" /\ dirs'[i] = "absent"
        PROVE  Inductive'
    <3>1. HasCome(w)'
      BY <2>2, <2>4, <1>2 DEF HasCome, Reached, Goto, TypeOK,
                              StartSteps, StopSteps, DeleteSteps, RepairSteps
    <3>2. QED BY <1>1, <1>2, <1>4, <2>1, <2>4, <3>1, Continues DEF TypeOK
  <2>5. \/ Fail(w, "error") \/ Fail(w, "unknown")
        \/ \E next \in DeleteSteps :
             /\ Goto(w, next)
             /\ UNCHANGED <<row, lock, job, sess, seen, todo, failed>>
             /\ \/ next = "delCheck"
                \/ next \in {"delNetwork", "delDirs"} /\ cont'[i] = "none"
                \/ next = "delRow" /\ cont'[i] = "none" /\ dirs'[i] = "absent"
    <3>1. CASE RemoveContainer(w)
      BY <3>1, <1>6 DEF RemoveContainer
    <3>2. CASE DeleteCheck(w)
      BY <3>2, <1>6 DEF DeleteCheck
    <3>3. CASE RemoveNetwork(w)
      BY <3>3, <1>6, <1>2 DEF RemoveNetwork, HasCome, Reached
    <3>4. CASE RemoveDirectories(w)
      BY <3>4, <1>6, <1>2 DEF RemoveDirectories, HasCome, Reached, TypeOK
    <3>5. QED BY <1>10, <3>1, <3>2, <3>3, <3>4
  <2>6. QED BY <2>3, <2>4, <2>5
<1> QED BY <1>7, <1>8, <1>9, <1>10

-----------------------------------------------------------------------------
(* reconcileLocked, once it has inspected the container.                      *)

LEMMA RepairLocked ==
    ASSUME Inductive, NEW w \in Threads,
           \/ ReconcileIsolate(w) \/ ReconcileDirectories(w) \/ SettleLegacy(w)
           \/ SettleStopped(w) \/ SettleHealthy(w) \/ SettleExhausted(w)
           \/ SettleLater(w) \/ SettleRetry(w) \/ ReconcileHealthy(w)
           \/ ReconcileReset(w) \/ ReconcileExhausted(w) \/ ReconcileStop(w)
    PROVE  Inductive'
<1> USE DEF account, docker, manager
<1> DEFINE i == job[w].id
<1>1. /\ pc[w] \in RepairSteps /\ pc[w] \in RowSteps /\ pc[w] \notin DeleteSteps
  BY DEF ReconcileIsolate, ReconcileDirectories, SettleLegacy, SettleStopped,
         SettleHealthy, SettleExhausted, SettleLater, SettleRetry, ReconcileHealthy,
         ReconcileReset, ReconcileExhausted, ReconcileStop, Wanted,
         RowSteps, RepairSteps, DeleteSteps
<1>2. /\ TypeOK /\ HasCome(w) /\ i \in Ids /\ sess[w] \in Row
      /\ sess[w].desired \in Intents /\ sess[w].status \in Statuses
      /\ sess[w].attempts \in Nat
  BY <1>1, InHand DEF Inductive, ThreadInv, Row
<1>3. /\ sess[w].desired # "deleted"
      /\ pc[w] \in {"recHealthy", "recReset", "recExhausted", "recStop"}
           => sess[w].desired = "running"
  BY <1>1, <1>2 DEF HasCome, Reached
<1>4. \A next \in RowSteps \ DeleteSteps : Successor(w, next)
  BY <1>1 DEF Successor
<1>5. /\ "recIsolate" \in RowSteps \ DeleteSteps /\ "recDirs" \in RowSteps \ DeleteSteps
      /\ "recSettle" \in RowSteps \ DeleteSteps /\ "recHealthy" \in RowSteps \ DeleteSteps
      /\ "recReset" \in RowSteps \ DeleteSteps /\ "recExhausted" \in RowSteps \ DeleteSteps
      /\ "recStop" \in RowSteps \ DeleteSteps /\ "mark" \in RowSteps \ DeleteSteps
      /\ "stopInspect" \in RowSteps \ DeleteSteps
  BY DEF RowSteps, StartSteps, StopSteps, DeleteSteps, RepairSteps
<1>6. \A j, d : d # "deleted" => Reached("recDirs", j, d) /\ Reached("recSettle", j, d)
  BY DEF Reached, StartSteps, StopSteps, DeleteSteps, RepairSteps
<1>7. \A j : /\ Reached("mark", j, "running") /\ Reached("recStop", j, "running")
             /\ Reached("recHealthy", j, "running") /\ Reached("recReset", j, "running")
             /\ Reached("recExhausted", j, "running") /\ Reached("stopInspect", j, "stopped")
  BY DEF Reached, StartSteps, StopSteps, DeleteSteps, RepairSteps
<1>8. CASE ReconcileIsolate(w)
  BY <1>1, <1>3, <1>4, <1>5, <1>6, <1>8, IsolateCall DEF ReconcileIsolate
<1>9. CASE ReconcileDirectories(w)
  <2>1. Aside(w)
    BY <1>9, <1>2, Budgeted DEF ReconcileDirectories, Aside, WorldTypes, TypeOK
  <2>2. CASE Fail(w, "error")
    BY <1>1, <2>1, <2>2, Failed DEF Statuses
  <2>3. CASE Goto(w, "recSettle") /\ UNCHANGED <<row, lock, job, sess, seen, todo, failed>>
    <3>1. HasCome(w)'
      BY <2>3, <1>2, <1>3, <1>6 DEF HasCome, Reached, Goto, TypeOK
    <3>2. QED BY <1>1, <1>2, <1>4, <1>5, <2>1, <2>3, <3>1, Continues DEF TypeOK
  <2>4. QED BY <1>9, <2>2, <2>3 DEF ReconcileDirectories
<1>10. CASE SettleLegacy(w)
  <2> DEFINE d == IF seen[w] \in Running THEN "running" ELSE "stopped"
  <2>1. d \in Intents /\ d # "deleted" /\ Commit(w, sess[w].status, d)
    BY <1>10 DEF SettleLegacy, Intents
  <2>2. Aside(w)
    BY <1>10, <1>2 DEF SettleLegacy, Aside, WorldTypes, TypeOK
  <2>3. /\ pc[w] = "recSettle" /\ pc' = pc /\ UNCHANGED <<lock, job, seen, todo, failed>>
    BY <1>10 DEF SettleLegacy
  <2> HIDE DEF d
  <2>4. /\ Updates(w) /\ row'[i].desired = d
        /\ sess' \in [Threads -> Row \cup {None}] /\ sess'[w] \in Row
        /\ sess'[w].desired = d
        /\ \A v \in Threads \ {w} : sess'[v] = sess[v]
    BY <1>1, <1>2, <2>1, Committed
  <2>5. Goto(w, "recSettle")
    BY <2>3, <1>2 DEF Goto, TypeOK
  <2>6. HasCome(w)'
    BY <1>6, <2>1, <2>3, <2>4 DEF HasCome, Reached
  <2>7. QED BY <1>1, <1>2, <1>4, <1>5, <2>2, <2>3, <2>4, <2>5, <2>6, InHand, Proceeds
            DEF InPlace, TypeOK
<1>11. CASE SettleStopped(w)
  <2>1. Aside(w)
    BY <1>11, <1>2 DEF SettleStopped, Aside, WorldTypes, TypeOK
  <2>2. CASE Fail(w, "error")
    BY <1>1, <2>1, <2>2, Failed DEF Statuses
  <2>3. CASE Goto(w, "stopInspect") /\ UNCHANGED <<row, lock, job, sess, seen, todo, failed>>
    <3>1. HasCome(w)'
      BY <2>3, <1>2, <1>7, <1>11 DEF SettleStopped, HasCome, Reached, Goto, TypeOK
    <3>2. QED BY <1>1, <1>2, <1>4, <1>5, <2>1, <2>3, <3>1, Continues DEF TypeOK
  <2>4. QED BY <1>11, <2>2, <2>3 DEF SettleStopped
<1>12. CASE SettleHealthy(w)
  <2>1. Aside(w)
    BY <1>12, <1>2 DEF SettleHealthy, Aside, WorldTypes, TypeOK
  <2>2. /\ Goto(w, "recHealthy") /\ sess[w].desired = "running"
        /\ UNCHANGED <<row, lock, job, sess, seen, todo, failed>>
    BY <1>12 DEF SettleHealthy
  <2>3. HasCome(w)'
    BY <2>2, <1>2, <1>7 DEF HasCome, Reached, Goto, TypeOK
  <2>4. QED BY <1>1, <1>2, <1>4, <1>5, <2>1, <2>2, <2>3, Continues DEF TypeOK
<1>13. CASE SettleExhausted(w)
  <2>1. Aside(w)
    BY <1>13, <1>2 DEF SettleExhausted, Aside, WorldTypes, TypeOK
  <2>2. CASE Fail(w, "error")
    BY <1>1, <2>1, <2>2, Failed DEF Statuses
  <2>3. CASE Goto(w, "recExhausted") /\ UNCHANGED <<row, lock, job, sess, seen, todo, failed>>
    <3>1. HasCome(w)'
      BY <2>3, <1>2, <1>7, <1>13
         DEF SettleExhausted, Wanted, HasCome, Reached, Goto, TypeOK
    <3>2. QED BY <1>1, <1>2, <1>4, <1>5, <2>1, <2>3, <3>1, Continues DEF TypeOK
  <2>4. CASE Release(w) /\ UNCHANGED row
    BY <1>1, <2>1, <2>4, InHand, Unwritten, InHand, Over DEF InPlace
  <2>5. QED BY <1>13, <2>2, <2>3, <2>4 DEF SettleExhausted
<1>14. CASE SettleLater(w)
  <2>1. Aside(w)
    BY <1>14, <1>2 DEF SettleLater, Aside, WorldTypes, TypeOK
  <2>2. QED BY <1>1, <1>14, <2>1, InHand, Unwritten, InHand, Over
               DEF InPlace, SettleLater
<1>15. CASE SettleRetry(w)
  <2> DEFINE next == IF seen[w] = "unhealthy" THEN "recStop" ELSE "mark"
  <2>1. /\ Goto(w, next) /\ next \in {"recStop", "mark"} /\ sess[w].desired = "running"
        /\ UNCHANGED <<lock, job, sess, seen, todo, failed>>
    BY <1>15 DEF SettleRetry, Wanted
  <2>2. Aside(w)
    BY <1>15, <1>2 DEF SettleRetry, Aside, WorldTypes, TypeOK
  <2>3. Updates(w) /\ row'[i].desired = sess[w].desired
    <3> DEFINE n == sess[w].attempts + 1
    <3>1. n \in Nat
      BY <1>2
    <3>2. row' = [row EXCEPT ![i] = [@ EXCEPT !.attempts = n, !.wait = TRUE]]
      BY <1>15 DEF SettleRetry
    <3> HIDE DEF n
    <3>3. QED BY <1>1, <3>1, <3>2, InHand, Recounted
  <2> HIDE DEF next
  <2>4. HasCome(w)'
    BY <2>1, <1>2, <1>7 DEF HasCome, Reached, Goto, TypeOK
  <2>5. QED BY <1>1, <1>2, <1>4, <1>5, <2>1, <2>2, <2>3, <2>4, InHand, Proceeds
            DEF InPlace, TypeOK
<1>16. CASE ReconcileHealthy(w)
  <2>1. Aside(w)
    BY <1>16, <1>2 DEF ReconcileHealthy, Aside, WorldTypes, TypeOK
  <2>2. Updates(w) /\ row'[i].desired = "running"
    BY <1>1, <1>16, InHand, Written DEF ReconcileHealthy, Statuses, Intents
  <2>3. CASE Release(w)
    BY <1>1, <2>1, <2>2, <2>3, InHand, Over DEF InPlace
  <2>4. CASE Goto(w, "recReset") /\ UNCHANGED <<lock, job, sess, seen, todo, failed>>
    <3>1. sess[w].desired = "running"
      BY <1>3, <1>16 DEF ReconcileHealthy
    <3>2. HasCome(w)'
      BY <2>4, <3>1, <1>2, <1>7 DEF HasCome, Reached, Goto, TypeOK
    <3>3. QED BY <1>1, <1>2, <1>4, <1>5, <2>1, <2>2, <2>4, <3>1, <3>2, InHand, Proceeds
              DEF InPlace, TypeOK
  <2>5. QED BY <1>16, <2>3, <2>4 DEF ReconcileHealthy
<1>17. CASE ReconcileReset(w)
  <2>1. Aside(w)
    <3>1. auto' \in [Ids -> Nat]
      BY <1>17, <1>2 DEF ReconcileReset, TypeOK
    <3>2. QED BY <1>17, <1>2, <3>1 DEF ReconcileReset, Aside, WorldTypes, TypeOK
  <2>2. Updates(w)
    BY <1>1, <1>17, InHand, Recounted DEF ReconcileReset
  <2>3. QED BY <1>1, <1>17, <2>1, <2>2, InHand, Over DEF InPlace, ReconcileReset
<1>18. CASE ReconcileExhausted(w)
  <2>1. Aside(w)
    <3>1. cont' \in {cont, [cont EXCEPT ![i] = IF @ \in Running THEN "exited" ELSE @]}
      BY <1>18 DEF ReconcileExhausted
    <3>2. cont \in [Ids -> Containers] /\ "exited" \in Containers
      BY <1>2 DEF TypeOK, Containers
    <3>3. /\ cont' \in [Ids -> Containers]
          /\ \A k \in Ids \ {i} : cont'[k] = cont[k]
      BY <3>1, <3>2, <1>2
    <3>4. budget' \in Budget
      BY <1>18, <1>2, Budgeted DEF ReconcileExhausted, TypeOK
    <3>5. QED BY <1>18, <3>3, <3>4, <1>2
                 DEF ReconcileExhausted, Aside, WorldTypes, TypeOK
  <2>2. QED BY <1>1, <1>18, <2>1, Failed DEF ReconcileExhausted, Statuses
<1>19. CASE ReconcileStop(w)
  <2>1. StopContainer(w, "mark") /\ sess[w].desired = "running"
    BY <1>3, <1>19 DEF ReconcileStop
  <2>2. QED BY <1>1, <1>4, <1>5, <1>7, <2>1, StopCall
<1> QED BY <1>8, <1>9, <1>10, <1>11, <1>12, <1>13, <1>14, <1>15, <1>16, <1>17, <1>18, <1>19

-----------------------------------------------------------------------------
(* A step that has no row in hand changes no row another handler holds.       *)

RestTypes ==
    /\ WorldTypes
    /\ user \in [Users -> Accounts]
    /\ quota \in [Users -> Quotas]
    /\ row \in [Ids -> Row \cup {None}]
    /\ request \in [Users -> [Keys -> Ids \cup {"unused", "gone"}]]
    /\ tasks \in SUBSET [op : {"task"}, user : Users, id : Ids, key : {None}]
    /\ sweep \in [phase : {"rest", "users", "ids"}, users : SUBSET Users,
                  ids : SUBSET Ids]
    /\ closing \in BOOLEAN
    /\ deployment \in Deployments
    /\ issued \in SUBSET Ids

\* No row comes back or changes hands.
Keeps ==
    /\ issued \subseteq issued'
    /\ \A i \in issued : Exists(i)' => Exists(i) /\ row'[i].owner = row[i].owner

\* The instances of the user v works for stay as v knows them.
Spares(v) ==
    \A i \in issued : Exists(i) /\ row[i].owner = job[v].user =>
        /\ Exists(i)' /\ row'[i].owner = row[i].owner
        /\ row'[i].desired = row[i].desired
        /\ cont[i] = "none" => cont'[i] = "none"
        /\ dirs[i] = "absent" => dirs'[i] = "absent"

Quiet ==
    /\ issued' = issued
    /\ \A i \in Ids :
         /\ Exists(i)' <=> Exists(i)
         /\ Exists(i) => /\ row'[i].owner = row[i].owner
                         /\ row'[i].desired = row[i].desired
         /\ cont[i] = "none" => cont'[i] = "none"
         /\ dirs[i] = "absent" => dirs'[i] = "absent"

Peopled == \A i \in Ids : Exists(i) => user[row[i].owner] # "absent"

LEMMA KnownStill ==
    ASSUME Keeps, NEW j, Knows(j)
    PROVE  Knows(j)'
  BY DEF Keeps, Knows, Exists

LEMMA Spared ==
    ASSUME Inductive, Keeps, NEW v \in Threads,
           pc'[v] = pc[v], job'[v] = job[v], sess'[v] = sess[v], todo'[v] = todo[v],
           pc[v] \in LockedSteps => lock'[job[v].user] = v /\ Spares(v)
    PROVE  ThreadInv(v)'
<1>1. ThreadInv(v) /\ issued \subseteq Ids
  BY DEF Inductive, TypeOK
<1>2. HoldsItsLock(v)'
  <2>1. pc[v] # "idle" => Knows(job[v])
    BY <1>1 DEF ThreadInv, HoldsItsLock
  <2>2. pc[v] # "idle" => Knows(job[v])'
    BY <2>1, KnownStill DEF Knows
  <2>3. QED BY <2>2, <1>1 DEF ThreadInv, HoldsItsLock
<1>3. pc[v] \in RowSteps => /\ job[v].id \in issued /\ Exists(job[v].id)
                            /\ row[job[v].id].owner = job[v].user /\ Spares(v)
  <2>1. pc[v] \in RowSteps => pc[v] \in LockedSteps
    BY StepKinds
  <2>2. QED BY <2>1, <1>1, InHand DEF ThreadInv, OwnsItsRow, HasInHand
<1>4. OwnsItsRow(v)'
  BY <1>1, <1>3 DEF ThreadInv, OwnsItsRow, Spares, Keeps
<1>5. OwnsItsList(v)'
  <2>1. todo[v] # {} => pc[v] \in LockedSteps
    BY <1>1, StepKinds DEF ThreadInv, OwnsItsList
  <2>2. todo[v] # {} => Spares(v)
    BY <2>1
  <2>3. QED BY <2>2, <1>1 DEF ThreadInv, OwnsItsList, Spares, Keeps
<1>6. HasCome(v)'
  <2>1. CASE pc[v] \in RowSteps
    BY <2>1, <1>1, <1>3 DEF ThreadInv, HasCome, Reached, Spares, Keeps
  <2>2. CASE pc[v] \notin RowSteps
    BY <2>2, NothingReached
  <2>3. QED BY <2>1, <2>2
<1> QED BY <1>2, <1>4, <1>5, <1>6 DEF ThreadInv

LEMMA QuietSpares ==
    ASSUME Inductive, Quiet
    PROVE  Keeps /\ \A v \in Threads : Spares(v)
<1>1. issued \subseteq Ids
  BY DEF Inductive, TypeOK
<1> QED BY <1>1 DEF Quiet, Keeps, Spares

LEMMA LockHeld ==
    ASSUME Inductive, NEW v \in Threads, pc[v] \in LockedSteps
    PROVE  job[v].user \in Users /\ lock[job[v].user] = v /\ Knows(job[v]) /\ pc[v] # "idle"
  BY StepKinds DEF Inductive, ThreadInv, HoldsItsLock, Knows

LEMMA Typed ==
    ASSUME RestTypes, ThreadTypes
    PROVE  TypeOK
  BY DEF RestTypes, ThreadTypes, WorldTypes, TypeOK

\* What a step on no instance in hand must answer for.
LEMMA QuietGlobal ==
    ASSUME Inductive, Quiet, Peopled'
    PROVE  Issued' /\ NoOrphanResources'
  BY DEF Inductive, Issued, NoOrphanResources, Quiet, Peopled, Exists

LEMMA QuietStep ==
    ASSUME Inductive, NEW w \in Threads, Quiet, OnlyThread(w), RestTypes', ThreadTypes',
           TasksKnow', Peopled', ThreadInv(w)'
    PROVE  Inductive'
<1>1. TypeOK'
  BY DEF RestTypes, ThreadTypes, WorldTypes, TypeOK
<1>2. \A v \in Threads \ {w} : ThreadInv(v)'
  BY QuietSpares, Spared, LockHeld DEF OnlyThread
<1> QED BY <1>1, <1>2, QuietGlobal DEF Inductive

\* The world moves, no thread does.
LEMMA WorldStep ==
    ASSUME Inductive, Quiet, RestTypes', Peopled', UNCHANGED <<lock, tasks, thread>>
    PROVE  Inductive'
<1> USE DEF thread
<1>1. TypeOK'
  BY DEF Inductive, RestTypes, WorldTypes, TypeOK
<1>2. \A v \in Threads : ThreadInv(v)'
  BY QuietSpares, Spared, LockHeld
<1>3. TasksKnow'
  BY QuietSpares, KnownStill DEF Inductive, TasksKnow
<1> QED BY <1>1, <1>2, <1>3, QuietGlobal DEF Inductive

LEMMA QuietRelease ==
    ASSUME Inductive, NEW w \in Threads, pc[w] \in LockedSteps, Release(w),
           Quiet, RestTypes', TasksKnow', Peopled'
    PROVE  Inductive'
  BY LockHeld, Released, QuietStep

\* No row, container, directory or identifier changes.
Still == UNCHANGED <<row, cont, dirs, issued>>

LEMMA StillQuiet ==
    ASSUME Inductive, Still, \A u \in Users : user'[u] = "absent" => user[u] = "absent"
    PROVE  Quiet /\ Peopled' /\ (tasks' \subseteq tasks => TasksKnow')
<1>1. Quiet
  BY DEF Still, Quiet, Exists
<1>2. \A i \in Ids : Exists(i) => row[i].owner \in Users /\ user[row[i].owner] # "absent"
  BY IdentityAssumption DEF Inductive, TypeOK, NoOrphanResources, Exists, Row
<1>3. Peopled'
  BY <1>2 DEF Peopled, Still, Exists
<1>4. ASSUME tasks' \subseteq tasks PROVE TasksKnow'
  BY <1>1, <1>4, QuietSpares, KnownStill DEF Inductive, TasksKnow
<1> QED BY <1>1, <1>3, <1>4

-----------------------------------------------------------------------------
(* Handlers arrive, wait, give up and are refused.                            *)

LEMMA Queued ==
    ASSUME Inductive, NEW w \in Threads, pc[w] = "idle", Goto(w, "lock"),
           NEW j, j \in Job, Knows(j), job' = [job EXCEPT ![w] = j],
           Still, UNCHANGED <<lock, sess, seen, todo, failed>>,
           \A u \in Users : user'[u] = "absent" => user[u] = "absent",
           tasks' \subseteq tasks, RestTypes'
    PROVE  Inductive'
<1>1. Quiet /\ Peopled' /\ TasksKnow'
  BY StillQuiet
<1>2. /\ pc'[w] = "lock" /\ job'[w] = j /\ todo'[w] = todo[w]
      /\ OnlyThread(w) /\ ThreadTypes'
  BY DEF Goto, OnlyThread, ThreadTypes, Inductive, TypeOK, Steps
<1>3. todo[w] = {}
  BY StepKinds DEF Inductive, ThreadInv, OwnsItsList
<1>4. Knows(j)'
  BY <1>1, QuietSpares, KnownStill
<1>5. HoldsItsLock(w)'
  BY <1>2, <1>4, StepKinds DEF HoldsItsLock, Knows
<1>6. OwnsItsRow(w)' /\ OwnsItsList(w)' /\ HasCome(w)'
  BY <1>2, <1>3, StepKinds, NothingReached DEF OwnsItsRow, OwnsItsList
<1> QED BY <1>1, <1>2, <1>5, <1>6, QuietStep DEF ThreadInv

LEMMA Requests ==
    ASSUME Inductive, NEW w \in Threads,
           \/ \E u \in Users, k \in Keys \cup {None} : RequestCreate(w, u, k)
           \/ \E i \in Ids, op \in {"start", "stop", "delete", "upload"} :
                RequestOnInstance(w, op, i)
           \/ \E u \in Users : RequestDeleteUser(w, u)
    PROVE  Inductive'
<1> USE DEF account, docker, manager
<1>1. ASSUME NEW op \in EntrySteps, NEW u \in Users, NEW i \in Ids \cup {None},
             NEW k \in Keys \cup {None}, Request(w, op, u, i, k),
             Knows([op |-> op, user |-> u, id |-> i, key |-> k]),
             user' \in [Users -> Accounts],
             \A v \in Users : user'[v] = "absent" => user[v] = "absent"
      PROVE  Inductive'
  <2> DEFINE j == [op |-> op, user |-> u, id |-> i, key |-> k]
  <2>1. j \in Job
    BY DEF Job, Ops, EntrySteps
  <2>2. /\ pc[w] = "idle" /\ Goto(w, "lock") /\ job' = [job EXCEPT ![w] = j]
        /\ Still /\ UNCHANGED <<lock, sess, seen, todo, failed, tasks>>
    BY <1>1 DEF Request, Submit, Still
  <2>3. budget' \in Budget
    <3>1. budget \in Budget /\ Spend("request")
      BY <1>1 DEF Request, Inductive, TypeOK
    <3>2. QED BY <3>1 DEF Spend, Budget
  <2>4. RestTypes'
    BY <1>1, <2>3 DEF Request, Submit, RestTypes, WorldTypes, Inductive, TypeOK
  <2> HIDE DEF j
  <2>5. Knows(j)
    BY <1>1 DEF j
  <2>6. QED BY <1>1, <2>1, <2>2, <2>4, <2>5, Queued
<1>2. user \in [Users -> Accounts] /\ row \in [Ids -> Row \cup {None}]
  BY DEF Inductive, TypeOK
<1>3. ASSUME NEW u \in Users, NEW k \in Keys \cup {None}, RequestCreate(w, u, k)
      PROVE  Inductive'
  <2>1. Knows([op |-> "create", user |-> u, id |-> None, key |-> k]) /\ "create" \in EntrySteps
    BY DEF Knows, EntrySteps
  <2>2. QED BY <1>1, <1>2, <1>3, <2>1 DEF RequestCreate
<1>4. ASSUME NEW i \in Ids, NEW op \in {"start", "stop", "delete", "upload"},
             RequestOnInstance(w, op, i)
      PROVE  Inductive'
  <2>1. Exists(i) /\ i \in issued /\ row[i].owner \in Users /\ op \in EntrySteps
    BY <1>2, <1>4, IdentityAssumption
       DEF RequestOnInstance, Exists, Inductive, Issued, Row, EntrySteps
  <2>2. Knows([op |-> op, user |-> row[i].owner, id |-> i, key |-> None])
    BY <2>1 DEF Knows, Exists
  <2>3. QED BY <1>1, <1>2, <1>4, <2>1, <2>2 DEF RequestOnInstance
<1>5. ASSUME NEW u \in Users, RequestDeleteUser(w, u)
      PROVE  Inductive'
  <2>1. /\ Knows([op |-> "deleteUser", user |-> u, id |-> None, key |-> None])
        /\ "deleteUser" \in EntrySteps
    BY DEF Knows, EntrySteps
  <2>2. /\ user' \in [Users -> Accounts]
        /\ \A v \in Users : user'[v] = "absent" => user[v] = "absent"
    BY <1>2, <1>5 DEF RequestDeleteUser, MarkUserDeleting, Accounts
  <2>3. QED BY <1>1, <1>5, <2>1, <2>2 DEF RequestDeleteUser
<1> QED BY <1>3, <1>4, <1>5

LEMMA TaskRuns ==
    ASSUME Inductive, NEW w \in Threads, NEW t \in tasks, RunTask(w, t)
    PROVE  Inductive'
<1> USE DEF account, docker
<1>1. t \in Job /\ Knows(t)
  BY DEF Inductive, TypeOK, TasksKnow, Job, Ops
<1>2. /\ pc[w] = "idle" /\ Goto(w, "lock") /\ job' = [job EXCEPT ![w] = t]
      /\ Still /\ UNCHANGED <<lock, sess, seen, todo, failed, user>>
      /\ tasks' \subseteq tasks
  BY DEF RunTask, Still
<1>3. RestTypes'
  BY DEF RunTask, RestTypes, WorldTypes, Inductive, TypeOK
<1> QED BY <1>1, <1>2, <1>3, Queued

LEMMA LockTaken ==
    ASSUME Inductive, NEW w \in Threads, Acquire(w)
    PROVE  Inductive'
<1> USE DEF account, docker, manager
<1>1. pc[w] # "idle" /\ Knows(job[w]) /\ todo[w] = {}
  BY StepKinds DEF Acquire, Inductive, ThreadInv, HoldsItsLock, OwnsItsList
<1>2. job[w].user \in Users /\ job[w].op \in EntrySteps
  BY <1>1 DEF Knows
<1>3. /\ pc'[w] = job[w].op /\ lock'[job[w].user] = w
      /\ job' = job /\ todo' = todo /\ OnlyThread(w)
  BY <1>2, IdentityAssumption DEF Acquire, Goto, OnlyThread, Inductive, TypeOK
<1>4. ThreadTypes'
  BY <1>2, StepKinds DEF Acquire, Goto, ThreadTypes, Inductive, TypeOK, Steps
<1>5. RestTypes'
  BY DEF Acquire, RestTypes, WorldTypes, Inductive, TypeOK
<1>6. Quiet /\ Peopled' /\ TasksKnow'
  BY StillQuiet DEF Acquire, Still
<1>7. Knows(job[w])'
  BY <1>1, <1>3, <1>6, QuietSpares, KnownStill DEF Knows
<1>8. HoldsItsLock(w)'
  BY <1>2, <1>3, <1>7, StepKinds DEF HoldsItsLock
<1>9. OwnsItsRow(w)' /\ OwnsItsList(w)' /\ HasCome(w)'
  BY <1>1, <1>2, <1>3, StepKinds, NothingReached DEF OwnsItsRow, OwnsItsList
<1> QED BY <1>3, <1>4, <1>5, <1>6, <1>8, <1>9, QuietStep DEF ThreadInv

LEMMA GivenUp ==
    ASSUME Inductive, NEW w \in Threads, GiveUp(w)
    PROVE  Inductive'
<1> USE DEF account, docker, manager
<1>1. todo[w] = {}
  BY StepKinds DEF GiveUp, Inductive, ThreadInv, OwnsItsList
<1>2. pc'[w] = "idle" /\ job'[w] = NoJob /\ todo'[w] = {} /\ OnlyThread(w) /\ ThreadTypes'
  BY <1>1
     DEF GiveUp, Goto, OnlyThread, ThreadTypes, Inductive, TypeOK, Steps, NoJob, Job, Ops
<1>3. RestTypes'
  BY Budgeted DEF GiveUp, RestTypes, WorldTypes, Inductive, TypeOK
<1>4. Quiet /\ Peopled' /\ TasksKnow'
  BY StillQuiet DEF GiveUp, Still
<1> QED BY <1>2, <1>3, <1>4, Idle, QuietStep

\* A handler that returns without having changed anything.
LEMMA Leaves ==
    ASSUME Inductive, NEW w \in Threads, pc[w] \in LockedSteps, Release(w),
           UNCHANGED <<account, row, request, docker, dirs, manager, issued, auto>>,
           budget' \in Budget
    PROVE  Inductive'
<1> USE DEF account, docker, manager
<1>1. RestTypes'
  BY DEF RestTypes, WorldTypes, Inductive, TypeOK
<1>2. Quiet /\ Peopled' /\ TasksKnow'
  BY StillQuiet DEF Still
<1> QED BY <1>1, <1>2, QuietRelease

LEMMA CutShort ==
    ASSUME Inductive, NEW w \in Threads,
           \/ Cancelled(w) \/ Refuse(w) \/ CreateRejected(w) \/ EndUpload(w)
    PROVE  Inductive'
<1>1. pc[w] \in LockedSteps
  BY DEF Cancelled, SettlingWrites, Refuse, CreateRejected, EndUpload, StoreSteps,
         LockedSteps, RowSteps, EntrySteps, StartSteps, StopSteps, DeleteSteps, RepairSteps
<1>2. budget' \in Budget
  <2>1. budget \in Budget
    BY DEF Inductive, TypeOK
  <2>2. Fault \/ Works
    BY DEF Cancelled, Refuse, CreateRejected, EndUpload, Works
  <2>3. QED BY <2>1, <2>2, Budgeted
<1>3. CASE Cancelled(w) /\ job[w].op = "deleteUser"
  <2>1. pc[w] \in RowSteps
    BY <1>3 DEF Cancelled, SettlingWrites, StoreSteps, Inductive, ThreadInv, HoldsItsLock,
                RowSteps, EntrySteps, StartSteps, StopSteps, DeleteSteps, RepairSteps
  <2>2. Aside(w)
    BY <1>2, <1>3 DEF Cancelled, Aside, WorldTypes, Inductive, TypeOK,
                      account, docker, manager
  <2>3. Return(w, FALSE) /\ row' = row
    BY <1>3 DEF Cancelled
  <2>4. QED BY <2>1, <2>2, <2>3, InHand, Unwritten, Returned DEF InPlace
<1>4. CASE Cancelled(w) /\ job[w].op # "deleteUser"
  BY <1>1, <1>2, <1>4, Leaves DEF Cancelled, Return
<1>5. CASE Refuse(w) \/ CreateRejected(w) \/ EndUpload(w)
  BY <1>1, <1>2, <1>5, Leaves DEF Refuse, CreateRejected, EndUpload
<1> QED BY <1>3, <1>4, <1>5

-----------------------------------------------------------------------------
(* A handler chooses its row, and creates or deletes one.                     *)

LEMMA RowChosen ==
    ASSUME Inductive, NEW w \in Threads,
           \/ ResumeCreation(w) \/ StartSession(w) \/ StopSession(w)
           \/ DeleteSession(w) \/ BeginUpload(w) \/ ReconcileDeleted(w)
           \/ ReconcileInspect(w)
    PROVE  Inductive'
<1> USE DEF account, docker, manager
<1> DEFINE i == job[w].id
<1>1. /\ pc[w] \in EntrySteps \ {"create", "deleteUser"} /\ Permitted(w)
      /\ pc[w] \notin RowSteps /\ pc[w] \notin DeleteSteps
  BY StepKinds
     DEF ResumeCreation, StartSession, StopSession, DeleteSession, BeginUpload,
                   ReconcileDeleted, ReconcileInspect, EntrySteps
<1>2. HasInHand(w) /\ TypeOK
  BY <1>1, Chosen DEF Inductive
<1>3. /\ i \in Ids /\ row[i] \in Row /\ row[i].desired \in Intents
      /\ row[i].status \in Statuses
  BY <1>2 DEF HasInHand, Row
<1>4. pc[w] = job[w].op
  BY <1>1, StepKinds DEF Inductive, ThreadInv, HoldsItsLock
<1>5. \A next \in RowSteps : Successor(w, next)
  BY <1>1 DEF Successor
<1>6. /\ "mark" \in RowSteps /\ "stopInspect" \in RowSteps /\ "delMark" \in RowSteps
      /\ "uploading" \in RowSteps /\ "recDirs" \in RowSteps /\ "recIsolate" \in RowSteps
  BY DEF RowSteps, StartSteps, StopSteps, DeleteSteps, RepairSteps
<1>7. ASSUME Hold(w)
      PROVE  /\ sess' \in [Threads -> Row \cup {None}] /\ sess'[w] = row[i]
             /\ \A v \in Threads \ {w} : sess'[v] = sess[v]
  BY <1>2, <1>3, <1>7 DEF Hold, TypeOK
<1>8. ASSUME NEW next \in RowSteps, Goto(w, next), Aside(w), Hold(w), row' = row,
             UNCHANGED <<lock, job, todo, failed>>, seen' \in [Threads -> Containers],
             Reached(next, job[w], row[i].desired), next # "mkdirs",
             next \notin DeleteSteps \ {"delMark"}
      PROVE  Inductive'
  <2>1. pc'[w] = next
    BY <1>2, <1>8 DEF Goto, TypeOK
  <2>2. HasCome(w)'
    BY <1>7, <1>8, <2>1 DEF HasCome, Reached, DeleteSteps
  <2>3. QED BY <1>2, <1>3, <1>5, <1>7, <1>8, <2>2, Unwritten, Proceeds DEF InPlace
<1>9. CASE ResumeCreation(w)
  <2>1. row[i].desired = "running" /\ job[w].op = "task"
    BY <1>4, <1>9 DEF ResumeCreation, Permitted
  <2>2. Reached("mark", job[w], row[i].desired)
    BY <2>1 DEF Reached, StartSteps, StopSteps, DeleteSteps, RepairSteps
  <2>3. Aside(w)
    BY <1>2, <1>9 DEF ResumeCreation, Aside, WorldTypes, TypeOK
  <2>4. QED BY <1>2, <1>6, <1>8, <1>9, <2>2, <2>3
               DEF ResumeCreation, TypeOK, DeleteSteps
<1>10. CASE StartSession(w)
  <2>1. row[i].desired # "deleted" /\ job[w].op = "start"
    BY <1>4, <1>10 DEF StartSession, Permitted
  <2>2. Updates(w) /\ row'[i].desired = row[i].desired
    BY <1>2, <1>10, Recounted DEF StartSession
  <2>3. Aside(w)
    <3>1. auto' \in [Ids -> Nat]
      BY <1>2, <1>10 DEF StartSession, TypeOK
    <3>2. QED BY <1>2, <1>10, <3>1 DEF StartSession, Aside, WorldTypes, TypeOK
  <2>4. HasCome(w)'
    BY <1>2, <1>7, <1>10, <2>1
       DEF StartSession, Goto, TypeOK, HasCome, Reached,
           StartSteps, StopSteps, DeleteSteps, RepairSteps
  <2>5. QED BY <1>2, <1>3, <1>5, <1>6, <1>7, <1>10, <2>2, <2>3, <2>4, Proceeds
            DEF StartSession, InPlace, TypeOK
<1>11. CASE StopSession(w)
  <2> DEFINE copy == [row[i] EXCEPT !.desired = "stopped"]
  <2>1. Updates(w) /\ row'[i].desired = "stopped"
    BY <1>2, <1>11, Written DEF StopSession, Statuses, Intents
  <2>2. copy \in Row /\ copy.desired = "stopped"
    BY <1>3 DEF Row, Intents
  <2>3. sess' = [sess EXCEPT ![w] = copy]
    BY <1>11 DEF StopSession
  <2>4. Aside(w)
    BY <1>2, <1>11 DEF StopSession, Aside, WorldTypes, TypeOK
  <2> HIDE DEF copy
  <2>5. /\ sess' \in [Threads -> Row \cup {None}] /\ sess'[w] = copy
        /\ \A v \in Threads \ {w} : sess'[v] = sess[v]
    BY <1>2, <2>2, <2>3 DEF TypeOK
  <2>6. HasCome(w)'
    BY <1>2, <1>11, <2>2, <2>5
       DEF StopSession, Goto, TypeOK, HasCome, Reached,
           StartSteps, StopSteps, DeleteSteps, RepairSteps
  <2>7. QED BY <1>2, <1>5, <1>6, <1>11, <2>1, <2>2, <2>4, <2>5, <2>6, Proceeds
            DEF StopSession, InPlace, TypeOK
<1>12. CASE DeleteSession(w) \/ ReconcileDeleted(w)
  <2>1. Reached("delMark", job[w], row[i].desired)
    BY DEF Reached, StartSteps, StopSteps, DeleteSteps, RepairSteps
  <2>2. Aside(w)
    BY <1>2, <1>12 DEF DeleteSession, ReconcileDeleted, Aside, WorldTypes, TypeOK
  <2>3. QED BY <1>2, <1>6, <1>8, <1>12, <2>1, <2>2
            DEF DeleteSession, ReconcileDeleted, TypeOK, DeleteSteps
<1>13. CASE BeginUpload(w)
  <2>1. Reached("uploading", job[w], row[i].desired)
    BY DEF Reached, StartSteps, StopSteps, DeleteSteps, RepairSteps
  <2>2. Aside(w)
    BY <1>2, <1>13 DEF BeginUpload, Aside, WorldTypes, TypeOK
  <2>3. QED BY <1>2, <1>6, <1>8, <1>13, <2>1, <2>2 DEF BeginUpload, TypeOK, DeleteSteps
<1>14. CASE ReconcileInspect(w)
  <2>1. row[i].desired # "deleted"
    BY <1>14 DEF ReconcileInspect
  <2>2. Aside(w)
    BY <1>2, <1>14, Budgeted DEF ReconcileInspect, Aside, WorldTypes, TypeOK
  <2>3. CASE Release(w) /\ (Write(w, "unknown", row[i].desired, TRUE)
                            \/ Write(w, "error", row[i].desired, TRUE))
    BY <1>2, <1>3, <2>2, <2>3, Written, Over DEF InPlace, Statuses
  <2>4. CASE /\ Goto(w, IF cont[i] = "none" THEN "recDirs" ELSE "recIsolate")
             /\ seen' = [seen EXCEPT ![w] = cont[i]] /\ Hold(w)
             /\ UNCHANGED <<row, lock, job, todo, failed>>
    <3> DEFINE next == IF cont[i] = "none" THEN "recDirs" ELSE "recIsolate"
    <3>1. next \in RowSteps /\ next # "mkdirs" /\ next \notin DeleteSteps
      BY <1>6 DEF DeleteSteps
    <3>2. Reached(next, job[w], row[i].desired)
      BY <2>1 DEF Reached, StartSteps, StopSteps, DeleteSteps, RepairSteps
    <3>3. seen' \in [Threads -> Containers]
      BY <1>2, <1>3, <2>4 DEF TypeOK
    <3> HIDE DEF next
    <3>4. Goto(w, next)
      BY <2>4 DEF next
    <3>5. QED BY <1>8, <2>2, <2>4, <3>1, <3>2, <3>3, <3>4
  <2>5. QED BY <1>14, <2>3, <2>4 DEF ReconcileInspect
<1> QED BY <1>9, <1>10, <1>11, <1>12, <1>13, <1>14

\* What a thread knows of the row it has just inserted.
LEMMA RowCreated ==
    ASSUME Inductive, NEW w \in Threads, CreateInQuota(w)
    PROVE  Inductive'
<1> USE DEF account, docker, manager
<1> DEFINE u == job[w].user
           k == job[w].key
           new == NewRow(u, k)
<1>1. /\ pc[w] = "create" /\ Admits(u, k) /\ Goto(w, "mkdirs")
      /\ UNCHANGED <<account, docker, dirs, lock, manager, seen, todo, failed, budget>>
  BY DEF CreateInQuota
<1>2. TypeOK /\ u \in Users /\ lock[u] = w /\ Knows(job[w]) /\ todo[w] = {}
  BY <1>1, StepKinds, LockHeld
     DEF Inductive, ThreadInv, OwnsItsList, LockedSteps, EntrySteps, DeleteSteps
<1>3. job[w].op = "create"
  BY <1>1, StepKinds DEF Inductive, ThreadInv, HoldsItsLock, EntrySteps
<1>4. job[w] \in Job /\ k \in Keys \cup {None} /\ new \in Row /\ new.owner = u
      /\ new.desired = "running"
  BY <1>2 DEF TypeOK, Job, NewRow, Row, Statuses, Intents
<1>5. PICK i \in Ids \ issued :
        /\ row' = [row EXCEPT ![i] = new]
        /\ request' = IF k = None THEN request ELSE [request EXCEPT ![u][k] = i]
        /\ issued' = issued \cup {i}
        /\ auto' = [auto EXCEPT ![i] = 0]
        /\ job' = [job EXCEPT ![w].id = i]
        /\ sess' = [sess EXCEPT ![w] = new]
  BY DEF CreateInQuota
<1> HIDE DEF new
<1>6. row[i] = None /\ cont[i] = "none" /\ dirs[i] = "absent"
  BY <1>5 DEF Inductive, Issued, NoOrphanResources, Exists
<1>7. /\ row'[i] = new /\ new # None /\ \A n \in Ids \ {i} : row'[n] = row[n]
      /\ issued \subseteq Ids
  BY <1>2, <1>4, <1>5, IdentityAssumption DEF TypeOK
<1>8. Keeps /\ \A v \in Threads : Spares(v)
  BY <1>1, <1>5, <1>7 DEF Keeps, Spares, Exists
<1>9. job'[w] \in Job /\ job'[w] = [job[w] EXCEPT !.id = i] /\ job' \in [Threads -> Job]
  BY <1>2, <1>4, <1>5 DEF TypeOK, Job
<1>10. /\ pc'[w] = "mkdirs" /\ job'[w].op = "create" /\ job'[w].user = u /\ job'[w].id = i
       /\ sess'[w] = new /\ todo'[w] = {} /\ lock'[u] = w
  BY <1>1, <1>2, <1>3, <1>4, <1>5, <1>9 DEF Goto, TypeOK, Job
<1>11. ThreadTypes' /\ RestTypes'
  <2>1. request' \in [Users -> [Keys -> Ids \cup {"unused", "gone"}]]
    BY <1>2, <1>4, <1>5 DEF TypeOK
  <2>2. row' \in [Ids -> Row \cup {None}] /\ auto' \in [Ids -> Nat] /\ issued' \in SUBSET Ids
    BY <1>2, <1>4, <1>5 DEF TypeOK
  <2>3. sess' \in [Threads -> Row \cup {None}] /\ pc' \in [Threads -> Steps]
    BY <1>1, <1>2, <1>4, <1>5, StepKinds DEF TypeOK, Goto
  <2>4. QED BY <1>1, <1>2, <1>9, <2>1, <2>2, <2>3
               DEF ThreadTypes, RestTypes, WorldTypes, TypeOK
<1>12. ASSUME NEW v \in Threads \ {w} PROVE ThreadInv(v)'
  <2>1. /\ pc'[v] = pc[v] /\ job'[v] = job[v] /\ sess'[v] = sess[v] /\ todo'[v] = todo[v]
        /\ lock' = lock
    BY <1>1, <1>2, <1>5 DEF Goto, TypeOK
  <2>2. QED BY <1>8, <2>1, LockHeld, Spared
<1>13. ThreadInv(w)'
  <2>1. HoldsItsLock(w)'
    <3>1. i \in issued' /\ row'[i].owner = u
      BY <1>4, <1>5, <1>7
    <3>2. QED BY <1>2, <1>10, <3>1, StepKinds
              DEF HoldsItsLock, Knows, Exists, EntrySteps
  <2>2. OwnsItsRow(w)' /\ OwnsItsList(w)'
    BY <1>5, <1>7, <1>10 DEF OwnsItsRow, OwnsItsList, Exists
  <2>3. HasCome(w)'
    BY <1>1, <1>4, <1>6, <1>10
       DEF HasCome, Reached, StartSteps, StopSteps, DeleteSteps, RepairSteps
  <2>4. QED BY <2>1, <2>2, <2>3 DEF ThreadInv
<1>14. Issued' /\ TasksKnow'
  <2>1. TasksKnow'
    BY <1>1, <1>8, KnownStill DEF Inductive, TasksKnow
  <2>2. QED BY <1>5, <1>7, <2>1 DEF Inductive, Issued, Exists
<1>15. NoOrphanResources'
  <2>1. user[u] = "active" /\ user' = user /\ cont' = cont /\ dirs' = dirs
    BY <1>1 DEF Admits
  <2>2. QED BY <1>4, <1>7, <2>1 DEF Inductive, NoOrphanResources
<1> QED BY <1>11, <1>12, <1>13, <1>14, <1>15, Typed
           DEF Inductive, RestTypes, ThreadTypes, WorldTypes, TypeOK

LEMMA CreationGoesOn ==
    ASSUME Inductive, NEW w \in Threads, MakeDirectories(w) \/ SpawnTask(w)
    PROVE  Inductive'
<1> USE DEF account, docker, manager
<1> DEFINE i == job[w].id
<1>1. pc[w] \in RowSteps /\ pc[w] \in LockedSteps /\ pc[w] \notin DeleteSteps
  BY StepKinds DEF MakeDirectories, SpawnTask, RowSteps, DeleteSteps
<1>2. TypeOK /\ HasInHand(w) /\ i \in Ids
  BY <1>1, InHand DEF Inductive
<1>3. CASE MakeDirectories(w)
  <2>1. PICK d \in {"complete", "absent", "partial"} : dirs' = [dirs EXCEPT ![i] = d]
    BY <1>3 DEF MakeDirectories
  <2>2. dirs' \in [Ids -> Disks] /\ \A n \in Ids \ {i} : dirs'[n] = dirs[n]
    BY <1>2, <2>1 DEF TypeOK, Disks
  <2>3. budget' \in Budget
    BY <1>2, <1>3, Budgeted DEF MakeDirectories, TypeOK
  <2>4. Aside(w)
    BY <1>2, <1>3, <2>2, <2>3 DEF MakeDirectories, Aside, WorldTypes, TypeOK
  <2>5. CASE Fail(w, "error")
    BY <1>1, <2>4, <2>5, Failed DEF Statuses
  <2>6. CASE Goto(w, "spawn") /\ UNCHANGED <<row, lock, job, sess, seen, todo, failed>>
    <3>1. Successor(w, "spawn")
      BY <1>1 DEF Successor, RowSteps
    <3>2. HasCome(w)'
      BY <1>2, <2>6 DEF HasCome, Reached, Goto, TypeOK,
                        StartSteps, StopSteps, DeleteSteps, RepairSteps
    <3>3. QED BY <1>1, <1>2, <2>4, <2>6, <3>1, <3>2, Continues DEF TypeOK
  <2>7. QED BY <1>3, <2>5, <2>6 DEF MakeDirectories
<1>4. CASE SpawnTask(w)
  <2> DEFINE t == [job[w] EXCEPT !.op = "task", !.key = None]
  <2>1. job[w] \in Job /\ job[w].user \in Users /\ i \in Ids
    BY <1>2 DEF TypeOK, HasInHand
  <2>2. /\ t \in [op : {"task"}, user : Users, id : Ids, key : {None}]
        /\ t.op = "task" /\ t.user = job[w].user /\ t.id = i
    BY <2>1 DEF Job
  <2>3. Knows(t)
    BY <1>2, <2>2 DEF HasInHand, Knows, EntrySteps
  <2> HIDE DEF t
  <2>4. Release(w) /\ (tasks' = tasks \/ tasks' = tasks \cup {t}) /\ user' = user
    BY <1>4 DEF SpawnTask, t
  <2>5. Quiet /\ Peopled'
    BY <1>4, StillQuiet DEF SpawnTask, Still
  <2>6. RestTypes'
    BY <1>2, <1>4, <2>2, <2>4 DEF SpawnTask, RestTypes, WorldTypes, TypeOK
  <2>7. TasksKnow'
    BY <2>3, <2>4, <2>5, QuietSpares, KnownStill DEF Inductive, TasksKnow
  <2>8. QED BY <1>1, <2>4, <2>5, <2>6, <2>7, QuietRelease
<1> QED BY <1>3, <1>4

LEMMA RowDeleted ==
    ASSUME Inductive, NEW w \in Threads, DeleteRow(w)
    PROVE  Inductive'
<1> USE DEF account, docker, manager
<1> DEFINE i == job[w].id
           u == job[w].user
<1>1. /\ pc[w] = "delRow" /\ Return(w, TRUE) /\ row' = [row EXCEPT ![i] = None]
      /\ UNCHANGED <<account, docker, dirs, manager, issued, auto, budget>>
  BY DEF DeleteRow
<1>2. pc[w] \in RowSteps /\ pc[w] \in DeleteSteps /\ pc[w] \in LockedSteps
  BY <1>1, StepKinds DEF DeleteSteps
<1>3. /\ TypeOK /\ HasInHand(w) /\ i \in Ids /\ u \in Users /\ row[i].owner = u
      /\ lock[u] = w /\ Knows(job[w])
  BY <1>2, InHand, LockHeld DEF Inductive, HasInHand
<1>4. cont[i] = "none" /\ dirs[i] = "absent"
  BY <1>1, <1>2 DEF Inductive, ThreadInv, HasCome, Reached, DeleteSteps
<1>5. row'[i] = None /\ \A n \in Ids \ {i} : row'[n] = row[n]
  BY <1>1, <1>3 DEF TypeOK
<1>6. issued \subseteq Ids /\ issued' = issued
  BY <1>1, <1>3 DEF TypeOK
<1>7. Keeps
  BY <1>5, <1>6 DEF Keeps, Exists
<1>8. ASSUME NEW v \in Threads, v # w, pc[v] \in LockedSteps
      PROVE  Spares(v)
  <2>1. job[v].user # u
    BY <1>3, <1>8, LockHeld
  <2>2. QED BY <1>1, <1>3, <1>5, <1>6, <2>1 DEF Spares, Exists
<1>9. RestTypes'
  <2>1. request' \in [Users -> [Keys -> Ids \cup {"unused", "gone"}]]
    BY <1>3 DEF DeleteRow, TypeOK
  <2>2. row' \in [Ids -> Row \cup {None}]
    BY <1>1, <1>3 DEF TypeOK
  <2>3. QED BY <1>1, <1>3, <2>1, <2>2 DEF RestTypes, WorldTypes, TypeOK
<1>10. OnlyThread(w) /\ ThreadTypes' /\ ThreadInv(w)'
  <2>1. CASE job[w].op # "deleteUser"
    BY <1>1, <1>3, <2>1, Released DEF Return
  <2>2. CASE job[w].op = "deleteUser"
    <3> USE <2>2
    <3>1. OnlyThread(w)
      BY <1>1, <1>3 DEF OnlyThread, Return, Goto, TypeOK
    <3>2. ThreadTypes'
      BY <1>1, <1>3
         DEF ThreadTypes, Return, Goto, TypeOK, Steps, LockedSteps, Containers
    <3>3. pc'[w] = "nextInstance" /\ job' = job /\ todo' = todo /\ lock' = lock
      BY <1>1, <1>3 DEF Return, Goto, TypeOK
    <3>4. Knows(job[w])'
      BY <1>3, <1>7, <3>3, KnownStill DEF Knows
    <3>5. HoldsItsLock(w)'
      BY <1>3, <3>3, <3>4, StepKinds DEF HoldsItsLock
    <3>6. OwnsItsList(w)'
      <4>1. OwnsItsList(w) /\ pc[w] # "nextInstance" /\ todo[w] \subseteq Ids
        BY <1>1, <1>3 DEF Inductive, ThreadInv, TypeOK
      <4>2. QED BY <1>5, <1>6, <3>3, <4>1 DEF OwnsItsList, Exists
    <3>7. OwnsItsRow(w)' /\ HasCome(w)'
      BY <3>3, StepKinds, NothingReached DEF OwnsItsRow
    <3>8. QED BY <3>1, <3>2, <3>5, <3>6, <3>7 DEF ThreadInv
  <2>3. QED BY <2>1, <2>2
<1>11. \A v \in Threads \ {w} : ThreadInv(v)'
  BY <1>7, <1>8, <1>10, Spared, LockHeld DEF OnlyThread
<1>12. Issued' /\ TasksKnow'
  <2>1. TasksKnow'
    BY <1>1, <1>7, KnownStill DEF Inductive, TasksKnow
  <2>2. QED BY <1>5, <1>6, <2>1 DEF Inductive, Issued, Exists
<1>13. NoOrphanResources'
  BY <1>1, <1>4, <1>5 DEF Inductive, NoOrphanResources
<1> QED BY <1>9, <1>10, <1>11, <1>12, <1>13
        DEF Inductive, RestTypes, ThreadTypes, WorldTypes, TypeOK

-----------------------------------------------------------------------------
(* DeleteUser.                                                                *)

LEMMA AccountDeleted ==
    ASSUME Inductive, NEW w \in Threads,
           ListInstances(w) \/ NextInstance(w) \/ FinishUserDeletion(w)
    PROVE  Inductive'
<1> USE DEF account, docker, manager
<1> DEFINE u == job[w].user
<1>1. /\ pc[w] \in {"deleteUser", "nextInstance"} /\ pc[w] \in LockedSteps
      /\ pc[w] \notin RowSteps
  BY StepKinds DEF ListInstances, NextInstance, FinishUserDeletion, EntrySteps
<1>2. /\ TypeOK /\ u \in Users /\ lock[u] = w /\ Knows(job[w]) /\ job[w].op = "deleteUser"
      /\ pc[w] # "idle" /\ OwnsItsList(w)
  BY <1>1, LockHeld, StepKinds DEF Inductive, ThreadInv, HoldsItsLock, EntrySteps
<1>3. Still
  BY DEF ListInstances, NextInstance, FinishUserDeletion, Still
<1>4. budget' \in Budget
  <2>1. Fault \/ Works
    BY DEF ListInstances, NextInstance, FinishUserDeletion, Works
  <2>2. QED BY <1>2, <2>1, Budgeted DEF TypeOK
<1>5. CASE DeletionFailed(w) /\ UNCHANGED <<quota, request, manager, madeBy, net, auto>>
  <2>1. /\ user' \in [Users -> Accounts] /\ Release(w)
        /\ \A v \in Users : user'[v] = "absent" => user[v] = "absent"
    BY <1>2, <1>5 DEF DeletionFailed, TypeOK, Accounts
  <2>2. Quiet /\ Peopled' /\ TasksKnow'
    BY <1>3, <1>5, <2>1, StillQuiet
  <2>3. RestTypes'
    BY <1>2, <1>3, <1>4, <1>5, <2>1 DEF Still, RestTypes, WorldTypes, TypeOK
  <2>4. QED BY <1>1, <2>1, <2>2, <2>3, QuietRelease
<1>6. CASE /\ todo' = [todo EXCEPT ![w] = Owned(u)] /\ Goto(w, "nextInstance")
           /\ UNCHANGED <<user, lock, job, sess, seen, failed, quota, request, manager,
                          madeBy, net, auto>>
  <2>1. /\ todo' = [todo EXCEPT ![w] = Owned(u)] /\ Goto(w, "nextInstance")
        /\ UNCHANGED <<user, lock, job, sess, seen, failed, quota, request, manager,
                       madeBy, net, auto>>
    BY <1>6
  <2>2. Quiet /\ Peopled' /\ TasksKnow'
    BY <1>3, <2>1, StillQuiet
  <2>3. RestTypes'
    BY <1>2, <1>3, <1>4, <2>1 DEF Still, RestTypes, WorldTypes, TypeOK
  <2>4. Owned(u) \subseteq Ids
    BY DEF Owned
  <2>5. OnlyThread(w) /\ ThreadTypes'
    BY <1>2, <2>1, <2>4 DEF OnlyThread, ThreadTypes, Goto, TypeOK, Steps, LockedSteps
  <2>6. pc'[w] = "nextInstance" /\ todo'[w] = Owned(u)
    BY <1>2, <2>1 DEF Goto, TypeOK
  <2>7. Knows(job[w])'
    BY <1>2, <2>1, <2>2, QuietSpares, KnownStill DEF Knows
  <2>8. HoldsItsLock(w)'
    BY <1>2, <2>1, <2>6, <2>7, StepKinds DEF HoldsItsLock
  <2>9. OwnsItsList(w)'
    BY <1>2, <1>3, <2>1, <2>6 DEF OwnsItsList, Owned, Still, Exists, Inductive, Issued
  <2>10. OwnsItsRow(w)' /\ HasCome(w)'
    BY <2>6, StepKinds, NothingReached DEF OwnsItsRow
  <2>11. QED BY <2>2, <2>3, <2>5, <2>8, <2>9, <2>10, QuietStep DEF ThreadInv
<1>7. CASE NextInstance(w)
  <2>1. PICK i \in todo[w] : /\ todo' = [todo EXCEPT ![w] = @ \ {i}]
                             /\ job' = [job EXCEPT ![w].id = i]
                             /\ sess' = [sess EXCEPT ![w] = row[i]]
    BY <1>7 DEF NextInstance
  <2>2. /\ Goto(w, "delMark") /\ pc[w] = "nextInstance"
        /\ UNCHANGED <<account, request, lock, manager, seen, failed, madeBy, net, auto>>
    BY <1>7 DEF NextInstance
  <2>3. /\ i \in issued /\ i \in Ids /\ Exists(i) /\ row[i].owner = u /\ row[i] \in Row
        /\ todo[w] \subseteq Ids
    BY <1>2, <2>1 DEF OwnsItsList, TypeOK, Exists
  <2>4. Quiet /\ Peopled' /\ TasksKnow'
    BY <1>3, <2>2, StillQuiet
  <2>5. RestTypes'
    BY <1>2, <1>3, <1>4, <2>2 DEF Still, RestTypes, WorldTypes, TypeOK
  <2>6. /\ job'[w].op = "deleteUser" /\ job'[w].user = u /\ job'[w].id = i
        /\ job' \in [Threads -> Job]
    <3>1. job[w] \in Job /\ job \in [Threads -> Job]
      BY <1>2 DEF TypeOK
    <3>2. /\ [job[w] EXCEPT !.id = i] \in Job
          /\ [job[w] EXCEPT !.id = i].op = "deleteUser"
          /\ [job[w] EXCEPT !.id = i].user = u /\ [job[w] EXCEPT !.id = i].id = i
      BY <1>2, <2>3, <3>1 DEF Job
    <3>3. job' = [job EXCEPT ![w] = [job[w] EXCEPT !.id = i]]
      BY <2>1
    <3>4. QED BY <3>1, <3>2, <3>3
  <2>7. /\ pc'[w] = "delMark" /\ todo'[w] = todo[w] \ {i} /\ sess'[w] = row[i]
        /\ lock' = lock
    BY <1>2, <2>1, <2>2 DEF Goto, TypeOK
  <2>8. OnlyThread(w)
    BY <1>2, <2>1, <2>2 DEF OnlyThread, Goto, TypeOK
  <2>9. ThreadTypes'
    <3>1. sess' \in [Threads -> Row \cup {None}] /\ todo' \in [Threads -> SUBSET Ids]
      BY <1>2, <2>1, <2>3 DEF TypeOK
    <3>2. pc' \in [Threads -> Steps]
      BY <1>2, <2>2, StepKinds DEF TypeOK, Goto, DeleteSteps
    <3>3. QED BY <1>2, <2>2, <2>6, <3>1, <3>2 DEF ThreadTypes, TypeOK
  <2>10. /\ "delMark" \in DeleteSteps /\ "delMark" \in LockedSteps
         /\ "delMark" \notin EntrySteps
    BY StepKinds DEF DeleteSteps
  <2>11. HoldsItsLock(w)'
    <3>1. i \in issued' /\ Exists(i)' /\ row'[i].owner = u
      BY <1>3, <2>3 DEF Still, Exists
    <3>2. Knows(job[w])'
      BY <1>2, <2>6, <3>1 DEF Knows, Exists, EntrySteps
    <3>3. QED BY <1>2, <2>6, <2>7, <2>10, <3>2 DEF HoldsItsLock
  <2>12. OwnsItsRow(w)' /\ OwnsItsList(w)'
    BY <1>2, <1>3, <2>3, <2>6, <2>7, <2>10, IdentityAssumption
       DEF OwnsItsRow, OwnsItsList, Still, Exists
  <2>13. HasCome(w)'
    BY <2>7 DEF HasCome, Reached, StartSteps, StopSteps, DeleteSteps, RepairSteps
  <2>14. QED BY <2>4, <2>5, <2>8, <2>9, <2>11, <2>12, <2>13, QuietStep DEF ThreadInv
<1>8. CASE /\ Release(w) /\ UNCHANGED <<quota, row, docker, dirs, manager, issued, auto>>
           /\ \/ /\ user' = [user EXCEPT ![u] = "absent"] /\ Owned(u) = {}
                 /\ request' = [request EXCEPT ![u] = [k \in Keys |-> "unused"]]
              \/ UNCHANGED <<user, request>>
  <2>1. user' \in [Users -> Accounts]
    BY <1>2, <1>8 DEF TypeOK, Accounts
  <2>2. RestTypes'
    <3> DEFINE fresh == [k \in Keys |-> "unused"]
    <3>1. fresh \in [Keys -> Ids \cup {"unused", "gone"}]
      OBVIOUS
    <3>2. request' = request \/ request' = [request EXCEPT ![u] = fresh]
      BY <1>8
    <3> HIDE DEF fresh
    <3>3. request' \in [Users -> [Keys -> Ids \cup {"unused", "gone"}]]
      BY <1>2, <3>1, <3>2 DEF TypeOK
    <3>4. QED BY <1>2, <1>4, <1>8, <2>1, <3>3 DEF RestTypes, WorldTypes, TypeOK
  <2>3. Peopled'
    <3>1. \A i \in Ids : Exists(i) => row[i].owner \in Users /\ user[row[i].owner] # "absent"
      BY <1>2, IdentityAssumption DEF Inductive, TypeOK, NoOrphanResources, Exists, Row
    <3>2. \A i \in Ids : Owned(u) = {} /\ Exists(i) => row[i].owner # u
      BY DEF Owned, Exists
    <3>3. QED BY <1>2, <1>8, <3>1, <3>2 DEF Peopled, Exists, TypeOK
  <2>4. Quiet
    BY <1>8 DEF Quiet, Exists
  <2>5. TasksKnow'
    BY <1>8, <2>4, QuietSpares, KnownStill DEF Inductive, TasksKnow
  <2>6. QED BY <1>1, <1>8, <2>2, <2>3, <2>4, <2>5, QuietRelease
<1>9. CASE ListInstances(w)
  BY <1>5, <1>6, <1>9 DEF ListInstances
<1>10. CASE FinishUserDeletion(w)
  BY <1>5, <1>8, <1>10 DEF FinishUserDeletion
<1> QED BY <1>7, <1>9, <1>10

-----------------------------------------------------------------------------
(* The maintenance loop, administrators, Docker and the process.              *)

LEMMA Swept ==
    ASSUME Inductive, SweepStep
    PROVE  Inductive'
<1> USE DEF account, docker, manager, thread
<1>1. TypeOK /\ Maint \in Threads
  BY DEF Inductive, Threads
<1>2. /\ sweep.users \subseteq Users /\ sweep.ids \subseteq Ids
      /\ sweep.phase \in {"rest", "users", "ids"}
      /\ sweep = [phase |-> sweep.phase, users |-> sweep.users, ids |-> sweep.ids]
  BY <1>1 DEF TypeOK
<1>3. ASSUME sweep' \in [phase : {"rest", "users", "ids"}, users : SUBSET Users,
                         ids : SUBSET Ids],
             UNCHANGED <<account, row, request, docker, dirs, lock, tasks, closing,
                         deployment, thread, issued, auto, budget>>
      PROVE  Inductive'
  <2>1. RestTypes'
    BY <1>1, <1>3 DEF RestTypes, WorldTypes, TypeOK
  <2>2. Quiet /\ Peopled'
    BY <1>3, StillQuiet DEF Still
  <2>3. QED BY <1>3, <2>1, <2>2, WorldStep
<1>4. ASSUME NEW j, j \in Job, Knows(j), Submit(Maint, j), UNCHANGED budget,
             sweep' \in [phase : {"rest", "users", "ids"}, users : SUBSET Users,
                         ids : SUBSET Ids],
             user' \in [Users -> Accounts],
             \A u \in Users : user'[u] = "absent" => user[u] = "absent"
      PROVE  Inductive'
  <2>1. /\ pc[Maint] = "idle" /\ Goto(Maint, "lock") /\ job' = [job EXCEPT ![Maint] = j]
        /\ Still /\ UNCHANGED <<lock, sess, seen, todo, failed, tasks>>
    BY <1>4 DEF Submit, Still
  <2>2. RestTypes'
    BY <1>1, <1>4 DEF Submit, RestTypes, WorldTypes, TypeOK
  <2>3. QED BY <1>1, <1>4, <2>1, <2>2, Queued
<1>5. CASE SweepBegin
  BY <1>3, <1>5 DEF SweepBegin
<1>6. CASE SweepList
  BY <1>3, <1>6 DEF SweepList
<1>7. CASE SweepEnd
  BY <1>3, <1>7 DEF SweepEnd, Rest
<1>8. ASSUME NEW u \in Users, SweepUser(u) PROVE Inductive'
  <2> DEFINE j == [op |-> "deleteUser", user |-> u, id |-> None, key |-> None]
  <2>1. sweep' \in [phase : {"rest", "users", "ids"}, users : SUBSET Users, ids : SUBSET Ids]
    BY <1>2, <1>8 DEF SweepUser
  <2>2. CASE MarkUserDeleting(u) /\ Submit(Maint, j) /\ UNCHANGED budget
    <3>1. j \in Job /\ Knows(j)
      BY DEF Job, Ops, Knows, EntrySteps
    <3>2. /\ user' \in [Users -> Accounts]
          /\ \A v \in Users : user'[v] = "absent" => user[v] = "absent"
      BY <1>1, <2>2 DEF MarkUserDeleting, TypeOK, Accounts
    <3> HIDE DEF j
    <3>3. QED BY <1>4, <2>1, <2>2, <3>1, <3>2
  <2>3. QED BY <1>3, <1>8, <2>1, <2>2 DEF SweepUser
<1>9. ASSUME NEW i \in Ids, SweepInstance(i) PROVE Inductive'
  <2> DEFINE j == [op |-> "reconcile", user |-> row[i].owner, id |-> i, key |-> None]
  <2>1. sweep' \in [phase : {"rest", "users", "ids"}, users : SUBSET Users, ids : SUBSET Ids]
    BY <1>2, <1>9 DEF SweepInstance
  <2>2. CASE row[i] # None /\ Submit(Maint, j) /\ UNCHANGED <<user, budget>>
    <3>1. row[i].owner \in Users /\ i \in issued
      BY <1>1, <2>2 DEF TypeOK, Row, Inductive, Issued, Exists
    <3>2. j \in Job
      BY <3>1 DEF Job, Ops
    <3>3. Knows(j)
      BY <3>1 DEF Knows, EntrySteps
    <3>4. user' \in [Users -> Accounts]
      BY <1>1, <2>2 DEF TypeOK
    <3> HIDE DEF j
    <3>5. QED BY <1>4, <2>1, <2>2, <3>2, <3>3, <3>4
  <2>3. QED BY <1>3, <1>9, <2>1, <2>2 DEF SweepInstance
<1> QED BY <1>5, <1>6, <1>7, <1>8, <1>9 DEF SweepStep

LEMMA WorldMoved ==
    ASSUME Inductive,
           \/ \E u \in Users, s \in Accounts : SetUserStatus(u, s)
           \/ \E u \in Users, q \in Quotas : UpdateUserQuota(u, q)
           \/ \E i \in Ids, h \in Running : HealthChanges(i, h)
           \/ \E i \in Ids, c \in Containers : ContainerDies(i, c)
           \/ \E i \in Ids : DataLost(i) \/ BackoffElapses(i)
           \/ Shutdown
    PROVE  Inductive'
<1> USE DEF account, docker, manager
<1>1. TypeOK /\ "lost" \in Disks /\ Running \subseteq Containers
  BY DEF Inductive, Disks, Containers
<1>2. ASSUME NEW kind \in {"fault", "exit", "loss", "crash", "request", "admin"}, Spend(kind)
      PROVE  budget' \in Budget
  <2>1. budget \in Budget
    BY <1>1 DEF TypeOK
  <2>2. QED BY <1>2, <2>1 DEF Spend, Budget
<1>3. \A i \in Ids : Exists(i) =>
        row[i] \in Row /\ row[i].owner \in Users /\ user[row[i].owner] # "absent"
  BY <1>1 DEF Inductive, TypeOK, NoOrphanResources, Exists, Row
<1>4. ASSUME NEW u \in Users, NEW s \in Accounts, SetUserStatus(u, s) PROVE Inductive'
  <2>1. budget' \in Budget
    BY <1>2, <1>4 DEF SetUserStatus
  <2>2. Quiet /\ Peopled'
    BY <1>4, StillQuiet DEF SetUserStatus, Still
  <2>3. RestTypes'
    BY <1>1, <1>4, <2>1 DEF SetUserStatus, RestTypes, WorldTypes, TypeOK
  <2>4. QED BY <1>4, <2>2, <2>3, WorldStep DEF SetUserStatus
<1>5. ASSUME NEW u \in Users, NEW q \in Quotas, UpdateUserQuota(u, q) PROVE Inductive'
  <2>1. budget' \in Budget
    BY <1>2, <1>5 DEF UpdateUserQuota
  <2>2. Quiet /\ Peopled'
    BY <1>5, StillQuiet DEF UpdateUserQuota, Still
  <2>3. RestTypes'
    BY <1>1, <1>5, <2>1 DEF UpdateUserQuota, RestTypes, WorldTypes, TypeOK
  <2>4. QED BY <1>5, <2>2, <2>3, WorldStep DEF UpdateUserQuota
<1>6. ASSUME NEW i \in Ids, NEW c \in Containers, HealthChanges(i, c) \/ ContainerDies(i, c)
      PROVE  Inductive'
  <2>1. /\ cont' = [cont EXCEPT ![i] = c] /\ cont[i] # "none"
        /\ UNCHANGED <<account, row, request, madeBy, net, dirs, lock, manager,
                       thread, issued, auto>>
    BY <1>6 DEF HealthChanges, ContainerDies, Running
  <2>2. budget' \in Budget
    BY <1>1, <1>2, <1>6 DEF HealthChanges, ContainerDies, TypeOK
  <2>3. Quiet
    BY <1>1, <2>1 DEF Quiet, Exists, TypeOK
  <2>4. Peopled'
    BY <1>3, <2>1 DEF Peopled, Exists
  <2>5. RestTypes'
    BY <1>1, <2>1, <2>2 DEF RestTypes, WorldTypes, TypeOK
  <2>6. QED BY <2>1, <2>3, <2>4, <2>5, WorldStep
<1>7. ASSUME NEW i \in Ids, DataLost(i) PROVE Inductive'
  <2>1. budget' \in Budget
    BY <1>2, <1>7 DEF DataLost
  <2>2. Quiet
    BY <1>1, <1>7 DEF DataLost, Quiet, Exists, TypeOK
  <2>3. Peopled'
    BY <1>3, <1>7 DEF DataLost, Peopled, Exists
  <2>4. RestTypes'
    BY <1>1, <1>7, <2>1 DEF DataLost, RestTypes, WorldTypes, TypeOK
  <2>5. QED BY <1>7, <2>2, <2>3, <2>4, WorldStep DEF DataLost
<1>8. ASSUME NEW i \in Ids, BackoffElapses(i) PROVE Inductive'
  <2> DEFINE new == [row[i] EXCEPT !.wait = FALSE]
  <2>1. row[i] \in Row /\ row' = [row EXCEPT ![i] = new] /\ Exists(i)
    BY <1>3, <1>8 DEF BackoffElapses, Exists
  <2>2. new \in Row /\ new.owner = row[i].owner /\ new.desired = row[i].desired
    BY <2>1 DEF Row
  <2> HIDE DEF new
  <2>3. row' \in [Ids -> Row \cup {None}] /\ row'[i] = new /\ new # None
        /\ \A n \in Ids \ {i} : row'[n] = row[n]
    BY <1>1, <2>1, <2>2, IdentityAssumption DEF TypeOK
  <2>4. Quiet
    BY <1>8, <2>1, <2>2, <2>3 DEF BackoffElapses, Quiet, Exists
  <2>5. Peopled'
    BY <1>3, <1>8, <2>1, <2>2, <2>3 DEF BackoffElapses, Peopled, Exists
  <2>6. RestTypes'
    BY <1>1, <1>8, <2>3 DEF BackoffElapses, RestTypes, WorldTypes, TypeOK
  <2>7. QED BY <1>8, <2>4, <2>5, <2>6, WorldStep DEF BackoffElapses
<1>9. CASE Shutdown
  <2>1. Quiet /\ Peopled'
    BY <1>9, StillQuiet DEF Shutdown, Still
  <2>2. RestTypes'
    BY <1>1, <1>9 DEF Shutdown, RestTypes, WorldTypes, TypeOK
  <2>3. QED BY <1>9, <2>1, <2>2, WorldStep DEF Shutdown
<1> QED BY <1>1, <1>4, <1>5, <1>6, <1>7, <1>8, <1>9

\* Nothing a handler knew survives a restart, and nothing has to.
LEMMA Restarted ==
    ASSUME Inductive, NEW d \in Deployments, Restart(d)
    PROVE  Inductive'
<1> USE DEF account, docker
<1>1. TypeOK
  BY DEF Inductive
<1>2. budget' \in Budget
  <2>1. budget \in Budget /\ Spend("crash")
    BY <1>1 DEF Restart, TypeOK
  <2>2. QED BY <2>1 DEF Spend, Budget
<1>3. TypeOK'
  BY <1>1, <1>2 DEF Restart, TypeOK, Rest, NoJob, Job, Ops, Steps, Containers
<1>4. \A w \in Threads : ThreadInv(w)'
  BY Idle DEF Restart
<1>5. Quiet /\ Peopled' /\ TasksKnow'
  BY StillQuiet DEF Restart, Still
<1> QED BY <1>3, <1>4, <1>5, QuietGlobal DEF Inductive

-----------------------------------------------------------------------------
(* The theorems.                                                              *)

LEMMA Initially == Init => Inductive
<1> SUFFICES ASSUME Init PROVE Inductive
  OBVIOUS
<1>1. ASSUME NEW u \in Users, NEW r \in LegacyRow(u) PROVE r \in Row
  <2> DEFINE pasts == {<<"running", "running">>, <<"stopped", "stopped">>,
                       <<"expired", "legacy_expired">>}
  <2>1. \A past \in pasts : past[1] \in Statuses /\ past[2] \in Intents
    BY DEF Statuses, Intents
  <2>2. PICK past \in pasts :
          r = [owner |-> u, key |-> None, status |-> past[1], desired |-> past[2],
               err |-> FALSE, attempts |-> 0, wait |-> FALSE]
    BY DEF LegacyRow
  <2> HIDE DEF pasts
  <2>3. QED BY <2>1, <2>2 DEF Row
<1>2. UNION {LegacyRow(u) : u \in Users} \subseteq Row
  BY <1>1
<1>3. row \in [Ids -> Row \cup {None}]
  <2> DEFINE legacy == UNION {LegacyRow(u) : u \in Users}
  <2>1. row \in [Ids -> legacy \cup {None}]
    BY DEF Init
  <2>2. legacy \subseteq Row
    BY <1>2
  <2> HIDE DEF legacy
  <2>3. QED BY <2>1, <2>2
<1>4. TypeOK
  <2>1. /\ user \in [Users -> Accounts]
        /\ request \in [Users -> [Keys -> Ids \cup {"unused", "gone"}]]
        /\ madeBy \in [Ids -> Deployments] /\ net \in [Ids -> SUBSET Deployments]
        /\ quota \in [Users -> Quotas]
    BY DEF Init, Accounts
  <2>2. cont \in [Ids -> Containers] /\ dirs \in [Ids -> Disks]
    BY DEF Init, Containers, Running, Disks
  <2>3. /\ lock \in [Users -> Threads \cup {None}] /\ pc \in [Threads -> Steps]
        /\ job \in [Threads -> Job] /\ sess \in [Threads -> Row \cup {None}]
        /\ seen \in [Threads -> Containers] /\ todo \in [Threads -> SUBSET Ids]
        /\ failed \in [Threads -> BOOLEAN]
    BY DEF Init, Steps, NoJob, Job, Ops, Containers
  <2>4. /\ sweep \in [phase : {"rest", "users", "ids"}, users : SUBSET Users, ids : SUBSET Ids]
        /\ tasks = {} /\ closing \in BOOLEAN /\ deployment \in Deployments
    BY DEF Init, Rest
  <2>5. issued \in SUBSET Ids /\ auto \in [Ids -> Nat] /\ budget \in Budget
    BY ParameterAssumption DEF Init
  <2>6. QED BY <1>3, <2>1, <2>2, <2>3, <2>4, <2>5 DEF TypeOK
<1>5. Issued /\ TasksKnow
  BY DEF Init, Issued, Exists, TasksKnow
<1>6. NoOrphanResources
  <2>1. \A i \in Ids : row[i] # None => row[i].owner \in Users
    BY <1>3 DEF Row
  <2>2. QED BY <2>1 DEF Init, NoOrphanResources
<1>7. ASSUME NEW w \in Threads PROVE ThreadInv(w)
  <2>1. pc[w] = "idle" /\ job[w] = NoJob /\ todo[w] = {}
    BY DEF Init
  <2>2. HoldsItsLock(w) /\ OwnsItsRow(w) /\ OwnsItsList(w)
    BY <2>1, StepKinds DEF HoldsItsLock, OwnsItsRow, OwnsItsList
  <2>3. HasCome(w)
    BY <2>1 DEF HasCome, Reached, StartSteps, StopSteps, DeleteSteps, RepairSteps
  <2>4. QED BY <2>2, <2>3 DEF ThreadInv
<1> QED BY <1>4, <1>5, <1>6, <1>7 DEF Inductive

LEMMA Preserved == Inductive /\ [Next]_vars => Inductive'
<1> SUFFICES ASSUME Inductive, [Next]_vars PROVE Inductive'
  OBVIOUS
<1>1. ASSUME NEW w \in Threads, HandlerStep(w) PROVE Inductive'
  <2>1. CASE StartStep(w)
    BY <2>1, StartLocked, RowChosen DEF StartStep
  <2>2. CASE StopStep(w)
    BY <2>2, StopLocked, RowChosen DEF StopStep
  <2>3. CASE DeleteStep(w)
    BY <2>3, DeleteLocked, RowChosen, RowDeleted, AccountDeleted DEF DeleteStep
  <2>4. CASE RepairStep(w)
    BY <2>4, RepairLocked, RowChosen DEF RepairStep
  <2>5. QED BY <1>1, <2>1, <2>2, <2>3, <2>4, LockTaken, CutShort, RowCreated,
               CreationGoesOn, RowChosen DEF HandlerStep
<1>2. ASSUME NEW w \in Threads, Submission(w) PROVE Inductive'
  BY <1>2, Requests DEF Submission
<1>3. CASE Environment
  BY <1>3, WorldMoved, Restarted DEF Environment
<1>4. CASE UNCHANGED vars
  <2>1. Quiet /\ Peopled' /\ RestTypes'
    BY <1>4, StillQuiet DEF vars, Still, RestTypes, WorldTypes, Inductive, TypeOK
  <2>2. QED BY <1>4, <2>1, WorldStep DEF vars, thread
<1> QED BY <1>1, <1>2, <1>3, <1>4, GivenUp, CutShort, TaskRuns, Swept DEF Next

\* Every reachable state of the manager, however many users, instances,
\* goroutines, failures and restarts, satisfies the inductive invariant.
THEOREM Invariance == Spec => []Inductive
  BY Initially, Preserved, PTL DEF Spec

\* Every variable keeps its type.
THEOREM TypeCorrectness == Spec => []TypeOK
<1>1. Inductive => TypeOK
  BY DEF Inductive
<1> QED BY <1>1, Invariance, PTL

\* deleteLocked and DeleteUser leave no container and no data behind without a
\* row, and no row without an account, wherever they are interrupted.
THEOREM NothingIsOrphaned == Spec => []NoOrphanResources
<1>1. Inductive => NoOrphanResources
  BY DEF Inductive
<1> QED BY <1>1, Invariance, PTL

\* lockUser serialises the handlers of a user: what one of them read of its row
\* is still true at every later step it takes.
THEOREM RowsAreOwned == Spec => []HandlerOwnsItsRow
<1>1. Inductive => HandlerOwnsItsRow
  BY InHand, IdentityAssumption DEF HandlerOwnsItsRow, HasInHand
<1> QED BY <1>1, Invariance, PTL

=============================================================================
