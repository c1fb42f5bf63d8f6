------------------------- MODULE InstancesOrderProofs -------------------------
(* Rows are in order: a status agrees with the intent, automatic recovery     *)
(* keeps to its budget, and a handler touches only containers it has found to *)
(* be its own deployment's (InOrder of InstancesInvariant).                   *)
(*                                                                            *)
(* A step of a handler with an instance in hand changes nothing other         *)
(* handlers know (OthersCareful); most go on knowing what they knew (GoesOn)  *)
(* or end with a failure (FailsInOrder), whatever they were about to do.      *)
EXTENDS InstancesProofs

Minded == Judging \cup Verified \cup Retrying

LEMMA MindedSteps ==
    /\ Minded \subseteq RowSteps
    /\ Minded \cap {"idle", "nextInstance", "lock"} = {}
    /\ Minded \cap EntrySteps = {}
  BY DEF Minded, Judging, Verified, Retrying, RowSteps, StartSteps, StopSteps, DeleteSteps,
         RepairSteps, EntrySteps

LEMMA Unminded ==
    ASSUME NEW w \in Threads, pc'[w] \notin Minded
    PROVE  Careful(w)'
  BY DEF Careful, JudgesByItsRow, HasVerified, HasCounted, Minded

-----------------------------------------------------------------------------
(* What a step of w must not do to others.                                    *)

Elsewhere(w) ==
    /\ deployment' = deployment
    /\ \A i \in Ids \ {job[w].id} : /\ row'[i] = row[i] /\ cont'[i] = cont[i]
                                    /\ madeBy'[i] = madeBy[i] /\ auto'[i] = auto[i]

Bystanders(w) ==
    \A v \in Threads \ {w} : pc'[v] = pc[v] /\ job'[v] = job[v] /\ sess'[v] = sess[v]

LEMMA DistinctInstances ==
    ASSUME Inductive, NEW w \in Threads, HasInHand(w),
           NEW v \in Threads \ {w}, pc[v] \in RowSteps
    PROVE  job[v].id \in Ids \ {job[w].id}
<1>1. HasInHand(v) /\ job[v].id \in Ids
  BY InHand
<1>2. lock[job[v].user] = v /\ lock[job[w].user] = w
  BY <1>1 DEF HasInHand
<1> QED BY <1>1, <1>2 DEF HasInHand

LEMMA OthersCareful ==
    ASSUME Inductive, InOrder, NEW w \in Threads, HasInHand(w), Elsewhere(w), Bystanders(w),
           NEW k \in Ids, k = job[w].id, RowInOrder(k)', Careful(w)'
    PROVE  InOrder'
<1>1. ASSUME NEW i \in Ids PROVE RowInOrder(i)'
  <2>1. RowInOrder(i)
    BY DEF InOrder
  <2>2. CASE i # k
    BY <2>1, <2>2 DEF Elsewhere, RowInOrder, Exists
  <2>3. QED BY <2>2
<1>2. ASSUME NEW v \in Threads \ {w} PROVE Careful(v)'
  <2>1. CASE pc[v] \in Minded
    <3>1. job[v].id \in Ids \ {job[w].id}
      BY <2>1, MindedSteps, DistinctInstances
    <3>2. Careful(v)
      BY DEF InOrder
    <3>3. QED BY <3>1, <3>2
              DEF Elsewhere, Bystanders, Careful, JudgesByItsRow, HasVerified, HasCounted
  <2>2. CASE pc[v] \notin Minded
    BY <2>2, Unminded DEF Bystanders
  <2>3. QED BY <2>1, <2>2
<1> QED BY <1>1, <1>2 DEF InOrder

\* A step that touches no row, container or count, after which whoever went on
\* has nothing to mind.
LEMMA StillInOrder ==
    ASSUME InOrder, UNCHANGED <<row, cont, madeBy, auto, deployment>>,
           \A v \in Threads : \/ pc'[v] \notin Minded
                              \/ pc'[v] = pc[v] /\ job'[v] = job[v] /\ sess'[v] = sess[v]
    PROVE  InOrder'
<1>1. \A i \in Ids : RowInOrder(i)'
  BY DEF InOrder, RowInOrder, Exists
<1>2. ASSUME NEW v \in Threads PROVE Careful(v)'
  <2>1. CASE pc'[v] \notin Minded
    BY <2>1, Unminded
  <2>2. CASE pc'[v] = pc[v] /\ job'[v] = job[v] /\ sess'[v] = sess[v]
    BY <2>2 DEF InOrder, Careful, JudgesByItsRow, HasVerified, HasCounted
  <2>3. QED BY <2>1, <2>2
<1> QED BY <1>1, <1>2 DEF InOrder

-----------------------------------------------------------------------------
(* The ways a handler goes on.                                                *)

\* It returns, having left its row in order.
LEMMA ReturnsInOrder ==
    ASSUME Inductive, InOrder, NEW w \in Threads, HasInHand(w), Elsewhere(w),
           Release(w) \/ Return(w, TRUE) \/ Return(w, FALSE),
           NEW k \in Ids, k = job[w].id, RowInOrder(k)'
    PROVE  InOrder'
<1>1. pc'[w] \in {"idle", "nextInstance"} /\ Bystanders(w)
  BY DEF Release, Return, Goto, Inductive, TypeOK, Bystanders
<1> QED BY <1>1, MindedSteps, Unminded, OthersCareful

LEMMA WriteInOrder ==
    ASSUME Inductive, InOrder, NEW w \in Threads, HasInHand(w),
           NEW s \in Statuses, NEW d \in Intents, NEW e \in BOOLEAN, Write(w, s, d, e),
           Agree(s, d), NEW k \in Ids, k = job[w].id,
           auto' = auto \/ auto'[k] <= row[k].attempts
    PROVE  /\ RowInOrder(k)'
           /\ row'[k].attempts = row[k].attempts
           /\ \A i \in Ids \ {k} : row'[i] = row[i]
<1> DEFINE new == [row[k] EXCEPT !.status = s, !.desired = d, !.err = e]
<1>1. row \in [Ids -> Row \cup {None}] /\ row[k] \in Row
  BY DEF Inductive, TypeOK, HasInHand
<1>2. new.status = s /\ new.desired = d /\ new.attempts = row[k].attempts
  BY <1>1 DEF Row
<1>3. row' = [row EXCEPT ![k] = new]
  BY DEF Write
<1>4. RowInOrder(k) /\ Exists(k)
  BY <1>1, IdentityAssumption DEF InOrder, Exists
<1> HIDE DEF new
<1>5. row'[k] = new
  BY <1>1, <1>3
<1>6. Agree(row'[k].status, row'[k].desired)
  BY <1>2, <1>5
<1>7. RowInOrder(k)'
  BY <1>2, <1>4, <1>5, <1>6 DEF RowInOrder
<1> QED BY <1>1, <1>2, <1>3, <1>5, <1>7

\* It records a failure: error and unknown agree with every intent.
LEMMA FailsInOrder ==
    ASSUME Inductive, InOrder, NEW w \in Threads, pc[w] \in RowSteps,
           NEW s \in {"error", "unknown"}, Fail(w, s),
           deployment' = deployment,
           \A i \in Ids \ {job[w].id} : /\ cont'[i] = cont[i] /\ madeBy'[i] = madeBy[i]
                                         /\ auto'[i] = auto[i],
           auto' = auto \/ auto'[job[w].id] <= row[job[w].id].attempts
    PROVE  InOrder'
<1>1. /\ HasInHand(w) /\ job[w].id \in Ids
      /\ sess[w].desired \in Intents /\ s \in Statuses
  BY InHand DEF Row, Statuses
<1>2. Write(w, s, sess[w].desired, TRUE) /\ Return(w, FALSE)
  BY DEF Fail
<1>3. Agree(s, sess[w].desired)
  BY DEF Agree
<1>4. PICK k \in Ids : k = job[w].id
  BY <1>1
<1>5. RowInOrder(k)' /\ \A i \in Ids \ {k} : row'[i] = row[i]
  BY <1>1, <1>2, <1>3, <1>4, WriteInOrder
<1>6. Elsewhere(w)
  BY <1>4, <1>5 DEF Elsewhere
<1> QED BY <1>1, <1>2, <1>4, <1>5, <1>6, ReturnsInOrder

\* It goes on without touching its row, minding no more than before.
LEMMA GoesOn ==
    ASSUME Inductive, InOrder, NEW w \in Threads, pc[w] \in RowSteps, NEW next,
           Goto(w, next), UNCHANGED <<row, job, sess, madeBy, auto, deployment>>,
           \A i \in Ids \ {job[w].id} : cont'[i] = cont[i],
           cont'[job[w].id] # "none" => cont[job[w].id] # "none",
           next \in Judging => pc[w] \in Judging,
           next \in Verified => pc[w] \in Verified,
           next \in Retrying => pc[w] \in Retrying
    PROVE  InOrder'
<1>1. PICK i \in Ids : i = job[w].id /\ HasInHand(w)
  BY InHand
<1>2. Elsewhere(w)
  BY DEF Elsewhere
<1>3. pc'[w] = next /\ Bystanders(w)
  BY DEF Goto, Inductive, TypeOK, Bystanders
<1>4. RowInOrder(i)'
  <2>1. RowInOrder(i)
    BY <1>1 DEF InOrder
  <2>2. QED BY <2>1 DEF RowInOrder, Exists
<1>5. Careful(w)'
  <2>1. Careful(w)
    BY DEF InOrder
  <2>2. QED BY <1>3, <2>1 DEF Careful, JudgesByItsRow, HasVerified, HasCounted
<1> QED BY <1>1, <1>2, <1>3, <1>4, <1>5, OthersCareful

\* An inspection that succeeds verifies.
LEMMA InspectsInOrder ==
    ASSUME Inductive, InOrder, NEW w \in Threads, pc[w] \in RowSteps,
           NEW absent, NEW present, Inspect(w, absent, present),
           absent \notin Judging, present \notin Judging,
           absent \in Retrying \/ present \in Retrying => pc[w] \in Retrying
    PROVE  InOrder'
<1> USE DEF account, docker, manager
<1>1. PICK i \in Ids : i = job[w].id /\ HasInHand(w)
  BY InHand
<1> DEFINE next == IF cont[i] = "none" THEN absent ELSE present
<1>2. CASE Fail(w, "unknown") \/ Fail(w, "error")
  BY <1>2, FailsInOrder DEF Inspect
<1>3. CASE ~Fail(w, "unknown") /\ ~Fail(w, "error")
  <2>1. /\ cont[i] = "none" \/ madeBy[i] = deployment
        /\ Goto(w, next) /\ UNCHANGED <<row, job, sess, cont, madeBy, auto, deployment>>
    BY <1>1, <1>3 DEF Inspect
  <2>2. Elsewhere(w)
    BY <2>1 DEF Elsewhere
  <2>3. pc'[w] = next /\ Bystanders(w)
    BY <2>1 DEF Goto, Inductive, TypeOK, Bystanders
  <2>4. RowInOrder(i) /\ Careful(w)
    BY DEF InOrder
  <2>5. RowInOrder(i)'
    BY <2>1, <2>4 DEF RowInOrder, Exists
  <2>6. Careful(w)'
    BY <1>1, <2>1, <2>3, <2>4 DEF Careful, JudgesByItsRow, HasVerified, HasCounted
  <2>7. QED BY <1>1, <2>2, <2>3, <2>5, <2>6, OthersCareful
<1> QED BY <1>2, <1>3

LEMMA IsolatesInOrder ==
    ASSUME Inductive, InOrder, NEW w \in Threads, pc[w] \in RowSteps,
           NEW next, Isolate(w, next),
           next \in Judging => pc[w] \in Judging,
           next \in Verified => pc[w] \in Verified,
           next \in Retrying => pc[w] \in Retrying
    PROVE  InOrder'
<1> USE DEF account, manager
<1>1. CASE Fail(w, "error")
  BY <1>1, FailsInOrder DEF Isolate
<1>2. CASE ~Fail(w, "error")
  BY <1>2, GoesOn DEF Isolate
<1> QED BY <1>1, <1>2

LEMMA StopsInOrder ==
    ASSUME Inductive, InOrder, NEW w \in Threads, pc[w] \in RowSteps,
           NEW next, StopContainer(w, next),
           next \in Judging => pc[w] \in Judging,
           next \in Verified => pc[w] \in Verified,
           next \in Retrying => pc[w] \in Retrying
    PROVE  InOrder'
<1> USE DEF account, manager
<1>1. cont \in [Ids -> Containers] /\ "none" \notin Running
  BY DEF Inductive, TypeOK, Running
<1>2. /\ \A i \in Ids \ {job[w].id} : cont'[i] = cont[i]
      /\ cont'[job[w].id] # "none" => cont[job[w].id] # "none"
  BY <1>1, InHand DEF StopContainer
<1>3. CASE Fail(w, "error")
  BY <1>2, <1>3, FailsInOrder DEF StopContainer
<1>4. CASE ~Fail(w, "error")
  BY <1>2, <1>4, GoesOn DEF StopContainer
<1> QED BY <1>3, <1>4

\* It writes its row and goes on.
LEMMA CommitsInOrder ==
    ASSUME Inductive, InOrder, NEW w \in Threads, HasInHand(w),
           NEW s \in Statuses, NEW d \in Intents, Write(w, s, d, FALSE), Agree(s, d),
           NEW next, Goto(w, next), UNCHANGED <<job, cont, madeBy, auto, deployment>>,
           \A v \in Threads \ {w} : sess'[v] = sess[v],
           next \in Judging => JudgesByItsRow(w)',
           next \in Verified => pc[w] \in Verified,
           next \in Retrying => pc[w] \in Retrying
    PROVE  InOrder'
<1>1. PICK k \in Ids : k = job[w].id
  BY DEF HasInHand
<1>2. /\ RowInOrder(k)' /\ row'[k].attempts = row[k].attempts
      /\ \A i \in Ids \ {k} : row'[i] = row[i]
  BY <1>1, WriteInOrder
<1>3. Elsewhere(w)
  BY <1>1, <1>2 DEF Elsewhere
<1>4. pc'[w] = next /\ Bystanders(w)
  BY DEF Goto, Inductive, TypeOK, Bystanders
<1>5. Careful(w)'
  <2>1. Careful(w)
    BY DEF InOrder
  <2>2. JudgesByItsRow(w)'
    BY <1>4 DEF JudgesByItsRow
  <2>3. QED BY <1>1, <1>2, <1>4, <2>1, <2>2 DEF Careful, HasVerified, HasCounted
<1> QED BY <1>1, <1>2, <1>3, <1>4, <1>5, OthersCareful

\* It writes its row and returns.
LEMMA ConcludesInOrder ==
    ASSUME Inductive, InOrder, NEW w \in Threads, HasInHand(w),
           NEW s \in Statuses, NEW d \in Intents, NEW e \in BOOLEAN, Write(w, s, d, e),
           Agree(s, d), Release(w) \/ Return(w, TRUE),
           UNCHANGED <<cont, madeBy, auto, deployment>>
    PROVE  InOrder'
<1>1. PICK k \in Ids : k = job[w].id
  BY DEF HasInHand
<1>2. RowInOrder(k)' /\ \A i \in Ids \ {k} : row'[i] = row[i]
  BY <1>1, WriteInOrder
<1>3. Elsewhere(w)
  BY <1>1, <1>2 DEF Elsewhere
<1> QED BY <1>1, <1>2, <1>3, ReturnsInOrder

-----------------------------------------------------------------------------
(* startLocked.                                                               *)

LEMMA StartsInOrder ==
    ASSUME Inductive, InOrder, NEW w \in Threads,
           \/ MarkStarting(w) \/ StartInspect(w) \/ StartIsolate(w) \/ StartRestop(w)
           \/ CheckDirectories(w) \/ EnsureNetwork(w) \/ BuildContainer(w)
           \/ BootContainer(w) \/ AwaitHealthy(w) \/ MarkRunning(w)
    PROVE  InOrder'
<1> USE DEF account, docker, manager
<1>1. pc[w] \in StartSteps /\ pc[w] \in RowSteps
  BY DEF MarkStarting, StartInspect, StartIsolate, StartRestop, CheckDirectories,
         EnsureNetwork, BuildContainer, BootContainer, AwaitHealthy, MarkRunning,
         RowSteps, StartSteps
<1>2. PICK k \in Ids : k = job[w].id /\ HasInHand(w)
  BY <1>1, InHand
<1>3. /\ cont \in [Ids -> Containers] /\ madeBy \in [Ids -> Deployments]
      /\ auto \in [Ids -> Nat] /\ row[k] \in Row
  BY <1>2 DEF Inductive, TypeOK, HasInHand
<1>4. RowInOrder(k) /\ Careful(w) /\ Exists(k)
  BY <1>2, <1>3, IdentityAssumption DEF InOrder, Exists
<1>5. CASE MarkStarting(w)
  <2>1. /\ pc[w] = "mark" /\ Commit(w, "starting", "running") /\ Goto(w, "inspect")
        /\ UNCHANGED <<job, cont, madeBy, auto, deployment>>
    BY <1>5 DEF MarkStarting
  <2>2. Agree("starting", "running") /\ "starting" \in Statuses /\ "running" \in Intents
    BY DEF Agree, Statuses, Intents
  <2>3. /\ Write(w, "starting", "running", FALSE)
        /\ \A v \in Threads \ {w} : sess'[v] = sess[v]
    BY <2>1 DEF Commit, Inductive, TypeOK
  <2>4. QED BY <1>2, <2>1, <2>2, <2>3, CommitsInOrder DEF Judging, Verified, Retrying
<1>6. CASE StartInspect(w)
  BY <1>1, <1>6, InspectsInOrder DEF StartInspect, Judging, Retrying
<1>7. CASE StartIsolate(w)
  <2>1. PICK next \in {"restop", "boot", "await"} : Isolate(w, next) /\ pc[w] = "isolate"
    BY <1>7 DEF StartIsolate
  <2>2. QED BY <1>1, <2>1, IsolatesInOrder DEF Judging, Verified, Retrying
<1>8. CASE StartRestop(w)
  BY <1>1, <1>8, StopsInOrder DEF StartRestop, Judging, Verified, Retrying
<1>9. CASE CheckDirectories(w) \/ EnsureNetwork(w) \/ AwaitHealthy(w)
  <2>1. UNCHANGED <<cont, madeBy, auto, deployment>>
    BY <1>9 DEF CheckDirectories, EnsureNetwork, AwaitHealthy
  <2>2. CASE Fail(w, "error")
    BY <1>1, <2>1, <2>2, FailsInOrder
  <2>3. CASE ~Fail(w, "error")
    <3>1. PICK next \in {"network", "build", "ready"} :
            /\ Goto(w, next) /\ UNCHANGED <<row, job, sess>>
            /\ next # "ready" => pc[w] \in {"checkDirs", "network"}
      BY <1>9, <2>3 DEF CheckDirectories, EnsureNetwork, AwaitHealthy
    <3>2. QED BY <1>1, <2>1, <3>1, GoesOn DEF Judging, Verified, Retrying
  <2>4. QED BY <2>2, <2>3
<1>10. CASE BuildContainer(w)
  <2>1. /\ pc[w] = "build" /\ UNCHANGED <<auto, deployment>>
        /\ \A i \in Ids \ {k} : cont'[i] = cont[i] /\ madeBy'[i] = madeBy[i]
    BY <1>2, <1>3, <1>10 DEF BuildContainer
  <2>2. CASE Fail(w, "error")
    BY <1>1, <1>2, <2>1, <2>2, FailsInOrder
  <2>3. CASE ~Fail(w, "error")
    <3>1. Goto(w, "boot") /\ UNCHANGED <<row, job, sess>> /\ madeBy'[k] = deployment
      BY <1>2, <1>3, <1>10, <2>3 DEF BuildContainer
    <3>2. pc'[w] = "boot" /\ Bystanders(w)
      BY <3>1 DEF Goto, Inductive, TypeOK, Bystanders
    <3>3. Elsewhere(w)
      BY <1>2, <2>1, <3>1 DEF Elsewhere
    <3>4. RowInOrder(k)'
      BY <1>4, <2>1, <3>1 DEF RowInOrder, Exists
    <3>5. Careful(w)'
      BY <1>2, <1>4, <2>1, <3>1, <3>2
         DEF Careful, JudgesByItsRow, HasVerified, HasCounted, Judging, Retrying
    <3>6. QED BY <1>2, <3>2, <3>3, <3>4, <3>5, OthersCareful
  <2>4. QED BY <2>2, <2>3
<1>11. CASE BootContainer(w)
  <2>1. /\ pc[w] = "boot" /\ UNCHANGED <<madeBy, deployment>>
        /\ \A i \in Ids \ {k} : cont'[i] = cont[i] /\ auto'[i] = auto[i]
    BY <1>2, <1>3, <1>11 DEF BootContainer
  <2>2. auto'[k] <= row[k].attempts
    <3>1. row[k].attempts \in Nat /\ auto[k] \in Nat /\ auto[k] <= row[k].attempts
      BY <1>3, <1>4 DEF Row, RowInOrder
    <3>2. CASE job[w].op = "reconcile"
      <4>1. auto'[k] = auto[k] + 1
        BY <1>2, <1>3, <1>11, <3>2 DEF BootContainer
      <4>2. auto[k] < row[k].attempts
        BY <1>2, <1>4, <2>1, <3>2 DEF Careful, HasCounted, Retrying
      <4>3. QED BY <3>1, <4>1, <4>2
    <3>3. CASE job[w].op # "reconcile"
      BY <1>11, <3>1, <3>3 DEF BootContainer
    <3>4. QED BY <3>2, <3>3
  <2>3. CASE Fail(w, "error")
    BY <1>1, <1>2, <2>1, <2>2, <2>3, FailsInOrder
  <2>4. CASE ~Fail(w, "error")
    <3>1. Goto(w, "await") /\ UNCHANGED <<row, job, sess>>
      BY <1>11, <2>4 DEF BootContainer
    <3>2. pc'[w] = "await" /\ Bystanders(w)
      BY <3>1 DEF Goto, Inductive, TypeOK, Bystanders
    <3>3. Elsewhere(w)
      BY <1>2, <2>1, <3>1 DEF Elsewhere
    <3>4. RowInOrder(k)'
      BY <1>4, <2>2, <3>1 DEF RowInOrder, Exists
    <3>5. Careful(w)'
      BY <3>2, Unminded DEF Minded, Judging, Verified, Retrying
    <3>6. QED BY <1>2, <3>2, <3>3, <3>4, <3>5, OthersCareful
  <2>5. QED BY <2>3, <2>4
<1>12. CASE MarkRunning(w)
  <2>1. Agree("running", "running") /\ "running" \in Statuses /\ "running" \in Intents
    BY DEF Agree, Statuses, Intents
  <2>2. QED BY <1>2, <1>12, <2>1, ConcludesInOrder DEF MarkRunning
<1> QED BY <1>5, <1>6, <1>7, <1>8, <1>9, <1>10, <1>11, <1>12

-----------------------------------------------------------------------------
(* stopLocked and deleteLocked.                                               *)

LEMMA StoppingInOrder ==
    ASSUME Inductive, InOrder, NEW w \in Threads,
           \/ StopInspect(w) \/ StopIsolate(w) \/ StopStop(w) \/ StopCheck(w)
           \/ MarkStopped(w)
    PROVE  InOrder'
<1> USE DEF account, docker, manager
<1>1. pc[w] \in StopSteps /\ pc[w] \in RowSteps
  BY DEF StopInspect, StopIsolate, StopStop, StopCheck, MarkStopped, RowSteps, StopSteps
<1>2. CASE StopInspect(w)
  BY <1>1, <1>2, InspectsInOrder DEF StopInspect, Judging, Retrying
<1>3. CASE StopIsolate(w)
  <2>1. PICK next \in {"stopStop", "stopDone"} : Isolate(w, next) /\ pc[w] = "stopIsolate"
    BY <1>3 DEF StopIsolate
  <2>2. QED BY <1>1, <2>1, IsolatesInOrder DEF Judging, Verified, Retrying
<1>4. CASE StopStop(w)
  BY <1>1, <1>4, StopsInOrder DEF StopStop, Judging, Verified, Retrying
<1>5. CASE StopCheck(w)
  <2>1. UNCHANGED <<cont, madeBy, auto, deployment>>
    BY <1>5 DEF StopCheck
  <2>2. CASE Fail(w, "error") \/ Fail(w, "unknown")
    BY <1>1, <2>1, <2>2, FailsInOrder
  <2>3. CASE Goto(w, "stopDone") /\ UNCHANGED <<row, job, sess>>
    BY <1>1, <2>1, <2>3, GoesOn DEF Judging, Verified, Retrying
  <2>4. QED BY <1>5, <2>2, <2>3 DEF StopCheck
<1>6. CASE MarkStopped(w)
  <2>1. Agree("stopped", "stopped") /\ "stopped" \in Statuses /\ "stopped" \in Intents
    BY DEF Agree, Statuses, Intents
  <2>2. HasInHand(w)
    BY <1>1, InHand
  <2>3. QED BY <1>6, <2>1, <2>2, ConcludesInOrder DEF MarkStopped
<1> QED BY <1>2, <1>3, <1>4, <1>5, <1>6

LEMMA DeletingInOrder ==
    ASSUME Inductive, InOrder, NEW w \in Threads,
           \/ MarkDeleting(w) \/ DeleteInspect(w) \/ DeleteStop(w) \/ RemoveContainer(w)
           \/ DeleteCheck(w) \/ RemoveNetwork(w) \/ RemoveDirectories(w) \/ DeleteRow(w)
    PROVE  InOrder'
<1> USE DEF account, docker, manager
<1>1. pc[w] \in DeleteSteps /\ pc[w] \in RowSteps
  BY DEF MarkDeleting, DeleteInspect, DeleteStop, RemoveContainer, DeleteCheck,
         RemoveNetwork, RemoveDirectories, DeleteRow, RowSteps, DeleteSteps
<1>2. PICK k \in Ids : k = job[w].id /\ HasInHand(w)
  BY <1>1, InHand
<1>3. cont \in [Ids -> Containers] /\ row \in [Ids -> Row \cup {None}]
  BY DEF Inductive, TypeOK
<1>4. CASE MarkDeleting(w)
  <2>1. Agree("deleting", "deleted") /\ "deleting" \in Statuses /\ "deleted" \in Intents
    BY DEF Agree, Statuses, Intents
  <2>2. /\ Goto(w, "delInspect") /\ Write(w, "deleting", "deleted", FALSE)
        /\ \A v \in Threads \ {w} : sess'[v] = sess[v]
        /\ UNCHANGED <<job, cont, madeBy, auto, deployment>>
    BY <1>4 DEF MarkDeleting, Commit, Inductive, TypeOK
  <2>3. QED BY <1>2, <2>1, <2>2, CommitsInOrder DEF Judging, Verified, Retrying
<1>5. CASE DeleteInspect(w)
  <2>1. PICK next \in {"delStop", "delRemove"} : Inspect(w, "delNetwork", next)
    BY <1>5 DEF DeleteInspect
  <2>2. QED BY <1>1, <2>1, InspectsInOrder DEF Judging, Retrying
<1>6. CASE DeleteStop(w)
  BY <1>1, <1>6, StopsInOrder DEF DeleteStop, Judging, Verified, Retrying
<1>7. CASE RemoveContainer(w)
  <2>1. /\ UNCHANGED <<madeBy, auto, deployment>>
        /\ \A i \in Ids \ {k} : cont'[i] = cont[i]
        /\ cont'[k] # "none" => cont[k] # "none"
    BY <1>2, <1>3, <1>7 DEF RemoveContainer
  <2>2. CASE Fail(w, "error")
    BY <1>1, <1>2, <2>1, <2>2, FailsInOrder
  <2>3. CASE Goto(w, "delCheck") /\ UNCHANGED <<row, job, sess>>
    BY <1>1, <1>2, <2>1, <2>3, GoesOn DEF Judging, Verified, Retrying
  <2>4. QED BY <1>7, <2>2, <2>3 DEF RemoveContainer
<1>8. CASE DeleteCheck(w) \/ RemoveNetwork(w) \/ RemoveDirectories(w)
  <2>1. UNCHANGED <<cont, madeBy, auto, deployment>>
    BY <1>8 DEF DeleteCheck, RemoveNetwork, RemoveDirectories
  <2>2. CASE Fail(w, "error") \/ Fail(w, "unknown")
    BY <1>1, <2>1, <2>2, FailsInOrder
  <2>3. CASE ~Fail(w, "error") /\ ~Fail(w, "unknown")
    <3>1. PICK next \in {"delNetwork", "delDirs", "delRow"} :
            Goto(w, next) /\ UNCHANGED <<row, job, sess>>
      BY <1>8, <2>3 DEF DeleteCheck, RemoveNetwork, RemoveDirectories
    <3>2. QED BY <1>1, <2>1, <3>1, GoesOn DEF Judging, Verified, Retrying
  <2>4. QED BY <2>2, <2>3
<1>9. CASE DeleteRow(w)
  <2>1. /\ row' = [row EXCEPT ![k] = None] /\ Return(w, TRUE)
        /\ UNCHANGED <<cont, madeBy, auto, deployment>>
    BY <1>2, <1>9 DEF DeleteRow
  <2>2. Elsewhere(w) /\ ~Exists(k)'
    BY <1>2, <1>3, <2>1 DEF Elsewhere, Exists
  <2>3. RowInOrder(k)'
    BY <2>2 DEF RowInOrder
  <2>4. QED BY <1>2, <2>1, <2>2, <2>3, ReturnsInOrder
<1> QED BY <1>4, <1>5, <1>6, <1>7, <1>8, <1>9

-----------------------------------------------------------------------------
(* reconcileLocked, once it has inspected the container.                      *)

LEMMA RepairsInOrder ==
    ASSUME Inductive, InOrder, NEW w \in Threads,
           \/ ReconcileIsolate(w) \/ ReconcileDirectories(w) \/ SettleLegacy(w)
           \/ SettleStopped(w) \/ SettleHealthy(w) \/ SettleExhausted(w)
           \/ SettleLater(w) \/ SettleRetry(w) \/ ReconcileHealthy(w)
           \/ ReconcileReset(w) \/ ReconcileExhausted(w) \/ ReconcileStop(w)
    PROVE  InOrder'
<1> USE DEF account, docker, manager
<1>1. pc[w] \in RepairSteps /\ pc[w] \in RowSteps
  BY DEF ReconcileIsolate, ReconcileDirectories, SettleLegacy, SettleStopped, SettleHealthy,
         SettleExhausted, SettleLater, SettleRetry, ReconcileHealthy, ReconcileReset,
         ReconcileExhausted, ReconcileStop, Wanted, RowSteps, RepairSteps
<1>2. PICK k \in Ids : k = job[w].id /\ HasInHand(w)
  BY <1>1, InHand
<1>3. /\ cont \in [Ids -> Containers] /\ row \in [Ids -> Row \cup {None}]
      /\ auto \in [Ids -> Nat] /\ row[k] \in Row /\ sess[w] \in Row
      /\ sess \in [Threads -> Row \cup {None}]
  BY <1>1, <1>2, InHand DEF Inductive, TypeOK, HasInHand
<1>4. RowInOrder(k) /\ Careful(w) /\ Exists(k)
  BY <1>2, <1>3, IdentityAssumption DEF InOrder, Exists
<1>5. CASE ReconcileIsolate(w)
  BY <1>1, <1>5, IsolatesInOrder DEF ReconcileIsolate, Judging, Verified, Retrying
<1>6. CASE ReconcileStop(w)
  BY <1>1, <1>6, StopsInOrder DEF ReconcileStop, Judging, Verified, Retrying
<1>7. CASE ReconcileDirectories(w) \/ SettleStopped(w) \/ SettleHealthy(w)
  <2>1. UNCHANGED <<cont, madeBy, auto, deployment>>
    BY <1>7 DEF ReconcileDirectories, SettleStopped, SettleHealthy
  <2>2. CASE Fail(w, "error")
    BY <1>1, <2>1, <2>2, FailsInOrder
  <2>3. CASE ~Fail(w, "error")
    <3>1. PICK next \in {"recSettle", "stopInspect", "recHealthy"} :
            /\ Goto(w, next) /\ UNCHANGED <<row, job, sess>>
            /\ next = "recSettle" => pc[w] = "recDirs"
      BY <1>7, <2>3 DEF ReconcileDirectories, SettleStopped, SettleHealthy
    <3>2. QED BY <1>1, <2>1, <3>1, GoesOn DEF Judging, Verified, Retrying
  <2>4. QED BY <2>2, <2>3
<1>8. CASE SettleExhausted(w) \/ SettleLater(w)
  <2>1. UNCHANGED <<cont, madeBy, auto, deployment>>
    BY <1>8 DEF SettleExhausted, SettleLater
  <2>2. CASE Fail(w, "error")
    BY <1>1, <2>1, <2>2, FailsInOrder
  <2>3. CASE Goto(w, "recExhausted") /\ UNCHANGED <<row, job, sess>>
    <3>1. pc[w] = "recSettle"
      BY <1>8 DEF SettleExhausted, SettleLater, Wanted
    <3>2. QED BY <1>1, <2>1, <2>3, <3>1, GoesOn DEF Judging, Verified, Retrying
  <2>4. CASE Release(w) /\ row' = row
    <3>1. Elsewhere(w)
      BY <2>1, <2>4 DEF Elsewhere
    <3>2. RowInOrder(k)'
      BY <1>4, <2>1, <2>4 DEF RowInOrder, Exists
    <3>3. QED BY <1>2, <2>4, <3>1, <3>2, ReturnsInOrder
  <2>5. QED BY <1>8, <2>2, <2>3, <2>4 DEF SettleExhausted, SettleLater
<1>9. CASE SettleLegacy(w)
  <2>1. PICK d \in {"running", "stopped"} :
          /\ Commit(w, sess[w].status, d) /\ pc' = pc
          /\ UNCHANGED <<job, cont, madeBy, auto, deployment>>
    BY <1>9 DEF SettleLegacy
  <2>2. /\ pc[w] = "recSettle" /\ sess[w].desired = "legacy_expired"
        /\ JudgesByItsRow(w)
    BY <1>4, <1>9 DEF SettleLegacy, Careful
  <2>3. Agree(sess[w].status, d) /\ sess[w].status \in Statuses /\ d \in Intents
    BY <1>3, <2>2 DEF JudgesByItsRow, Judging, Agree, Row, Intents
  <2>4. /\ sess'[w].desired = d /\ sess'[w].attempts = sess[w].attempts
        /\ \A v \in Threads \ {w} : sess'[v] = sess[v]
    BY <1>3, <2>1 DEF Commit, Row
  <2>5. Write(w, sess[w].status, d, FALSE)
    BY <2>1 DEF Commit
  <2>6. row'[k].attempts = row[k].attempts
    BY <1>2, <2>1, <2>3, <2>5, WriteInOrder
  <2>7. JudgesByItsRow(w)'
    BY <1>2, <2>1, <2>2, <2>4, <2>6 DEF JudgesByItsRow, Judging
  <2>8. Goto(w, "recSettle")
    BY <2>1, <2>2 DEF Goto, Inductive, TypeOK
  <2>9. QED BY <1>2, <2>1, <2>2, <2>3, <2>4, <2>5, <2>7, <2>8, CommitsInOrder
            DEF Judging, Verified, Retrying
<1>10. CASE SettleRetry(w)
  <2> DEFINE n == sess[w].attempts + 1
             new == [row[k] EXCEPT !.attempts = n, !.wait = TRUE]
  <2>1. /\ pc[w] = "recSettle" /\ sess[w].attempts < MaxRecoveryAttempts
        /\ UNCHANGED <<job, sess, cont, madeBy, auto, deployment>>
    BY <1>10 DEF SettleRetry, Wanted
  <2>2. PICK next \in {"recStop", "mark"} : Goto(w, next)
    BY <1>10 DEF SettleRetry
  <2>3. row' = [row EXCEPT ![k] = new]
    BY <1>2, <1>10 DEF SettleRetry
  <2>4. /\ new.status = row[k].status /\ new.desired = row[k].desired
        /\ new.attempts = n
    BY <1>3 DEF Row
  <2>5. /\ sess[w].attempts = row[k].attempts /\ auto[k] <= row[k].attempts
        /\ row[k].attempts \in Nat /\ auto[k] \in Nat /\ MaxRecoveryAttempts \in Nat
    BY <1>2, <1>3, <1>4, <2>1, ParameterAssumption
       DEF Careful, JudgesByItsRow, Judging, RowInOrder, Row
  <2> HIDE DEF new
  <2>6. row'[k] = new /\ \A i \in Ids \ {k} : row'[i] = row[i]
    BY <1>3, <2>3
  <2>7. n <= MaxRecoveryAttempts /\ auto[k] < n /\ auto[k] <= n
    BY <2>1, <2>5
  <2>8. RowInOrder(k)'
    BY <1>4, <2>1, <2>4, <2>6, <2>7 DEF RowInOrder
  <2>9. pc'[w] = next /\ Bystanders(w)
    BY <2>1, <2>2 DEF Goto, Inductive, TypeOK, Bystanders
  <2>10. HasVerified(w)
    BY <1>4 DEF Careful
  <2>11. Careful(w)'
    <3>1. HasVerified(w)'
      BY <2>1, <2>9, <2>10 DEF HasVerified, Verified, Judging
    <3>2. HasCounted(w)'
      BY <1>2, <2>1, <2>4, <2>6, <2>7 DEF HasCounted
    <3>3. QED BY <2>9, <3>1, <3>2 DEF Careful, JudgesByItsRow, Judging
  <2>12. Elsewhere(w)
    BY <1>2, <2>1, <2>6 DEF Elsewhere
  <2>13. QED BY <1>2, <2>8, <2>9, <2>11, <2>12, OthersCareful
<1>11. CASE ReconcileHealthy(w)
  <2>1. /\ Agree("running", "running") /\ "running" \in Statuses /\ "running" \in Intents
        /\ Write(w, "running", "running", FALSE)
        /\ UNCHANGED <<cont, madeBy, auto, deployment>>
    BY <1>11 DEF ReconcileHealthy, Agree, Statuses, Intents
  <2>2. CASE Release(w)
    BY <1>2, <2>1, <2>2, ConcludesInOrder
  <2>3. CASE Goto(w, "recReset") /\ UNCHANGED <<job, sess>>
    BY <1>2, <2>1, <2>3, CommitsInOrder DEF Judging, Verified, Retrying
  <2>4. QED BY <1>11, <2>2, <2>3 DEF ReconcileHealthy
<1>12. CASE ReconcileReset(w)
  <2> DEFINE new == [row[k] EXCEPT !.attempts = 0, !.wait = FALSE]
  <2>1. /\ row' = [row EXCEPT ![k] = new] /\ auto' = [auto EXCEPT ![k] = 0]
        /\ Release(w) /\ UNCHANGED <<cont, madeBy, deployment>>
    BY <1>2, <1>12 DEF ReconcileReset
  <2>2. /\ new.status = row[k].status /\ new.desired = row[k].desired
        /\ new.attempts = 0
    BY <1>3 DEF Row
  <2> HIDE DEF new
  <2>3. /\ row'[k] = new /\ auto'[k] = 0 /\ MaxRecoveryAttempts \in Nat
        /\ \A i \in Ids \ {k} : row'[i] = row[i] /\ auto'[i] = auto[i]
    BY <1>3, <2>1, ParameterAssumption
  <2>4. RowInOrder(k)'
    BY <1>4, <2>2, <2>3 DEF RowInOrder
  <2>5. Elsewhere(w)
    BY <1>2, <2>1, <2>3 DEF Elsewhere
  <2>6. QED BY <1>2, <2>1, <2>4, <2>5, ReturnsInOrder
<1>13. CASE ReconcileExhausted(w)
  <2>1. /\ UNCHANGED <<madeBy, auto, deployment>> /\ Fail(w, "error")
        /\ \A i \in Ids \ {k} : cont'[i] = cont[i]
    BY <1>2, <1>3, <1>13 DEF ReconcileExhausted
  <2>2. QED BY <1>1, <1>2, <2>1, FailsInOrder
<1> QED BY <1>5, <1>6, <1>7, <1>8, <1>9, <1>10, <1>11, <1>12, <1>13

-----------------------------------------------------------------------------
(* A handler chooses its row, or makes one.                                   *)

\* Its row is as it was, and it minds only what it has just seen to.
LEMMA TakesUp ==
    ASSUME Inductive, InOrder, NEW w \in Threads, HasInHand(w), NEW next, Goto(w, next),
           UNCHANGED <<job, cont, madeBy, deployment>>,
           \A v \in Threads \ {w} : sess'[v] = sess[v],
           NEW k \in Ids, k = job[w].id, RowInOrder(k)',
           \A i \in Ids \ {k} : row'[i] = row[i] /\ auto'[i] = auto[i],
           next \in Judging => JudgesByItsRow(w)',
           next \in Verified => cont[k] = "none" \/ madeBy[k] = deployment,
           next \in Retrying => job[w].op # "reconcile"
    PROVE  InOrder'
<1>1. pc'[w] = next /\ Bystanders(w)
  BY DEF Goto, Inductive, TypeOK, Bystanders
<1>2. Elsewhere(w)
  BY DEF Elsewhere
<1>3. JudgesByItsRow(w)'
  BY <1>1 DEF JudgesByItsRow
<1>4. HasVerified(w)' /\ HasCounted(w)'
  BY <1>1 DEF HasVerified, HasCounted
<1> QED BY <1>1, <1>2, <1>3, <1>4, OthersCareful DEF Careful

LEMMA ChoosesInOrder ==
    ASSUME Inductive, InOrder, NEW w \in Threads,
           \/ ResumeCreation(w) \/ StartSession(w) \/ StopSession(w)
           \/ DeleteSession(w) \/ BeginUpload(w) \/ ReconcileDeleted(w)
           \/ ReconcileInspect(w)
    PROVE  InOrder'
<1> USE DEF account, docker, manager
<1>1. pc[w] \in EntrySteps \ {"create", "deleteUser"} /\ Permitted(w)
  BY DEF ResumeCreation, StartSession, StopSession, DeleteSession, BeginUpload,
         ReconcileDeleted, ReconcileInspect, EntrySteps
<1>2. PICK k \in Ids : k = job[w].id /\ HasInHand(w)
  BY <1>1, Chosen DEF HasInHand
<1>3. /\ row \in [Ids -> Row \cup {None}] /\ row[k] \in Row /\ auto \in [Ids -> Nat]
      /\ sess \in [Threads -> Row \cup {None}]
  BY <1>2 DEF Inductive, TypeOK, HasInHand
<1>4. RowInOrder(k) /\ Exists(k) /\ Agree(row[k].status, row[k].desired)
  BY <1>2, <1>3, IdentityAssumption DEF InOrder, Exists, RowInOrder
<1>5. pc[w] = job[w].op
  BY <1>1, StepKinds DEF Inductive, ThreadInv, HoldsItsLock
<1>6. ASSUME Hold(w) PROVE sess'[w] = row[k] /\ \A v \in Threads \ {w} : sess'[v] = sess[v]
  BY <1>2, <1>3, <1>6 DEF Hold
<1>7. ASSUME row' = row, auto' = auto PROVE RowInOrder(k)'
  BY <1>4, <1>7 DEF RowInOrder, Exists
<1>8. CASE DeleteSession(w) \/ BeginUpload(w) \/ ReconcileDeleted(w)
  <2>1. /\ UNCHANGED <<row, job, cont, madeBy, auto, deployment>> /\ Hold(w)
        /\ Goto(w, "delMark") \/ Goto(w, "uploading")
    BY <1>8 DEF DeleteSession, BeginUpload, ReconcileDeleted
  <2>2. QED BY <1>2, <1>6, <1>7, <2>1, TakesUp DEF Judging, Verified, Retrying
<1>9. CASE ResumeCreation(w)
  <2>1. /\ UNCHANGED <<row, job, cont, madeBy, auto, deployment>> /\ Hold(w)
        /\ Goto(w, "mark") /\ job[w].op # "reconcile"
    BY <1>5, <1>9 DEF ResumeCreation
  <2>2. QED BY <1>2, <1>6, <1>7, <2>1, TakesUp DEF Judging, Verified, Retrying
<1>10. CASE StartSession(w)
  <2> DEFINE new == [row[k] EXCEPT !.attempts = 0, !.wait = FALSE]
  <2>1. /\ row' = [row EXCEPT ![k] = new] /\ auto' = [auto EXCEPT ![k] = 0] /\ Hold(w)
        /\ Goto(w, "mark") /\ job[w].op # "reconcile"
        /\ UNCHANGED <<job, cont, madeBy, deployment>>
    BY <1>2, <1>5, <1>10 DEF StartSession
  <2>2. /\ new.status = row[k].status /\ new.desired = row[k].desired
        /\ new.attempts = 0
    BY <1>3 DEF Row
  <2> HIDE DEF new
  <2>3. /\ row'[k] = new /\ auto'[k] = 0 /\ MaxRecoveryAttempts \in Nat
        /\ \A i \in Ids \ {k} : row'[i] = row[i] /\ auto'[i] = auto[i]
    BY <1>3, <2>1, ParameterAssumption
  <2>4. RowInOrder(k)'
    BY <1>4, <2>2, <2>3 DEF RowInOrder
  <2>5. QED BY <1>2, <1>6, <2>1, <2>3, <2>4, TakesUp DEF Judging, Verified, Retrying
<1>11. CASE StopSession(w)
  <2>1. /\ Write(w, "stopping", "stopped", FALSE) /\ Goto(w, "stopInspect")
        /\ UNCHANGED <<job, cont, madeBy, auto, deployment>>
        /\ \A v \in Threads \ {w} : sess'[v] = sess[v]
    BY <1>3, <1>11 DEF StopSession
  <2>2. Agree("stopping", "stopped") /\ "stopping" \in Statuses /\ "stopped" \in Intents
    BY DEF Agree, Statuses, Intents
  <2>3. QED BY <1>2, <2>1, <2>2, CommitsInOrder DEF Judging, Verified, Retrying
<1>12. CASE ReconcileInspect(w)
  <2>1. UNCHANGED <<cont, madeBy, auto, deployment>>
    BY <1>12 DEF ReconcileInspect
  <2>2. CASE Release(w)
    <3>1. PICK s \in {"unknown", "error"} : Write(w, s, row[k].desired, TRUE)
      BY <1>2, <1>12, <2>2 DEF ReconcileInspect, Release, Goto, Inductive, TypeOK
    <3>2. /\ Agree(s, row[k].desired) /\ s \in Statuses /\ row[k].desired \in Intents
      BY <1>3 DEF Agree, Statuses, Row
    <3>3. QED BY <1>2, <2>1, <2>2, <3>1, <3>2, ConcludesInOrder
  <2>3. CASE ~Release(w)
    <3>1. PICK next \in {"recDirs", "recIsolate"} : Goto(w, next)
      BY <1>12, <2>3 DEF ReconcileInspect
    <3>2. /\ cont[k] = "none" \/ madeBy[k] = deployment
          /\ Hold(w) /\ UNCHANGED <<row, job>>
      BY <1>2, <1>12, <2>3 DEF ReconcileInspect
    <3>3. sess'[w] = row[k] /\ pc'[w] = next /\ job'[w].id = k /\ row'[k] = row[k]
      BY <1>2, <1>6, <3>1, <3>2 DEF Goto, Inductive, TypeOK
    <3>4. JudgesByItsRow(w)'
      BY <1>4, <3>3 DEF JudgesByItsRow
    <3>5. next \notin Retrying
      BY DEF Retrying
    <3>6. QED BY <1>2, <1>6, <1>7, <2>1, <3>1, <3>2, <3>4, <3>5, TakesUp
  <2>4. QED BY <2>2, <2>3
<1> QED BY <1>8, <1>9, <1>10, <1>11, <1>12

LEMMA CreatesInOrder ==
    ASSUME Inductive, InOrder, NEW w \in Threads, CreateInQuota(w)
    PROVE  InOrder'
<1> USE DEF account, docker, manager
<1> DEFINE new == NewRow(job[w].user, job[w].key)
<1>1. PICK i \in Ids \ issued :
        /\ row' = [row EXCEPT ![i] = new] /\ auto' = [auto EXCEPT ![i] = 0]
        /\ job' = [job EXCEPT ![w].id = i] /\ sess' = [sess EXCEPT ![w] = new]
  BY DEF CreateInQuota
<1>2. Goto(w, "mkdirs") /\ UNCHANGED <<cont, madeBy, deployment>>
  BY DEF CreateInQuota
<1>3. new.attempts = 0 /\ Agree(new.status, new.desired)
  BY DEF NewRow, Agree
<1> HIDE DEF new
<1>4. /\ row'[i] = new /\ auto'[i] = 0 /\ MaxRecoveryAttempts \in Nat
      /\ \A k \in Ids \ {i} : row'[k] = row[k] /\ auto'[k] = auto[k]
  BY <1>1, ParameterAssumption DEF Inductive, TypeOK
<1>5. pc'[w] = "mkdirs" /\ Bystanders(w)
  BY <1>1, <1>2 DEF Goto, Inductive, TypeOK, Bystanders
<1>6. ASSUME NEW k \in Ids PROVE RowInOrder(k)'
  <2>1. CASE k = i
    BY <1>3, <1>4, <2>1 DEF RowInOrder
  <2>2. CASE k # i
    BY <1>4, <2>2 DEF InOrder, RowInOrder, Exists
  <2>3. QED BY <2>1, <2>2
<1>7. ASSUME NEW v \in Threads PROVE Careful(v)'
  <2>1. CASE v = w
    BY <1>5, <2>1, Unminded DEF Minded, Judging, Verified, Retrying
  <2>2. CASE v # w /\ pc[v] \notin Minded
    BY <1>5, <2>2, Unminded DEF Bystanders
  <2>3. CASE v # w /\ pc[v] \in Minded
    <3>1. job[v].id \in Ids \ {i}
      BY <2>3, MindedSteps, InHand DEF HasInHand
    <3>2. QED BY <1>2, <1>4, <1>5, <2>3, <3>1
              DEF InOrder, Bystanders, Careful, JudgesByItsRow, HasVerified, HasCounted
  <2>4. QED BY <2>1, <2>2, <2>3
<1> QED BY <1>6, <1>7 DEF InOrder

-----------------------------------------------------------------------------
(* Steps with nothing to mind, of handlers and of the loop.                   *)

World == <<row, cont, madeBy, auto, deployment>>

LEMMA EndsInOrder ==
    ASSUME Inductive, InOrder, UNCHANGED World, NEW w \in Threads,
           Bystanders(w), pc'[w] \notin Minded
    PROVE  InOrder'
  BY StillInOrder DEF Bystanders, World

LEMMA HandlersInOrder ==
    ASSUME Inductive, InOrder, NEW w \in Threads,
           \/ Acquire(w) \/ Refuse(w) \/ CreateRejected(w) \/ SpawnTask(w)
           \/ EndUpload(w) \/ ListInstances(w) \/ NextInstance(w)
           \/ FinishUserDeletion(w) \/ GiveUp(w) \/ Cancelled(w) \/ Submission(w)
           \/ \E t \in tasks : RunTask(w, t)
    PROVE  InOrder'
<1> USE DEF account, docker, manager
<1>1. TypeOK /\ pc \in [Threads -> Steps]
  BY DEF Inductive, TypeOK
<1>2. {"idle", "nextInstance", "lock", "delMark"} \cap Minded = {}
  BY DEF Minded, Judging, Verified, Retrying
<1>3. CASE Acquire(w)
  <2>1. job[w].op \in EntrySteps
    BY <1>3 DEF Acquire, Inductive, ThreadInv, HoldsItsLock, Knows
  <2>2. UNCHANGED World /\ Bystanders(w) /\ pc'[w] = job[w].op
    BY <1>1, <1>3 DEF Acquire, Goto, World, Bystanders
  <2>3. QED BY <2>1, <2>2, MindedSteps, EndsInOrder
<1>4. CASE Refuse(w) \/ CreateRejected(w) \/ SpawnTask(w) \/ EndUpload(w) \/ Cancelled(w)
  <2>1. UNCHANGED World /\ (Release(w) \/ Return(w, FALSE))
    BY <1>4 DEF Refuse, CreateRejected, SpawnTask, EndUpload, Cancelled, World
  <2>2. Bystanders(w) /\ pc'[w] \in {"idle", "nextInstance"}
    BY <1>1, <2>1 DEF Release, Return, Goto, Bystanders, TypeOK
  <2>3. QED BY <1>2, <2>1, <2>2, EndsInOrder
<1>5. CASE ListInstances(w) \/ NextInstance(w) \/ FinishUserDeletion(w) \/ GiveUp(w)
  <2>1. UNCHANGED World
    BY <1>5 DEF ListInstances, NextInstance, FinishUserDeletion, GiveUp, World
  <2>2. Bystanders(w) /\ pc'[w] \in {"idle", "nextInstance", "delMark"}
    BY <1>1, <1>5 DEF ListInstances, NextInstance, FinishUserDeletion, GiveUp,
                      DeletionFailed, Release, Goto, Bystanders, TypeOK
  <2>3. QED BY <1>2, <2>1, <2>2, EndsInOrder
<1>6. CASE Submission(w)
  <2>1. PICK j : Submit(w, j)
    BY <1>6 DEF Submission, RequestCreate, RequestOnInstance, RequestDeleteUser, Request
  <2>2. UNCHANGED World /\ Bystanders(w) /\ pc'[w] = "lock"
    BY <1>1, <2>1 DEF Submit, Goto, World, Bystanders, TypeOK
  <2>3. QED BY <1>2, <2>2, EndsInOrder
<1>7. CASE \E t \in tasks : RunTask(w, t)
  <2>1. UNCHANGED World /\ Bystanders(w) /\ pc'[w] = "lock"
    BY <1>1, <1>7 DEF RunTask, Goto, World, Bystanders, TypeOK
  <2>2. QED BY <1>2, <2>1, EndsInOrder
<1> QED BY <1>3, <1>4, <1>5, <1>6, <1>7

LEMMA LoopInOrder == ASSUME Inductive, InOrder, SweepStep PROVE InOrder'
<1> USE DEF account, docker, manager
<1>1. TypeOK /\ Maint \in Threads /\ "lock" \notin Minded
  BY DEF Inductive, Threads, Minded, Judging, Verified, Retrying
<1>2. CASE UNCHANGED World /\ UNCHANGED thread
  BY <1>2, StillInOrder DEF World, thread
<1>3. CASE \E j : Submit(Maint, j)
  <2>1. UNCHANGED World /\ Bystanders(Maint) /\ pc'[Maint] = "lock"
    BY <1>1, <1>3 DEF Submit, Goto, World, Bystanders, TypeOK
  <2>2. QED BY <1>1, <2>1, EndsInOrder
<1>4. CASE SweepBegin \/ SweepList \/ SweepEnd
  BY <1>2, <1>4 DEF SweepBegin, SweepList, SweepEnd, World
<1>5. CASE \E u \in Users : SweepUser(u)
  BY <1>2, <1>3, <1>5 DEF SweepUser, World
<1>6. CASE \E i \in Ids : SweepInstance(i)
  BY <1>2, <1>3, <1>6 DEF SweepInstance, World
<1> QED BY <1>4, <1>5, <1>6 DEF SweepStep

LEMMA DirectoriesInOrder ==
    ASSUME Inductive, InOrder, NEW w \in Threads, MakeDirectories(w)
    PROVE  InOrder'
<1> USE DEF account, docker, manager
<1>1. pc[w] \in RowSteps /\ UNCHANGED <<cont, madeBy, auto, deployment>>
  BY DEF MakeDirectories, RowSteps
<1>2. CASE Fail(w, "error")
  BY <1>1, <1>2, FailsInOrder
<1>3. CASE Goto(w, "spawn") /\ UNCHANGED <<row, job, sess>>
  BY <1>1, <1>3, GoesOn DEF Judging, Verified, Retrying
<1> QED BY <1>2, <1>3 DEF MakeDirectories

-----------------------------------------------------------------------------
(* Docker, the disk, the clock, administrators and the process.               *)

LEMMA WorldInOrder == ASSUME Inductive, InOrder, Environment PROVE InOrder'
<1> USE DEF account, docker, manager
<1>1. /\ TypeOK /\ row \in [Ids -> Row \cup {None}] /\ cont \in [Ids -> Containers]
      /\ "none" \notin Running
  BY DEF Inductive, TypeOK, Running
<1>2. CASE \/ \E u \in Users, s \in Accounts : SetUserStatus(u, s)
           \/ \E u \in Users, q \in Quotas : UpdateUserQuota(u, q)
           \/ \E i \in Ids : DataLost(i)
           \/ Shutdown
  <2>1. UNCHANGED World /\ UNCHANGED thread
    BY <1>2 DEF SetUserStatus, UpdateUserQuota, DataLost, Shutdown, World
  <2>2. QED BY <2>1, StillInOrder DEF World, thread
<1>3. CASE \/ \E i \in Ids, h \in Running : HealthChanges(i, h)
           \/ \E i \in Ids, c \in Containers : ContainerDies(i, c)
  <2>1. UNCHANGED <<row, madeBy, auto, deployment>> /\ UNCHANGED thread
    BY <1>3 DEF HealthChanges, ContainerDies
  <2>2. \A i \in Ids : cont'[i] # "none" => cont[i] # "none"
    BY <1>1, <1>3 DEF HealthChanges, ContainerDies
  <2>3. \A i \in Ids : RowInOrder(i)'
    BY <2>1 DEF InOrder, RowInOrder, Exists
  <2>4. ASSUME NEW v \in Threads PROVE Careful(v)'
    <3>1. CASE pc[v] \in Minded
      <4>1. job[v].id \in Ids
        BY <3>1, MindedSteps, InHand
      <4>2. QED BY <2>1, <2>2, <4>1
                DEF InOrder, Careful, JudgesByItsRow, HasVerified, HasCounted, thread
    <3>2. CASE pc[v] \notin Minded
      BY <2>1, <3>2, Unminded DEF thread
    <3>3. QED BY <3>1, <3>2
  <2>5. QED BY <2>3, <2>4 DEF InOrder
<1>4. CASE \E i \in Ids : BackoffElapses(i)
  <2>1. PICK i \in Ids : BackoffElapses(i)
    BY <1>4
  <2> DEFINE new == [row[i] EXCEPT !.wait = FALSE]
  <2>2. /\ row' = [row EXCEPT ![i] = new] /\ UNCHANGED <<cont, madeBy, auto, deployment>>
        /\ UNCHANGED thread /\ row[i] \in Row /\ Exists(i)
    BY <1>1, <2>1 DEF BackoffElapses, Exists
  <2>3. /\ new.status = row[i].status /\ new.desired = row[i].desired
        /\ new.attempts = row[i].attempts
    BY <2>2 DEF Row
  <2> HIDE DEF new
  <2>4. row'[i] = new /\ \A k \in Ids \ {i} : row'[k] = row[k]
    BY <1>1, <2>2
  <2>5. ASSUME NEW k \in Ids PROVE RowInOrder(k)'
    <3>1. RowInOrder(k)
      BY DEF InOrder
    <3>2. CASE k = i
      BY <2>2, <2>3, <2>4, <3>1, <3>2 DEF RowInOrder
    <3>3. CASE k # i
      BY <2>2, <2>4, <3>1, <3>3 DEF RowInOrder, Exists
    <3>4. QED BY <3>2, <3>3
  <2>6. \A k \in Ids : row'[k].attempts = row[k].attempts
    BY <2>3, <2>4
  <2>7. ASSUME NEW v \in Threads PROVE Careful(v)'
    <3>1. CASE pc[v] \in Minded
      <4>1. job[v].id \in Ids
        BY <3>1, MindedSteps, InHand
      <4>2. row'[job[v].id].attempts = row[job[v].id].attempts
        BY <2>6, <4>1
      <4>3. QED BY <2>2, <4>2
                DEF InOrder, Careful, JudgesByItsRow, HasVerified, HasCounted, thread
    <3>2. CASE pc[v] \notin Minded
      BY <2>2, <3>2, Unminded DEF thread
    <3>3. QED BY <3>1, <3>2
  <2>8. QED BY <2>5, <2>7 DEF InOrder
<1>5. CASE \E d \in Deployments : Restart(d)
  <2>1. /\ UNCHANGED <<row, auto>> /\ \A v \in Threads : pc'[v] = "idle"
    BY <1>5 DEF Restart
  <2>2. \A i \in Ids : RowInOrder(i)'
    BY <2>1 DEF InOrder, RowInOrder, Exists
  <2>3. \A v \in Threads : Careful(v)'
    BY <2>1, MindedSteps, Unminded
  <2>4. QED BY <2>2, <2>3 DEF InOrder
<1> QED BY <1>2, <1>3, <1>4, <1>5 DEF Environment

-----------------------------------------------------------------------------
(* Together.                                                                  *)

LEMMA StartsOutInOrder == Init => InOrder
<1> SUFFICES ASSUME Init PROVE InOrder
  OBVIOUS
<1>1. MaxRecoveryAttempts \in Nat
  BY ParameterAssumption
<1>2. ASSUME NEW i \in Ids PROVE RowInOrder(i)
  <2>1. SUFFICES ASSUME row[i] # None PROVE RowInOrder(i)
    BY DEF RowInOrder, Exists
  <2>2. PICK u \in Users : row[i] \in LegacyRow(u)
    BY <2>1 DEF Init
  <2>3. Agree(row[i].status, row[i].desired) /\ row[i].attempts = 0
    BY <2>2 DEF LegacyRow, Agree
  <2>4. QED BY <1>1, <2>3 DEF RowInOrder, Init
<1>3. ASSUME NEW v \in Threads PROVE Careful(v)
  <2>1. pc[v] = "idle"
    BY DEF Init
  <2>2. QED BY <2>1 DEF Careful, JudgesByItsRow, HasVerified, HasCounted, Judging, Verified,
                        Retrying
<1> QED BY <1>2, <1>3 DEF InOrder

LEMMA StaysInOrder == Inductive /\ InOrder /\ [Next]_vars => InOrder'
<1> SUFFICES ASSUME Inductive, InOrder, [Next]_vars PROVE InOrder'
  OBVIOUS
<1>1. ASSUME NEW w \in Threads, HandlerStep(w) PROVE InOrder'
  <2>1. CASE StartStep(w)
    BY <2>1, StartsInOrder, ChoosesInOrder DEF StartStep
  <2>2. CASE StopStep(w)
    BY <2>2, StoppingInOrder, ChoosesInOrder DEF StopStep
  <2>3. CASE DeleteStep(w)
    BY <2>3, DeletingInOrder, ChoosesInOrder, HandlersInOrder DEF DeleteStep
  <2>4. CASE RepairStep(w)
    BY <2>4, RepairsInOrder, ChoosesInOrder DEF RepairStep
  <2>5. QED BY <1>1, <2>1, <2>2, <2>3, <2>4, HandlersInOrder, CreatesInOrder,
               DirectoriesInOrder, ChoosesInOrder DEF HandlerStep
<1>2. CASE UNCHANGED vars
  BY <1>2, StillInOrder DEF vars
<1> QED BY <1>1, <1>2, HandlersInOrder, LoopInOrder, WorldInOrder DEF Next

\* Rows stay in order and handlers careful, for every number of users,
\* instances, goroutines, failures and restarts.
THEOREM OrderIsKept == Spec => []InOrder
  BY StartsOutInOrder, StaysInOrder, Invariance, PTL DEF Spec

\* recordFailure and every completion write a status that agrees with the
\* desired state beside it: no owner sees a deleted or stopped instance running.
THEOREM StatusesAgree == Spec => []StatusAgreesWithIntent
<1>1. Inductive /\ InOrder => StatusAgreesWithIntent
  BY DEF InOrder, RowInOrder, Exists, Agree, StatusAgreesWithIntent
<1> QED BY <1>1, OrderIsKept, Invariance, PTL

\* UpdateSessionRecovery comes before the attempt it counts, so that automatic
\* starts keep to maxRecoveryAttempts wherever the manager crashes.
THEOREM RecoveryIsBounded == Spec => []BoundedRecovery
<1>1. InOrder => BoundedRecovery
  BY DEF InOrder, RowInOrder, Exists, BoundedRecovery
<1> QED BY <1>1, OrderIsKept, PTL

\* verifyContainer comes before every call that starts, stops or removes a
\* container, and what it found still holds at that call.
THEOREM OthersAreSpared == Spec => []TouchesOnlyItsOwn
<1>1. InOrder => TouchesOnlyItsOwn
  BY DEF InOrder, Careful, HasVerified, Verified, TouchesOnlyItsOwn
<1> QED BY <1>1, OrderIsKept, PTL

-----------------------------------------------------------------------------
(* Tidiness.                                                                  *)

Sure == {"network", "build", "uploading", "stopDone", "stopIsolate", "delDirs", "delRow"}
          \cup (StartSteps \ {"mark"})

LEMMA SureSteps ==
    /\ Sure \subseteq RowSteps
    /\ Sure \cap {"idle", "nextInstance", "lock", "delMark", "mkdirs", "spawn"} = {}
    /\ Sure \cap EntrySteps = {}
    /\ "none" \notin Running /\ "exited" \notin Running
  BY DEF Sure, RowSteps, StartSteps, StopSteps, DeleteSteps, RepairSteps, EntrySteps, Running

LEMMA Unsure ==
    ASSUME NEW w \in Threads, pc'[w] \notin Sure
    PROVE  HasMadeSure(w)'
  BY DEF HasMadeSure, Sure, StartSteps

-----------------------------------------------------------------------------
(* What a step of w must not do to others.                                    *)

Apart(w) ==
    /\ deployment' = deployment
    /\ \A i \in Ids \ {job[w].id} : /\ row'[i] = row[i] /\ cont'[i] = cont[i]
                                    /\ dirs'[i] = dirs[i] /\ net'[i] = net[i]

Beside(w) ==
    \A v \in Threads \ {w} : pc'[v] = pc[v] /\ job'[v] = job[v] /\ seen'[v] = seen[v]

LEMMA OthersSure ==
    ASSUME Inductive, Tidy, NEW w \in Threads, HasInHand(w), Apart(w), Beside(w),
           NEW k \in Ids, k = job[w].id, HasItsThings(k)', HasMadeSure(w)'
    PROVE  Tidy'
<1>1. ASSUME NEW i \in Ids PROVE HasItsThings(i)'
  <2>1. HasItsThings(i)
    BY DEF Tidy
  <2>2. CASE i # k
    BY <2>1, <2>2 DEF Apart, HasItsThings, Exists
  <2>3. QED BY <2>2
<1>2. ASSUME NEW v \in Threads \ {w} PROVE HasMadeSure(v)'
  <2>1. CASE pc[v] \in Sure
    <3>1. job[v].id \in Ids \ {job[w].id}
      BY <2>1, SureSteps, DistinctInstances
    <3>2. HasMadeSure(v)
      BY DEF Tidy
    <3>3. QED BY <3>1, <3>2 DEF Apart, Beside, HasMadeSure
  <2>2. CASE pc[v] \notin Sure
    BY <2>2, Unsure DEF Beside
  <2>3. QED BY <2>1, <2>2
<1> QED BY <1>1, <1>2 DEF Tidy

\* A step that touches nothing of any instance, after which whoever went on has
\* nothing to make sure of.
LEMMA StillTidy ==
    ASSUME Tidy, UNCHANGED <<row, cont, dirs, net, deployment>>,
           \A v \in Threads : \/ pc'[v] \notin Sure
                              \/ pc'[v] = pc[v] /\ job'[v] = job[v] /\ seen'[v] = seen[v]
    PROVE  Tidy'
<1>1. \A i \in Ids : HasItsThings(i)'
  BY DEF Tidy, HasItsThings, Exists
<1>2. ASSUME NEW v \in Threads PROVE HasMadeSure(v)'
  <2>1. CASE pc'[v] \notin Sure
    BY <2>1, Unsure
  <2>2. CASE pc'[v] = pc[v] /\ job'[v] = job[v] /\ seen'[v] = seen[v]
    BY <2>2 DEF Tidy, HasMadeSure
  <2>3. QED BY <2>1, <2>2
<1> QED BY <1>1, <1>2 DEF Tidy

-----------------------------------------------------------------------------
(* The ways a handler goes on.                                                *)

LEMMA ReturnsTidy ==
    ASSUME Inductive, Tidy, NEW w \in Threads, HasInHand(w), Apart(w),
           Release(w) \/ Return(w, TRUE) \/ Return(w, FALSE),
           NEW k \in Ids, k = job[w].id, HasItsThings(k)'
    PROVE  Tidy'
<1>1. pc'[w] \in {"idle", "nextInstance"} /\ Beside(w)
  BY DEF Release, Return, Goto, Inductive, TypeOK, Beside
<1> QED BY <1>1, SureSteps, Unsure, OthersSure

\* It returns, or goes on to a step that takes nothing for granted, having
\* written a status that tells the truth about the container.
LEMMA WritesTidy ==
    ASSUME Inductive, Tidy, NEW w \in Threads, HasInHand(w), NEW k \in Ids, k = job[w].id,
           NEW s \in Statuses, NEW d \in Intents, NEW e \in BOOLEAN, Write(w, s, d, e),
           s = "stopped" => cont[k] \notin Running,
           UNCHANGED <<cont, dirs, net, deployment>>,
           \/ Release(w) \/ Return(w, TRUE) \/ Return(w, FALSE)
           \/ /\ UNCHANGED <<job, seen>>
              /\ \E next : /\ Goto(w, next)
                           /\ next \notin Sure \/ (next = "inspect" /\ s = "starting")
    PROVE  Tidy'
<1> DEFINE new == [row[k] EXCEPT !.status = s, !.desired = d, !.err = e]
<1>1. row \in [Ids -> Row \cup {None}] /\ row[k] \in Row
  BY DEF Inductive, TypeOK, HasInHand
<1>2. new.status = s /\ new \in Row
  BY <1>1 DEF Row
<1>3. row' = [row EXCEPT ![k] = new]
  BY DEF Write
<1> HIDE DEF new
<1>4. row'[k] = new /\ Exists(k)' /\ \A i \in Ids \ {k} : row'[i] = row[i]
  BY <1>1, <1>2, <1>3, IdentityAssumption DEF Exists
<1>5. HasItsThings(k)'
  BY <1>2, <1>4 DEF Tidy, HasItsThings
<1>6. Apart(w)
  BY <1>4 DEF Apart
<1>7. CASE Release(w) \/ Return(w, TRUE) \/ Return(w, FALSE)
  BY <1>5, <1>6, <1>7, ReturnsTidy
<1>8. ASSUME NEW next, Goto(w, next), UNCHANGED <<job, seen>>,
             next \notin Sure \/ (next = "inspect" /\ s = "starting")
      PROVE  Tidy'
  <2>1. pc'[w] = next /\ Beside(w)
    BY <1>8 DEF Goto, Inductive, TypeOK, Beside
  <2>2. CASE next \notin Sure
    BY <1>5, <1>6, <2>1, <2>2, Unsure, OthersSure
  <2>3. CASE next = "inspect" /\ s = "starting"
    <3>1. HasMadeSure(w)'
      BY <1>2, <1>4, <1>8, <2>1, <2>3 DEF HasMadeSure
    <3>2. QED BY <1>5, <1>6, <2>1, <3>1, OthersSure
  <2>4. QED BY <1>8, <2>2, <2>3
<1> QED BY <1>7, <1>8

\* It records a failure.
LEMMA FailsTidy ==
    ASSUME Inductive, Tidy, NEW w \in Threads, pc[w] \in RowSteps,
           NEW s \in {"error", "unknown"}, Fail(w, s), deployment' = deployment,
           \A i \in Ids \ {job[w].id} : /\ cont'[i] = cont[i] /\ dirs'[i] = dirs[i]
                                         /\ net'[i] = net[i],
           cont'[job[w].id] # "none" => dirs'[job[w].id] \in Whole
    PROVE  Tidy'
<1>1. /\ HasInHand(w) /\ job[w].id \in Ids /\ row[job[w].id] \in Row
      /\ sess[w].desired \in Intents /\ s \in Statuses
  BY InHand DEF Row, Statuses
<1>2. Write(w, s, sess[w].desired, TRUE) /\ Return(w, FALSE)
  BY DEF Fail
<1>3. PICK k \in Ids : k = job[w].id
  BY <1>1
<1> DEFINE new == [row[k] EXCEPT !.status = s, !.desired = sess[w].desired, !.err = TRUE]
<1>4. new.status = s /\ new \in Row /\ row' = [row EXCEPT ![k] = new]
  BY <1>1, <1>2, <1>3 DEF Row, Write
<1> HIDE DEF new
<1>5. row'[k] = new /\ Exists(k)' /\ \A i \in Ids \ {k} : row'[i] = row[i]
  BY <1>4, IdentityAssumption DEF Exists, Inductive, TypeOK
<1>6. HasItsThings(k)'
  BY <1>3, <1>4, <1>5 DEF HasItsThings
<1>7. Apart(w)
  BY <1>3, <1>5 DEF Apart
<1> QED BY <1>1, <1>2, <1>3, <1>6, <1>7, ReturnsTidy

\* It goes on without touching its row.
LEMMA GoesOnTidy ==
    ASSUME Inductive, Tidy, NEW w \in Threads, pc[w] \in RowSteps, NEW next,
           Goto(w, next), UNCHANGED <<row, job, deployment>>,
           \A v \in Threads \ {w} : seen'[v] = seen[v],
           \A i \in Ids \ {job[w].id} : /\ cont'[i] = cont[i] /\ dirs'[i] = dirs[i]
                                         /\ net'[i] = net[i],
           NEW k \in Ids, k = job[w].id,
           cont'[k] # "none" => dirs'[k] \in Whole,
           cont'[k] \in Running => cont[k] \in Running \/ row[k].status = "starting",
           HasMadeSure(w)'
    PROVE  Tidy'
<1>1. HasInHand(w) /\ row[k] # None
  BY InHand, IdentityAssumption
<1>2. Apart(w)
  BY DEF Apart
<1>3. Beside(w)
  BY DEF Goto, Inductive, TypeOK, Beside
<1>4. HasItsThings(k)'
  BY <1>1 DEF Tidy, HasItsThings, Exists
<1> QED BY <1>1, <1>2, <1>3, <1>4, OthersSure

-----------------------------------------------------------------------------
(* The calls on a container.                                                  *)

LEMMA InspectsTidy ==
    ASSUME Inductive, Tidy, NEW w \in Threads,
           StartInspect(w) \/ StopInspect(w) \/ DeleteInspect(w)
    PROVE  Tidy'
<1> USE DEF account, docker, manager
<1>1. /\ pc[w] \in {"inspect", "stopInspect", "delInspect"} /\ pc[w] \in RowSteps
      /\ UNCHANGED <<cont, dirs, net, deployment>>
  BY DEF StartInspect, StopInspect, DeleteInspect, Inspect, RowSteps, StartSteps, StopSteps,
         DeleteSteps
<1>2. PICK k \in Ids : k = job[w].id /\ HasItsThings(k) /\ HasMadeSure(w)
  BY <1>1, InHand DEF Tidy
<1>3. CASE Fail(w, "unknown") \/ Fail(w, "error")
  BY <1>1, <1>2, <1>3, FailsTidy DEF HasItsThings
<1>4. CASE ~Fail(w, "unknown") /\ ~Fail(w, "error")
  <2>1. /\ UNCHANGED <<row, job>> /\ seen' = [seen EXCEPT ![w] = cont[k]]
        /\ \E next \in Steps :
             /\ Goto(w, next)
             /\ next \in {"checkDirs", "isolate"} => pc[w] = "inspect"
             /\ next = "stopDone" => cont[k] = "none"
             /\ next \in {"checkDirs", "isolate", "stopDone", "stopIsolate", "delNetwork",
                          "delStop", "delRemove"}
    BY <1>2, <1>4 DEF StartInspect, StopInspect, DeleteInspect, Inspect, Steps, LockedSteps,
                      RowSteps, StartSteps, StopSteps, DeleteSteps
  <2>2. PICK next \in Steps :
             /\ Goto(w, next)
             /\ next \in {"checkDirs", "isolate"} => pc[w] = "inspect"
             /\ next = "stopDone" => cont[k] = "none"
             /\ next \in {"checkDirs", "isolate", "stopDone", "stopIsolate", "delNetwork",
                          "delStop", "delRemove"}
    BY <2>1
  <2>3. /\ pc'[w] = next /\ seen'[w] = cont[k]
        /\ \A v \in Threads \ {w} : seen'[v] = seen[v]
    BY <2>1, <2>2 DEF Goto, Inductive, TypeOK
  <2>4. HasMadeSure(w)'
    BY <1>1, <1>2, <2>1, <2>2, <2>3, SureSteps DEF HasMadeSure, StartSteps
  <2>5. QED BY <1>1, <1>2, <2>1, <2>2, <2>3, <2>4, GoesOnTidy DEF HasItsThings
<1> QED BY <1>3, <1>4

LEMMA IsolatesTidy ==
    ASSUME Inductive, Tidy, NEW w \in Threads,
           StartIsolate(w) \/ StopIsolate(w) \/ ReconcileIsolate(w)
    PROVE  Tidy'
<1> USE DEF account, manager
<1>1. /\ pc[w] \in {"isolate", "stopIsolate", "recIsolate"} /\ pc[w] \in RowSteps
      /\ UNCHANGED <<cont, dirs, deployment>>
  BY DEF StartIsolate, StopIsolate, ReconcileIsolate, Isolate, RowSteps, StartSteps,
         StopSteps, RepairSteps
<1>2. PICK k \in Ids : k = job[w].id /\ HasItsThings(k) /\ HasMadeSure(w)
  BY <1>1, InHand DEF Tidy
<1>3. \A i \in Ids \ {k} : net'[i] = net[i]
  BY <1>2 DEF StartIsolate, StopIsolate, ReconcileIsolate, Isolate, Inductive, TypeOK
<1>4. CASE Fail(w, "error")
  BY <1>1, <1>2, <1>3, <1>4, FailsTidy DEF HasItsThings
<1>5. CASE ~Fail(w, "error")
  <2>1. UNCHANGED <<row, job, seen>>
    BY <1>5 DEF StartIsolate, StopIsolate, ReconcileIsolate, Isolate
  <2>2. PICK next \in {"restop", "boot", "await", "stopStop", "stopDone", "recDirs"} :
          /\ Goto(w, next)
          /\ next \in {"restop", "boot", "await"} => pc[w] = "isolate"
          /\ next = "stopDone" => pc[w] = "stopIsolate" /\ seen[w] \notin Running
    BY <1>5 DEF StartIsolate, StopIsolate, ReconcileIsolate, Isolate
  <2>3. pc'[w] = next
    BY <2>2 DEF Goto, Inductive, TypeOK
  <2>4. HasMadeSure(w)'
    BY <1>1, <1>2, <2>1, <2>2, <2>3 DEF HasMadeSure, StartSteps
  <2>5. QED BY <1>1, <1>2, <1>3, <2>1, <2>2, <2>4, GoesOnTidy DEF HasItsThings
<1> QED BY <1>4, <1>5

LEMMA StopsTidy ==
    ASSUME Inductive, Tidy, NEW w \in Threads,
           StartRestop(w) \/ StopStop(w) \/ DeleteStop(w) \/ ReconcileStop(w)
    PROVE  Tidy'
<1> USE DEF account, manager
<1>1. /\ pc[w] \in {"restop", "stopStop", "delStop", "recStop"} /\ pc[w] \in RowSteps
      /\ UNCHANGED <<dirs, net, deployment>>
  BY DEF StartRestop, StopStop, DeleteStop, ReconcileStop, StopContainer, RowSteps,
         StartSteps, StopSteps, DeleteSteps, RepairSteps
<1>2. PICK k \in Ids : k = job[w].id /\ HasItsThings(k) /\ HasMadeSure(w)
  BY <1>1, InHand DEF Tidy
<1>3. /\ \A i \in Ids \ {k} : cont'[i] = cont[i]
      /\ cont'[k] \in {cont[k], "exited"} /\ (cont'[k] # cont[k] => cont[k] \in Running)
  BY <1>2 DEF StartRestop, StopStop, DeleteStop, ReconcileStop, StopContainer, Inductive,
              TypeOK
<1>4. cont'[k] # "none" => dirs'[k] \in Whole
  BY <1>1, <1>2, <1>3, SureSteps DEF HasItsThings
<1>5. CASE Fail(w, "error")
  BY <1>1, <1>2, <1>3, <1>4, <1>5, FailsTidy
<1>6. CASE ~Fail(w, "error")
  <2>1. UNCHANGED <<row, job, seen>>
    BY <1>6 DEF StartRestop, StopStop, DeleteStop, ReconcileStop, StopContainer
  <2>2. PICK next \in {"boot", "stopCheck", "delRemove", "mark"} :
          Goto(w, next) /\ (next = "boot" => pc[w] = "restop")
    BY <1>6 DEF StartRestop, StopStop, DeleteStop, ReconcileStop, StopContainer
  <2>3. pc'[w] = next
    BY <2>2 DEF Goto, Inductive, TypeOK
  <2>4. HasMadeSure(w)'
    BY <1>1, <1>2, <2>1, <2>2, <2>3 DEF HasMadeSure, StartSteps
  <2>5. QED BY <1>1, <1>2, <1>3, <1>4, <2>1, <2>2, <2>4, SureSteps, GoesOnTidy
<1> QED BY <1>5, <1>6

-----------------------------------------------------------------------------
(* startLocked.                                                               *)

LEMMA StartsTidy ==
    ASSUME Inductive, Tidy, NEW w \in Threads,
           \/ MarkStarting(w) \/ CheckDirectories(w) \/ EnsureNetwork(w)
           \/ BuildContainer(w) \/ BootContainer(w) \/ AwaitHealthy(w) \/ MarkRunning(w)
    PROVE  Tidy'
<1> USE DEF account, docker, manager
<1>1. pc[w] \in StartSteps /\ pc[w] \in RowSteps /\ UNCHANGED deployment
  BY DEF MarkStarting, CheckDirectories, EnsureNetwork, BuildContainer, BootContainer,
         AwaitHealthy, MarkRunning, RowSteps, StartSteps
<1>2. PICK k \in Ids : k = job[w].id /\ HasItsThings(k) /\ HasMadeSure(w) /\ HasInHand(w)
  BY <1>1, InHand DEF Tidy
<1>3. TypeOK
  BY DEF Inductive
<1>4. CASE MarkStarting(w) \/ MarkRunning(w)
  <2>1. /\ "starting" \in Statuses /\ "running" \in Statuses /\ "running" \in Intents
        /\ \/ Write(w, "starting", "running", FALSE) /\ Goto(w, "inspect")
                /\ UNCHANGED <<job, seen>>
           \/ Write(w, "running", "running", FALSE) /\ Return(w, TRUE)
        /\ UNCHANGED <<cont, dirs, net>>
    BY <1>4 DEF MarkStarting, Commit, MarkRunning, Statuses, Intents
  <2>2. QED BY <1>1, <1>2, <2>1, WritesTidy
<1>5. CASE CheckDirectories(w) \/ EnsureNetwork(w) \/ AwaitHealthy(w)
  <2>1. /\ UNCHANGED <<cont, dirs>> /\ \A i \in Ids \ {k} : net'[i] = net[i]
    BY <1>2, <1>3, <1>5 DEF CheckDirectories, EnsureNetwork, AwaitHealthy, TypeOK
  <2>2. CASE Fail(w, "error")
    BY <1>1, <1>2, <2>1, <2>2, FailsTidy DEF HasItsThings
  <2>3. CASE ~Fail(w, "error")
    <3>1. UNCHANGED <<row, job, seen>>
      BY <1>5, <2>3 DEF CheckDirectories, EnsureNetwork, AwaitHealthy
    <3>2. PICK next \in {"network", "build", "ready"} :
            /\ Goto(w, next)
            /\ next = "network" => dirs[k] \in Present
            /\ next = "build" => pc[w] = "network"
            /\ pc[w] \in StartSteps \ {"mark"}
      BY <1>2, <1>5, <2>3 DEF CheckDirectories, EnsureNetwork, AwaitHealthy, StartSteps
    <3>3. pc'[w] = next
      BY <1>3, <3>2 DEF Goto, TypeOK
    <3>4. HasMadeSure(w)'
      BY <1>2, <2>1, <3>1, <3>2, <3>3 DEF HasMadeSure, Whole
    <3>5. QED BY <1>1, <1>2, <2>1, <3>1, <3>2, <3>4, GoesOnTidy DEF HasItsThings
  <2>4. QED BY <2>2, <2>3
<1>6. CASE BuildContainer(w)
  <2>1. /\ UNCHANGED <<dirs, net>> /\ pc[w] = "build" /\ dirs[k] \in Whole
        /\ \A i \in Ids \ {k} : cont'[i] = cont[i]
        /\ cont'[k] \in {cont[k], "exited"}
    BY <1>2, <1>3, <1>6 DEF BuildContainer, TypeOK, HasMadeSure
  <2>2. CASE Fail(w, "error")
    BY <1>1, <1>2, <2>1, <2>2, FailsTidy
  <2>3. CASE ~Fail(w, "error")
    <3>1. Goto(w, "boot") /\ UNCHANGED <<row, job, seen>>
      BY <1>6, <2>3 DEF BuildContainer
    <3>2. pc'[w] = "boot"
      BY <1>3, <3>1 DEF Goto, TypeOK
    <3>3. HasMadeSure(w)'
      BY <1>2, <2>1, <3>1, <3>2 DEF HasMadeSure, StartSteps
    <3>4. QED BY <1>1, <1>2, <2>1, <3>1, <3>3, SureSteps, GoesOnTidy
  <2>4. QED BY <2>2, <2>3
<1>7. CASE BootContainer(w)
  <2>1. /\ UNCHANGED net /\ pc[w] = "boot" /\ row[k].status = "starting"
        /\ \A i \in Ids \ {k} : cont'[i] = cont[i] /\ dirs'[i] = dirs[i]
        /\ cont[k] = "none" => cont'[k] = "none"
        /\ dirs'[k] \in {dirs[k], "blank"}
    BY <1>2, <1>3, <1>7 DEF BootContainer, TypeOK, HasMadeSure, StartSteps
  <2>2. cont'[k] # "none" => dirs'[k] \in Whole
    BY <1>2, <2>1 DEF HasItsThings, Whole, Present
  <2>3. CASE Fail(w, "error")
    BY <1>1, <1>2, <2>1, <2>2, <2>3, FailsTidy
  <2>4. CASE ~Fail(w, "error")
    <3>1. Goto(w, "await") /\ UNCHANGED <<row, job, seen>>
      BY <1>7, <2>4 DEF BootContainer
    <3>2. pc'[w] = "await"
      BY <1>3, <3>1 DEF Goto, TypeOK
    <3>3. HasMadeSure(w)'
      BY <1>2, <2>1, <3>1, <3>2 DEF HasMadeSure, StartSteps
    <3>4. QED BY <1>1, <1>2, <2>1, <2>2, <3>1, <3>3, GoesOnTidy
  <2>5. QED BY <2>3, <2>4
<1> QED BY <1>4, <1>5, <1>6, <1>7

-----------------------------------------------------------------------------
(* stopLocked and deleteLocked.                                               *)

LEMMA StoppingTidy ==
    ASSUME Inductive, Tidy, NEW w \in Threads, StopCheck(w) \/ MarkStopped(w)
    PROVE  Tidy'
<1> USE DEF account, docker, manager
<1>1. /\ pc[w] \in {"stopCheck", "stopDone"} /\ pc[w] \in RowSteps
      /\ UNCHANGED <<cont, dirs, net, deployment>>
  BY DEF StopCheck, MarkStopped, RowSteps, StopSteps
<1>2. PICK k \in Ids : k = job[w].id /\ HasItsThings(k) /\ HasMadeSure(w) /\ HasInHand(w)
  BY <1>1, InHand DEF Tidy
<1>3. CASE MarkStopped(w)
  <2>1. /\ "stopped" \in Statuses /\ "stopped" \in Intents /\ cont[k] \notin Running
        /\ Write(w, "stopped", "stopped", FALSE) /\ Return(w, TRUE)
    BY <1>2, <1>3 DEF MarkStopped, Statuses, Intents, HasMadeSure
  <2>2. QED BY <1>1, <1>2, <2>1, WritesTidy
<1>4. CASE Fail(w, "error") \/ Fail(w, "unknown")
  BY <1>1, <1>2, <1>4, FailsTidy DEF HasItsThings
<1>5. CASE StopCheck(w) /\ ~Fail(w, "error") /\ ~Fail(w, "unknown")
  <2>1. Goto(w, "stopDone") /\ UNCHANGED <<row, job, seen>> /\ cont[k] \notin Running
    BY <1>2, <1>5 DEF StopCheck
  <2>2. pc'[w] = "stopDone"
    BY <2>1 DEF Goto, Inductive, TypeOK
  <2>3. HasMadeSure(w)'
    BY <1>1, <1>2, <2>1, <2>2 DEF HasMadeSure, StartSteps
  <2>4. QED BY <1>1, <1>2, <2>1, <2>3, GoesOnTidy DEF HasItsThings
<1> QED BY <1>3, <1>4, <1>5

LEMMA DeletingTidy ==
    ASSUME Inductive, Tidy, NEW w \in Threads,
           \/ MarkDeleting(w) \/ RemoveContainer(w) \/ DeleteCheck(w) \/ RemoveNetwork(w)
           \/ RemoveDirectories(w) \/ DeleteRow(w)
    PROVE  Tidy'
<1> USE DEF account, docker, manager
<1>1. pc[w] \in DeleteSteps /\ pc[w] \in RowSteps /\ UNCHANGED deployment
  BY DEF MarkDeleting, RemoveContainer, DeleteCheck, RemoveNetwork, RemoveDirectories,
         DeleteRow, RowSteps, DeleteSteps
<1>2. PICK k \in Ids : k = job[w].id /\ HasItsThings(k) /\ HasMadeSure(w) /\ HasInHand(w)
  BY <1>1, InHand DEF Tidy
<1>3. TypeOK /\ HasCome(w)
  BY DEF Inductive, ThreadInv
<1>4. CASE MarkDeleting(w)
  <2>1. /\ "deleting" \in Statuses /\ "deleted" \in Intents
        /\ Write(w, "deleting", "deleted", FALSE) /\ Goto(w, "delInspect")
        /\ UNCHANGED <<job, seen, cont, dirs, net>> /\ "delInspect" \notin Sure
    BY <1>4 DEF MarkDeleting, Commit, Statuses, Intents, Sure, StartSteps
  <2>2. QED BY <1>1, <1>2, <2>1, WritesTidy
<1>5. CASE RemoveContainer(w) \/ DeleteCheck(w) \/ RemoveNetwork(w) \/ RemoveDirectories(w)
  <2>1. /\ \A i \in Ids \ {k} : /\ cont'[i] = cont[i] /\ dirs'[i] = dirs[i]
                                 /\ net'[i] = net[i]
        /\ cont'[k] \in {cont[k], "none"}
        /\ dirs' = dirs \/ pc[w] = "delDirs"
    BY <1>2, <1>3, <1>5 DEF RemoveContainer, DeleteCheck, RemoveNetwork, RemoveDirectories,
                            TypeOK
  <2>2. cont'[k] # "none" => dirs'[k] \in Whole
    BY <1>2, <1>3, <2>1 DEF HasItsThings, HasCome, Reached
  <2>3. CASE Fail(w, "error") \/ Fail(w, "unknown")
    BY <1>1, <1>2, <2>1, <2>2, <2>3, FailsTidy
  <2>4. CASE ~Fail(w, "error") /\ ~Fail(w, "unknown")
    <3>1. UNCHANGED <<row, job, seen>>
      BY <1>5, <2>4 DEF RemoveContainer, DeleteCheck, RemoveNetwork, RemoveDirectories
    <3>2. PICK next \in {"delCheck", "delNetwork", "delDirs", "delRow"} :
            /\ Goto(w, next)
            /\ next = "delDirs" => deployment \notin net'[k]
            /\ next = "delRow" => pc[w] = "delDirs" /\ net' = net
      BY <1>2, <1>3, <1>5, <2>4
         DEF RemoveContainer, DeleteCheck, RemoveNetwork, RemoveDirectories, TypeOK
    <3>3. pc'[w] = next
      BY <1>3, <3>2 DEF Goto, TypeOK
    <3>4. HasMadeSure(w)'
      BY <1>1, <1>2, <3>1, <3>2, <3>3 DEF HasMadeSure, StartSteps
    <3>5. QED BY <1>1, <1>2, <2>1, <2>2, <3>1, <3>2, <3>4, SureSteps, GoesOnTidy
  <2>5. QED BY <2>3, <2>4
<1>6. CASE DeleteRow(w)
  <2>1. /\ pc[w] = "delRow" /\ row' = [row EXCEPT ![k] = None] /\ Return(w, TRUE)
        /\ UNCHANGED <<cont, dirs, net>>
    BY <1>2, <1>6 DEF DeleteRow
  <2>2. Apart(w) /\ ~Exists(k)'
    BY <1>1, <1>2, <1>3, <2>1 DEF Apart, Exists, TypeOK
  <2>3. cont[k] = "none" /\ deployment \notin net[k]
    BY <1>2, <1>3, <2>1 DEF HasCome, Reached, HasMadeSure
  <2>4. (\A d, e \in Deployments : d = e) => net[k] = {}
    BY <1>3, <2>3 DEF TypeOK
  <2>5. HasItsThings(k)'
    BY <1>2, <2>1, <2>2, <2>3, <2>4 DEF HasItsThings
  <2>6. QED BY <1>2, <2>1, <2>2, <2>5, ReturnsTidy
<1> QED BY <1>4, <1>5, <1>6

-----------------------------------------------------------------------------
(* reconcileLocked, and the choice of a row.                                  *)

\* It leaves the row's status and everything of the instance alone, and goes on
\* to a step that takes nothing for granted.
LEMMA LeavesTidy ==
    ASSUME Inductive, Tidy, NEW w \in Threads, HasInHand(w), NEW k \in Ids, k = job[w].id,
           UNCHANGED <<cont, dirs, net, deployment>>,
           \A i \in Ids \ {k} : row'[i] = row[i],
           row'[k] # None, row'[k].status = row[k].status,
           Beside(w), pc'[w] \notin Sure
    PROVE  Tidy'
<1>1. row[k] # None
  BY IdentityAssumption DEF HasInHand
<1>2. HasItsThings(k)'
  BY <1>1 DEF Tidy, HasItsThings, Exists
<1>3. Apart(w)
  BY DEF Apart
<1> QED BY <1>2, <1>3, Unsure, OthersSure

LEMMA RepairsTidy ==
    ASSUME Inductive, InOrder, Tidy, NEW w \in Threads,
           \/ ReconcileDirectories(w) \/ SettleLegacy(w) \/ SettleStopped(w)
           \/ SettleHealthy(w) \/ SettleExhausted(w) \/ SettleLater(w) \/ SettleRetry(w)
           \/ ReconcileHealthy(w) \/ ReconcileReset(w) \/ ReconcileExhausted(w)
    PROVE  Tidy'
<1> USE DEF account, docker, manager
<1>1. /\ pc[w] \in RepairSteps /\ pc[w] \in RowSteps
      /\ UNCHANGED <<dirs, net, deployment>>
  BY DEF ReconcileDirectories, SettleLegacy, SettleStopped, SettleHealthy, SettleExhausted,
         SettleLater, SettleRetry, ReconcileHealthy, ReconcileReset, ReconcileExhausted,
         Wanted, RowSteps, RepairSteps
<1>2. PICK k \in Ids : k = job[w].id /\ HasItsThings(k) /\ HasInHand(w)
  BY <1>1, InHand DEF Tidy
<1>3. /\ TypeOK /\ row[k] \in Row /\ row[k] # None /\ sess[w] \in Row
      /\ row \in [Ids -> Row \cup {None}]
  BY <1>1, <1>2, InHand, IdentityAssumption DEF HasInHand, Inductive, TypeOK
<1>4. {"recSettle", "stopInspect", "recHealthy", "recExhausted", "recReset", "recStop",
       "mark", "idle", "nextInstance"} \cap Sure = {}
  BY DEF Sure, StartSteps
<1>5. CASE Fail(w, "error")
  <2>1. cont' = cont \/ ReconcileExhausted(w)
    BY DEF ReconcileDirectories, SettleLegacy, SettleStopped, SettleHealthy,
           SettleExhausted, SettleLater, SettleRetry, ReconcileHealthy, ReconcileReset
  <2>2. /\ \A i \in Ids \ {k} : cont'[i] = cont[i]
        /\ cont'[k] # "none" => cont[k] # "none"
    BY <1>2, <1>3, <2>1, SureSteps DEF ReconcileExhausted, TypeOK
  <2>3. QED BY <1>1, <1>2, <1>5, <2>2, FailsTidy DEF HasItsThings
<1>6. CASE /\ ~Fail(w, "error")
           /\ \/ ReconcileDirectories(w) \/ SettleStopped(w) \/ SettleHealthy(w)
              \/ SettleExhausted(w) \/ SettleLater(w)
  <2>1. UNCHANGED <<row, cont>>
    BY <1>6 DEF ReconcileDirectories, SettleStopped, SettleHealthy, SettleExhausted,
                SettleLater
  <2>2. /\ Beside(w)
        /\ pc'[w] \in {"recSettle", "stopInspect", "recHealthy", "recExhausted", "idle"}
    BY <1>3, <1>6 DEF ReconcileDirectories, SettleStopped, SettleHealthy, SettleExhausted,
                      SettleLater, Release, Goto, Beside, TypeOK
  <2>3. QED BY <1>1, <1>2, <1>3, <1>4, <2>1, <2>2, LeavesTidy
<1>7. CASE SettleRetry(w) \/ ReconcileReset(w)
  <2> DEFINE n == IF pc[w] = "recSettle" THEN sess[w].attempts + 1 ELSE 0
             b == pc[w] = "recSettle"
             new == [row[k] EXCEPT !.attempts = n, !.wait = b]
  <2>1. row' = [row EXCEPT ![k] = new]
    BY <1>2, <1>7 DEF SettleRetry, ReconcileReset, Wanted
  <2>2. new.status = row[k].status /\ new \in Row
    <3>1. n \in Nat /\ b \in BOOLEAN
      BY <1>3 DEF Row
    <3> HIDE DEF n, b
    <3>2. QED BY <1>3, <3>1 DEF Row
  <2> HIDE DEF new
  <2>3. /\ row'[k].status = row[k].status /\ row'[k] # None
        /\ \A i \in Ids \ {k} : row'[i] = row[i]
    BY <1>3, <2>1, <2>2, IdentityAssumption
  <2>4. Beside(w) /\ pc'[w] \in {"recStop", "mark", "idle"} /\ cont' = cont
    BY <1>3, <1>7 DEF SettleRetry, ReconcileReset, Release, Goto, Beside, TypeOK
  <2>5. QED BY <1>1, <1>2, <1>4, <2>3, <2>4, LeavesTidy
<1>8. CASE SettleLegacy(w)
  <2>1. JudgesByItsRow(w) /\ pc[w] = "recSettle" /\ sess[w].desired = "legacy_expired"
    BY <1>8 DEF SettleLegacy, InOrder, Careful
  <2>2. sess[w].status \in Statuses /\ sess[w].status # "stopped"
    BY <1>3, <2>1 DEF JudgesByItsRow, Judging, Agree, Row
  <2>3. PICK d \in Intents : Write(w, sess[w].status, d, FALSE)
    BY <1>8 DEF SettleLegacy, Commit, Intents
  <2>4. Goto(w, "recSettle") /\ UNCHANGED <<job, seen, cont>>
    BY <1>3, <1>8, <2>1 DEF SettleLegacy, Goto, TypeOK
  <2>5. QED BY <1>1, <1>2, <1>4, <2>2, <2>3, <2>4, WritesTidy
<1>9. CASE ReconcileHealthy(w)
  <2>1. /\ "running" \in Statuses /\ "running" \in Intents /\ cont' = cont
        /\ Write(w, "running", "running", FALSE)
        /\ Release(w) \/ (Goto(w, "recReset") /\ UNCHANGED <<job, seen>>)
    BY <1>9 DEF ReconcileHealthy, Statuses, Intents
  <2>2. QED BY <1>1, <1>2, <1>4, <2>1, WritesTidy
<1>10. CASE ReconcileExhausted(w)
  BY <1>5, <1>10 DEF ReconcileExhausted
<1> QED BY <1>5, <1>6, <1>7, <1>8, <1>9, <1>10

LEMMA ChoosesTidy ==
    ASSUME Inductive, Tidy, NEW w \in Threads,
           \/ ResumeCreation(w) \/ StartSession(w) \/ StopSession(w)
           \/ DeleteSession(w) \/ BeginUpload(w) \/ ReconcileDeleted(w)
           \/ ReconcileInspect(w)
    PROVE  Tidy'
<1> USE DEF account, docker, manager
<1>1. /\ pc[w] \in EntrySteps \ {"create", "deleteUser"} /\ Permitted(w)
      /\ UNCHANGED <<cont, dirs, net, deployment>>
  BY DEF ResumeCreation, StartSession, StopSession, DeleteSession, BeginUpload,
         ReconcileDeleted, ReconcileInspect, EntrySteps
<1>2. PICK k \in Ids : k = job[w].id /\ HasInHand(w) /\ HasItsThings(k)
  BY <1>1, Chosen DEF HasInHand, Tidy
<1>3. /\ TypeOK /\ row[k] \in Row /\ row[k] # None /\ row \in [Ids -> Row \cup {None}]
      /\ row[k].desired \in Intents
  BY <1>2, IdentityAssumption DEF HasInHand, Inductive, TypeOK, Row
<1>4. {"mark", "delMark", "recDirs", "recIsolate", "stopInspect"} \cap Sure = {}
  BY DEF Sure, StartSteps
<1>5. CASE \/ ResumeCreation(w) \/ DeleteSession(w) \/ ReconcileDeleted(w)
           \/ (ReconcileInspect(w) /\ ~Release(w))
  <2>1. /\ UNCHANGED row /\ Beside(w)
        /\ pc'[w] \in {"mark", "delMark", "recDirs", "recIsolate"}
    <3>1. UNCHANGED <<row, job>> /\ \A v \in Threads \ {w} : seen'[v] = seen[v]
      BY <1>3, <1>5 DEF ResumeCreation, DeleteSession, ReconcileDeleted, ReconcileInspect,
                        TypeOK
    <3>2. PICK next \in {"mark", "delMark", "recDirs", "recIsolate"} : Goto(w, next)
      BY <1>5 DEF ResumeCreation, DeleteSession, ReconcileDeleted, ReconcileInspect
    <3>3. QED BY <1>3, <3>1, <3>2 DEF Goto, Beside, TypeOK
  <2>2. QED BY <1>1, <1>2, <1>3, <1>4, <2>1, LeavesTidy
<1>6. CASE ReconcileInspect(w) /\ Release(w)
  <2>1. PICK s \in {"unknown", "error"} : Write(w, s, row[k].desired, TRUE)
    BY <1>2, <1>6 DEF ReconcileInspect, Release, Goto, Inductive, TypeOK
  <2>2. s \in Statuses /\ s # "stopped"
    BY DEF Statuses
  <2>3. QED BY <1>1, <1>2, <1>3, <1>6, <2>1, <2>2, WritesTidy
<1>7. CASE StartSession(w)
  <2> DEFINE new == [row[k] EXCEPT !.attempts = 0, !.wait = FALSE]
  <2>1. new.status = row[k].status /\ new \in Row /\ row' = [row EXCEPT ![k] = new]
    BY <1>2, <1>3, <1>7 DEF Row, StartSession
  <2> HIDE DEF new
  <2>2. /\ row'[k].status = row[k].status /\ row'[k] # None
        /\ \A i \in Ids \ {k} : row'[i] = row[i]
    BY <1>3, <2>1, IdentityAssumption
  <2>3. Beside(w) /\ pc'[w] = "mark"
    BY <1>3, <1>7 DEF StartSession, Goto, Beside, TypeOK
  <2>4. QED BY <1>1, <1>2, <1>4, <2>2, <2>3, LeavesTidy
<1>8. CASE StopSession(w)
  <2>1. /\ "stopping" \in Statuses /\ "stopped" \in Intents
        /\ Write(w, "stopping", "stopped", FALSE) /\ Goto(w, "stopInspect")
        /\ UNCHANGED <<job, seen>>
    BY <1>8 DEF StopSession, Statuses, Intents
  <2>2. QED BY <1>1, <1>2, <1>4, <2>1, WritesTidy
<1>9. CASE BeginUpload(w)
  <2>1. cont[k] \in Running /\ dirs[k] \in Whole
    BY <1>2, <1>9, SureSteps DEF BeginUpload, Permitted, HasItsThings
  <2>2. UNCHANGED <<row, job>> /\ Beside(w) /\ pc'[w] = "uploading"
    BY <1>3, <1>9 DEF BeginUpload, Goto, Beside, TypeOK
  <2>3. HasMadeSure(w)'
    BY <1>1, <1>2, <2>1, <2>2 DEF HasMadeSure, StartSteps
  <2>4. Apart(w) /\ HasItsThings(k)'
    BY <1>1, <1>2, <2>2 DEF Apart, HasItsThings, Exists
  <2>5. QED BY <1>2, <2>2, <2>3, <2>4, OthersSure
<1> QED BY <1>5, <1>6, <1>7, <1>8, <1>9

LEMMA CreatesTidy ==
    ASSUME Inductive, Tidy, NEW w \in Threads, CreateInQuota(w)
    PROVE  Tidy'
<1> USE DEF account, docker, manager
<1> DEFINE new == NewRow(job[w].user, job[w].key)
<1>1. PICK i \in Ids \ issued :
        row' = [row EXCEPT ![i] = new] /\ job' = [job EXCEPT ![w].id = i]
  BY DEF CreateInQuota
<1>2. Goto(w, "mkdirs") /\ UNCHANGED <<cont, dirs, net, deployment, seen>>
  BY DEF CreateInQuota
<1>3. new.status = "creating" /\ ~Exists(i)
  BY <1>1 DEF NewRow, Inductive, Issued
<1> HIDE DEF new
<1>4. row'[i] = new /\ \A k \in Ids \ {i} : row'[k] = row[k]
  BY <1>1 DEF Inductive, TypeOK
<1>5. pc'[w] = "mkdirs" /\ Beside(w)
  BY <1>1, <1>2 DEF Goto, Inductive, TypeOK, Beside
<1>6. ASSUME NEW k \in Ids PROVE HasItsThings(k)'
  <2>1. HasItsThings(k)
    BY DEF Tidy
  <2>2. QED BY <1>2, <1>3, <1>4, <2>1 DEF HasItsThings, Exists
<1>7. ASSUME NEW v \in Threads PROVE HasMadeSure(v)'
  <2>1. CASE v = w
    BY <1>5, <2>1, SureSteps, Unsure
  <2>2. CASE v # w /\ pc[v] \notin Sure
    BY <1>5, <2>2, Unsure DEF Beside
  <2>3. CASE v # w /\ pc[v] \in Sure
    <3>1. job[v].id \in Ids \ {i}
      BY <2>3, SureSteps, InHand DEF HasInHand
    <3>2. HasMadeSure(v)
      BY DEF Tidy
    <3>3. QED BY <1>2, <1>4, <1>5, <2>3, <3>1, <3>2 DEF Beside, HasMadeSure
  <2>4. QED BY <2>1, <2>2, <2>3
<1> QED BY <1>6, <1>7 DEF Tidy

LEMMA DirectoriesTidy ==
    ASSUME Inductive, Tidy, NEW w \in Threads, MakeDirectories(w)
    PROVE  Tidy'
<1> USE DEF account, docker, manager
<1>1. /\ pc[w] = "mkdirs" /\ pc[w] \in RowSteps
      /\ UNCHANGED <<cont, net, deployment>>
  BY DEF MakeDirectories, RowSteps
<1>2. PICK k \in Ids : k = job[w].id /\ HasItsThings(k)
  BY <1>1, InHand DEF Tidy
<1>3. cont[k] = "none"
  BY <1>1, <1>2 DEF Inductive, ThreadInv, HasCome, Reached, HasItsThings, Whole, Present
<1>4. \A i \in Ids \ {k} : dirs'[i] = dirs[i]
  BY <1>2 DEF MakeDirectories, Inductive, TypeOK
<1>5. CASE Fail(w, "error")
  BY <1>1, <1>2, <1>3, <1>4, <1>5, FailsTidy
<1>6. CASE Goto(w, "spawn") /\ UNCHANGED <<row, job, seen>>
  <2>1. pc'[w] = "spawn"
    BY <1>6 DEF Goto, Inductive, TypeOK
  <2>2. HasMadeSure(w)'
    BY <2>1, SureSteps, Unsure
  <2>3. QED BY <1>1, <1>2, <1>3, <1>4, <1>6, <2>2, SureSteps, GoesOnTidy
<1> QED BY <1>5, <1>6 DEF MakeDirectories

-----------------------------------------------------------------------------
(* Steps with nothing to make sure of, and the world.                         *)

Things == <<row, cont, dirs, net, deployment>>

LEMMA EndsTidy ==
    ASSUME Inductive, Tidy, UNCHANGED Things, NEW w \in Threads,
           Beside(w), pc'[w] \notin Sure
    PROVE  Tidy'
  BY StillTidy DEF Beside, Things

LEMMA HandlersTidy ==
    ASSUME Inductive, Tidy, NEW w \in Threads,
           \/ Acquire(w) \/ Refuse(w) \/ CreateRejected(w) \/ SpawnTask(w)
           \/ EndUpload(w) \/ ListInstances(w) \/ NextInstance(w)
           \/ FinishUserDeletion(w) \/ GiveUp(w) \/ Cancelled(w) \/ Submission(w)
           \/ \E t \in tasks : RunTask(w, t)
    PROVE  Tidy'
<1> USE DEF account, docker, manager
<1>1. TypeOK
  BY DEF Inductive
<1>2. CASE Acquire(w)
  <2>1. job[w].op \in EntrySteps
    BY <1>2 DEF Acquire, Inductive, ThreadInv, HoldsItsLock, Knows
  <2>2. UNCHANGED Things /\ Beside(w) /\ pc'[w] = job[w].op
    BY <1>1, <1>2 DEF Acquire, Goto, Things, Beside, TypeOK
  <2>3. QED BY <2>1, <2>2, SureSteps, EndsTidy
<1>3. CASE Refuse(w) \/ CreateRejected(w) \/ SpawnTask(w) \/ EndUpload(w) \/ Cancelled(w)
  <2>1. UNCHANGED Things /\ (Release(w) \/ Return(w, FALSE))
    BY <1>3 DEF Refuse, CreateRejected, SpawnTask, EndUpload, Cancelled, Things
  <2>2. Beside(w) /\ pc'[w] \in {"idle", "nextInstance"}
    BY <1>1, <2>1 DEF Release, Return, Goto, Beside, TypeOK
  <2>3. QED BY <2>1, <2>2, SureSteps, EndsTidy
<1>4. CASE ListInstances(w) \/ NextInstance(w) \/ FinishUserDeletion(w) \/ GiveUp(w)
  <2>1. UNCHANGED Things
    BY <1>4 DEF ListInstances, NextInstance, FinishUserDeletion, GiveUp, Things
  <2>2. Beside(w) /\ pc'[w] \in {"idle", "nextInstance", "delMark"}
    BY <1>1, <1>4 DEF ListInstances, NextInstance, FinishUserDeletion, GiveUp,
                      DeletionFailed, Release, Goto, Beside, TypeOK
  <2>3. QED BY <2>1, <2>2, SureSteps, EndsTidy
<1>5. CASE Submission(w) \/ \E t \in tasks : RunTask(w, t)
  <2>1. UNCHANGED Things /\ Beside(w) /\ pc'[w] = "lock"
    BY <1>1, <1>5 DEF Submission, RequestCreate, RequestOnInstance, RequestDeleteUser,
                      Request, Submit, RunTask, Goto, Things, Beside, TypeOK
  <2>2. QED BY <2>1, SureSteps, EndsTidy
<1> QED BY <1>2, <1>3, <1>4, <1>5

LEMMA LoopTidy == ASSUME Inductive, Tidy, SweepStep PROVE Tidy'
<1> USE DEF account, docker, manager
<1>1. TypeOK /\ Maint \in Threads
  BY DEF Inductive, Threads
<1>2. CASE UNCHANGED Things /\ UNCHANGED thread
  BY <1>2, StillTidy DEF Things, thread
<1>3. CASE \E j : Submit(Maint, j)
  <2>1. UNCHANGED Things /\ Beside(Maint) /\ pc'[Maint] = "lock"
    BY <1>1, <1>3 DEF Submit, Goto, Things, Beside, TypeOK
  <2>2. QED BY <1>1, <2>1, SureSteps, EndsTidy
<1>4. CASE SweepBegin \/ SweepList \/ SweepEnd
  BY <1>2, <1>4 DEF SweepBegin, SweepList, SweepEnd, Things
<1>5. CASE \E u \in Users : SweepUser(u)
  BY <1>2, <1>3, <1>5 DEF SweepUser, Things
<1>6. CASE \E i \in Ids : SweepInstance(i)
  BY <1>2, <1>3, <1>6 DEF SweepInstance, Things
<1> QED BY <1>4, <1>5, <1>6 DEF SweepStep

\* Threads stay where they are, and what happens to an instance takes nothing
\* from them.
LEMMA EventsTidy ==
    ASSUME Inductive, Tidy, UNCHANGED <<deployment, net>>, UNCHANGED thread,
           \A i \in Ids : /\ HasItsThings(i)'
                          /\ row'[i].status = row[i].status
                          /\ cont'[i] \in Running => cont[i] \in Running
                          /\ dirs[i] \in Whole => dirs'[i] \in Whole
    PROVE  Tidy'
<1>1. ASSUME NEW v \in Threads PROVE HasMadeSure(v)'
  <2>1. CASE pc[v] \in Sure
    <3>1. job[v].id \in Ids
      BY <2>1, SureSteps, InHand
    <3>2. QED BY <3>1 DEF Tidy, HasMadeSure, thread
  <2>2. CASE pc[v] \notin Sure
    BY <2>2, Unsure DEF thread
  <2>3. QED BY <2>1, <2>2
<1> QED BY <1>1 DEF Tidy

LEMMA WorldTidy == ASSUME Inductive, Tidy, Environment PROVE Tidy'
<1> USE DEF account, docker, manager
<1>1. /\ TypeOK /\ row \in [Ids -> Row \cup {None}] /\ \A i \in Ids : HasItsThings(i)
  BY DEF Inductive, TypeOK, Tidy
<1>2. CASE \/ \E u \in Users, s \in Accounts : SetUserStatus(u, s)
           \/ \E u \in Users, q \in Quotas : UpdateUserQuota(u, q)
           \/ Shutdown
  <2>1. UNCHANGED Things /\ UNCHANGED thread
    BY <1>2 DEF SetUserStatus, UpdateUserQuota, Shutdown, Things
  <2>2. QED BY <2>1, StillTidy DEF Things, thread
<1>3. CASE \/ \E i \in Ids, h \in Running : HealthChanges(i, h)
           \/ \E i \in Ids, c \in Containers : ContainerDies(i, c)
  <2>1. UNCHANGED <<row, dirs, net, deployment>> /\ UNCHANGED thread
    BY <1>3 DEF HealthChanges, ContainerDies
  <2>2. \A i \in Ids : /\ cont'[i] # "none" => cont[i] # "none"
                       /\ cont'[i] \in Running => cont[i] \in Running
    <3>1. CASE \E i \in Ids, h \in Running : HealthChanges(i, h)
      BY <1>1, <3>1, SureSteps DEF HealthChanges, TypeOK
    <3>2. CASE \E i \in Ids, c \in Containers : ContainerDies(i, c)
      BY <1>1, <3>2, SureSteps DEF ContainerDies, TypeOK
    <3>3. QED BY <1>3, <3>1, <3>2
  <2>3. \A i \in Ids : HasItsThings(i)'
    BY <1>1, <2>1, <2>2 DEF HasItsThings, Exists
  <2>4. QED BY <2>1, <2>2, <2>3, EventsTidy
<1>4. CASE \E i \in Ids : DataLost(i)
  <2>1. UNCHANGED <<row, cont, net, deployment>> /\ UNCHANGED thread
    BY <1>4 DEF DataLost
  <2>2. \A i \in Ids : dirs[i] \in Whole => dirs'[i] \in Whole
    BY <1>1, <1>4 DEF DataLost, TypeOK, Whole
  <2>3. \A i \in Ids : HasItsThings(i)'
    BY <1>1, <2>1, <2>2 DEF HasItsThings, Exists
  <2>4. QED BY <2>1, <2>2, <2>3, EventsTidy
<1>5. CASE \E i \in Ids : BackoffElapses(i)
  <2>1. PICK i \in Ids : BackoffElapses(i)
    BY <1>5
  <2> DEFINE new == [row[i] EXCEPT !.wait = FALSE]
  <2>2. /\ row' = [row EXCEPT ![i] = new] /\ UNCHANGED <<cont, dirs, net, deployment>>
        /\ UNCHANGED thread /\ row[i] \in Row /\ Exists(i)
    BY <1>1, <2>1 DEF BackoffElapses, Exists
  <2>3. new.status = row[i].status
    BY <2>2 DEF Row
  <2> HIDE DEF new
  <2>4. row'[i] = new /\ \A k \in Ids \ {i} : row'[k] = row[k]
    BY <1>1, <2>2
  <2>5. \A k \in Ids : row'[k].status = row[k].status /\ (Exists(k)' => Exists(k))
    BY <2>2, <2>3, <2>4 DEF Exists
  <2>6. \A k \in Ids : Exists(k) => Exists(k)'
    <3>1. row[i].wait # FALSE /\ new \in Row
      BY <2>1, <2>2 DEF BackoffElapses, Row, new
    <3>2. QED BY <2>4, <3>1, IdentityAssumption DEF Exists
  <2>7. \A k \in Ids : HasItsThings(k)'
    BY <1>1, <2>2, <2>5, <2>6 DEF HasItsThings
  <2>8. QED BY <2>2, <2>5, <2>7, EventsTidy
<1>6. CASE \E d \in Deployments : Restart(d)
  <2>1. /\ UNCHANGED <<row, cont, dirs, net>> /\ \A v \in Threads : pc'[v] = "idle"
    BY <1>6 DEF Restart
  <2>2. \A i \in Ids : HasItsThings(i)'
    BY <1>1, <2>1 DEF HasItsThings, Exists
  <2>3. \A v \in Threads : HasMadeSure(v)'
    BY <2>1, SureSteps, Unsure
  <2>4. QED BY <2>2, <2>3 DEF Tidy
<1> QED BY <1>2, <1>3, <1>4, <1>5, <1>6 DEF Environment

-----------------------------------------------------------------------------
(* Together.                                                                  *)

LEMMA StartsOutTidy == Init => Tidy
<1> SUFFICES ASSUME Init PROVE Tidy
  OBVIOUS
<1>1. ASSUME NEW i \in Ids PROVE HasItsThings(i)
  BY SureSteps DEF Init, HasItsThings, Whole, Present, Exists, Running
<1>2. ASSUME NEW v \in Threads PROVE HasMadeSure(v)
  <2>1. pc[v] = "idle"
    BY DEF Init
  <2>2. QED BY <2>1 DEF HasMadeSure, StartSteps
<1> QED BY <1>1, <1>2 DEF Tidy

LEMMA StaysTidy == Inductive /\ InOrder /\ Tidy /\ [Next]_vars => Tidy'
<1> SUFFICES ASSUME Inductive, InOrder, Tidy, [Next]_vars PROVE Tidy'
  OBVIOUS
<1>1. ASSUME NEW w \in Threads, HandlerStep(w) PROVE Tidy'
  <2>1. CASE StartStep(w)
    BY <2>1, StartsTidy, InspectsTidy, IsolatesTidy, StopsTidy, ChoosesTidy DEF StartStep
  <2>2. CASE StopStep(w)
    BY <2>2, StoppingTidy, InspectsTidy, IsolatesTidy, StopsTidy, ChoosesTidy DEF StopStep
  <2>3. CASE DeleteStep(w)
    BY <2>3, DeletingTidy, InspectsTidy, StopsTidy, ChoosesTidy, HandlersTidy
       DEF DeleteStep
  <2>4. CASE RepairStep(w)
    BY <2>4, RepairsTidy, IsolatesTidy, StopsTidy, ChoosesTidy DEF RepairStep
  <2>5. QED BY <1>1, <2>1, <2>2, <2>3, <2>4, HandlersTidy, CreatesTidy, DirectoriesTidy,
               ChoosesTidy DEF HandlerStep
<1>2. CASE UNCHANGED vars
  BY <1>2, StillTidy DEF vars
<1> QED BY <1>1, <1>2, HandlersTidy, LoopTidy, WorldTidy DEF Next

\* Instances have their things, for every number of users, instances,
\* goroutines, failures and restarts.
THEOREM TidinessIsKept == Spec => []Tidy
  BY StartsOutTidy, StaysTidy, Invariance, OrderIsKept, PTL DEF Spec

\* stopLocked writes "stopped" only after it has found the container down, and
\* startLocked takes it back before it starts one.
THEOREM StoppedIsDown == Spec => []StoppedMeansStopped
<1>1. Tidy => StoppedMeansStopped
  BY DEF Tidy, HasItsThings, Exists, StoppedMeansStopped
<1> QED BY <1>1, TidinessIsKept, PTL

\* deleteLocked keeps the row until the network is gone.
THEOREM NetworksAreRemembered == Spec => []NoOrphanNetworks
<1>1. Tidy => NoOrphanNetworks
  BY DEF Tidy, HasItsThings, Exists, NoOrphanNetworks
<1> QED BY <1>1, TidinessIsKept, PTL

\* WithUserLock keeps row, account and directories while a file is written.
THEOREM UploadsAreSafe == Spec => []UploadKeepsInstance
<1>1. Inductive /\ Tidy => UploadKeepsInstance
  <2> SUFFICES ASSUME Inductive, Tidy, NEW w \in Threads, pc[w] = "uploading"
               PROVE  /\ row[job[w].id] # None /\ user[job[w].user] # "absent"
                      /\ dirs[job[w].id] \in {"complete", "lost", "blank"}
    BY DEF UploadKeepsInstance
  <2>1. pc[w] \in RowSteps
    BY DEF RowSteps
  <2>2. /\ HasInHand(w) /\ row[job[w].id] # None
    BY <2>1, InHand, IdentityAssumption
  <2>3. user[job[w].user] # "absent"
    BY <2>2 DEF HasInHand, Inductive, NoOrphanResources
  <2>4. dirs[job[w].id] \in Whole
    BY DEF Tidy, HasMadeSure
  <2>5. QED BY <2>2, <2>3, <2>4 DEF Whole, Present
<1> QED BY <1>1, TidinessIsKept, Invariance, PTL
=============================================================================
