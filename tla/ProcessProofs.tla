----------------------------- MODULE ProcessProofs -----------------------------
(* For any number of managers and requests: only one manager works, and it    *)
(* has no worker any more when it closes the database.                        *)
(*                                                                            *)
(* Whoever works holds the lock (Locked). The wait group counts exactly the   *)
(* tasks that run (Counted), so that once nothing can begin a task (Shut) and *)
(* the group is waited for, none runs and none ever will (Stopped).           *)
EXTENDS Process, FiniteSetTheorems, TLAPS

Counted(m) ==
    /\ IsFiniteSet(tasks[m]) /\ pending[m] = Cardinality(tasks[m])
    /\ \A r \in tasks[m] : request[m][r] \in {"answering", "ended"}

\* No task begins any more: the service refuses them, or no handler ever runs.
Shut(m) == refusing[m] \/ (~accepting[m] /\ \A r \in Requests : request[m][r] # "active")

Locked(m) ==
    /\ main[m] \notin {"off", "leaving", "exited"} => holder = m
    /\ Works(m) => holder = m /\ main[m] \notin {"off", "exited"}

Stopped(m) ==
    /\ main[m] \in {"off", "exited"} => ~accepting[m]
    /\ main[m] \notin {"serving", "draining", "stopping"} => Shut(m)
    /\ main[m] = "awaitLoop" => tasks[m] = {}
    /\ main[m] \in {"closing", "unlocking"} => ~Works(m)
    /\ db[m] = "closed" => ~Works(m) /\ main[m] \in {"unlocking", "leaving", "exited"}

Orderly(m) == Counted(m) /\ Locked(m) /\ Stopped(m)

Inductive == TypeOK /\ \A m \in Managers : Orderly(m)

-----------------------------------------------------------------------------
(* A step of one manager does nothing to another, but that the lock may be    *)
(* taken when it is free, or given back by its holder.                        *)

Untouched(n) ==
    /\ main'[n] = main[n] /\ accepting'[n] = accepting[n] /\ db'[n] = db[n]
    /\ refusing'[n] = refusing[n] /\ loop'[n] = loop[n] /\ tasks'[n] = tasks[n]
    /\ pending'[n] = pending[n] /\ request'[n] = request[n]

Alone(m) ==
    /\ holder' = holder \/ holder \in {None, m}
    /\ \A n \in Managers \ {m} : Untouched(n)

LEMMA OthersStayOrderly ==
    ASSUME Inductive, NEW m \in Managers, Alone(m), NEW n \in Managers \ {m}
    PROVE  Orderly(n)'
<1>1. Untouched(n) /\ Orderly(n) /\ n # None /\ n # m
  BY NobodyAssumption DEF Inductive, Alone
<1>2. Counted(n)'
  BY <1>1 DEF Untouched, Orderly, Counted
<1>3. Locked(n)'
  BY <1>1 DEF Untouched, Orderly, Locked, Works, Alone
<1>4. Stopped(n)'
  BY <1>1 DEF Untouched, Orderly, Stopped, Works, Shut
<1> QED BY <1>2, <1>3, <1>4 DEF Orderly

-----------------------------------------------------------------------------
(* The steps.                                                                 *)

LEMMA GoroutinesKeep ==
    ASSUME Inductive, NEW m \in Managers, Goroutine(m)
    PROVE  TypeOK' /\ Alone(m) /\ Orderly(m)'
<1> USE DEF process, Turn, Loop
<1>1. TypeOK /\ Orderly(m)
  BY DEF Inductive
<1>2. CASE LoopRests(m) \/ LoopTicks(m) \/ LoopEnds(m)
  <2>1. /\ UNCHANGED <<process, tasks, pending, request>> /\ loop[m] \in {"reconciling", "waiting"}
        /\ \E to \in {"reconciling", "waiting", "ended"} : loop' = [loop EXCEPT ![m] = to]
    BY <1>2 DEF LoopRests, LoopTicks, LoopEnds
  <2>2. TypeOK' /\ Alone(m)
    BY <1>1, <2>1 DEF TypeOK, Alone, Untouched
  <2>3. Orderly(m)'
    BY <1>1, <2>1 DEF TypeOK, Orderly, Counted, Locked, Stopped, Shut, Works
  <2> QED BY <2>2, <2>3
<1>3. CASE \E r \in Requests : Accept(m, r)
  <2>1. PICK r \in Requests : Accept(m, r)
    BY <1>3
  <2>2. TypeOK' /\ Alone(m)
    BY <1>1, <2>1 DEF Accept, TypeOK, RequestSteps, Alone, Untouched
  <2>3. /\ accepting[m] /\ request[m][r] = "none" /\ UNCHANGED <<process, loop, tasks, pending>>
        /\ request'[m] = [request[m] EXCEPT ![r] = "active"]
    BY <1>1, <2>1 DEF Accept, TypeOK
  <2>4. Counted(m)' /\ Locked(m)'
    BY <1>1, <2>3 DEF TypeOK, Orderly, Counted, Locked, Works
  <2>5. Stopped(m)'
    BY <1>1, <2>3 DEF TypeOK, Orderly, Stopped, Shut, Works
  <2> QED BY <2>2, <2>4, <2>5 DEF Orderly
<1>4. CASE \E r \in Requests : BeginTask(m, r)
  <2>1. PICK r \in Requests : BeginTask(m, r)
    BY <1>4
  <2>2. /\ request[m][r] = "active" /\ r \notin tasks[m] /\ UNCHANGED <<process, loop>>
        /\ request' = [request EXCEPT ![m][r] = "answering"]
        /\ request'[m] = [request[m] EXCEPT ![r] = "answering"]
    BY <1>1, <2>1 DEF BeginTask, TypeOK, Orderly, Counted
  <2>3. CASE refusing[m]
    <3>1. UNCHANGED <<tasks, pending>>
      BY <2>1, <2>3 DEF BeginTask
    <3>2. TypeOK' /\ Alone(m)
      BY <1>1, <2>2, <3>1 DEF TypeOK, RequestSteps, Alone, Untouched
    <3>3. Orderly(m)'
      BY <1>1, <2>2, <2>3, <3>1 DEF TypeOK, Orderly, Counted, Locked, Stopped, Shut, Works
    <3> QED BY <3>2, <3>3
  <2>4. CASE ~refusing[m]
    <3>1. /\ tasks' = [tasks EXCEPT ![m] = @ \cup {r}]
          /\ pending' = [pending EXCEPT ![m] = @ + 1]
      BY <2>1, <2>4 DEF BeginTask
    <3>2. tasks'[m] = tasks[m] \cup {r} /\ pending'[m] = pending[m] + 1
      BY <1>1, <3>1 DEF TypeOK
    <3>3. IsFiniteSet(tasks'[m]) /\ pending'[m] = Cardinality(tasks'[m])
      BY <1>1, <2>2, <3>2, FS_AddElement DEF Orderly, Counted
    <3>4. TypeOK' /\ Alone(m)
      BY <1>1, <2>2, <3>1 DEF TypeOK, RequestSteps, Alone, Untouched
    <3>5. Counted(m)'
      BY <1>1, <2>2, <3>2, <3>3 DEF TypeOK, Orderly, Counted
    <3>6. main[m] \in {"serving", "draining", "stopping"} /\ db[m] # "closed"
      BY <1>1, <2>2, <2>4 DEF TypeOK, Orderly, Stopped, Shut
    <3>7. Locked(m)'
      BY <1>1, <2>2, <3>6 DEF Orderly, Locked, Works
    <3>8. Stopped(m)'
      BY <1>1, <2>2, <3>6 DEF Orderly, Stopped
    <3> QED BY <3>4, <3>5, <3>7, <3>8 DEF Orderly
  <2> QED BY <2>3, <2>4
<1>5. CASE \E r \in Requests : EndTask(m, r)
  <2>1. PICK r \in tasks[m] : EndTask(m, r)
    BY <1>5 DEF EndTask
  <2>2. /\ r \in Requests /\ UNCHANGED <<process, loop, request>>
        /\ tasks' = [tasks EXCEPT ![m] = @ \ {r}]
        /\ pending' = [pending EXCEPT ![m] = @ - 1]
    BY <1>1, <2>1 DEF EndTask, TypeOK
  <2>3. tasks'[m] = tasks[m] \ {r} /\ pending'[m] = pending[m] - 1
    BY <1>1, <2>2 DEF TypeOK
  <2>4. IsFiniteSet(tasks'[m]) /\ pending'[m] = Cardinality(tasks'[m])
    BY <1>1, <2>3, FS_RemoveElement DEF Orderly, Counted
  <2>5. pending'[m] \in Nat
    BY <2>4, FS_CardinalityType
  <2>6. TypeOK' /\ Alone(m)
    BY <1>1, <2>2, <2>3, <2>5 DEF TypeOK, Alone, Untouched
  <2>7. Counted(m)'
    BY <1>1, <2>2, <2>3, <2>4 DEF Orderly, Counted
  <2>8. Locked(m)' /\ Stopped(m)'
    BY <1>1, <2>2, <2>3 DEF Orderly, Locked, Stopped, Shut, Works
  <2> QED BY <2>6, <2>7, <2>8 DEF Orderly
<1>6. CASE \E r \in Requests : Detach(m, r) \/ EndRequest(m, r)
  <2>1. PICK r \in Requests : Detach(m, r) \/ EndRequest(m, r)
    BY <1>6
  <2>2. PICK to \in {"detached", "ended"} :
          /\ request' = [request EXCEPT ![m][r] = to]
          /\ request[m][r] \in {"active", "answering", "detached"}
          /\ to = "detached" => request[m][r] = "active"
          /\ UNCHANGED <<process, loop, tasks, pending>>
    BY <2>1 DEF Detach, EndRequest
  <2>3. request'[m] = [request[m] EXCEPT ![r] = to]
    BY <1>1, <2>2 DEF TypeOK
  <2>4. TypeOK' /\ Alone(m)
    BY <1>1, <2>2 DEF TypeOK, RequestSteps, Alone, Untouched
  <2>5. Counted(m)'
    BY <1>1, <2>2, <2>3 DEF TypeOK, Orderly, Counted
  <2>6. Locked(m)' /\ Stopped(m)'
    BY <1>1, <2>2, <2>3 DEF TypeOK, Orderly, Locked, Stopped, Shut, Works
  <2> QED BY <2>4, <2>5, <2>6 DEF Orderly
<1> QED BY <1>2, <1>3, <1>4, <1>5, <1>6 DEF Goroutine

\* The steps of main by which nothing is opened, closed or given back.
LEMMA WaitsKeep ==
    ASSUME Inductive, NEW m \in Managers,
           Signal(m) \/ ServeFails(m) \/ Drained(m) \/ DrainTimeout(m) \/ StopWorkers(m)
             \/ TasksEnded(m) \/ LoopEnded(m) \/ WaitTimeout(m)
    PROVE  TypeOK' /\ Alone(m) /\ Orderly(m)'
<1> USE DEF workers, Main
<1>1. TypeOK /\ Orderly(m)
  BY DEF Inductive
<1>2. UNCHANGED <<holder, db, workers>>
  BY DEF Signal, ServeFails, Drained, DrainTimeout, StopWorkers, TasksEnded, LoopEnded, WaitTimeout
<1>3. Counted(m)'
  BY <1>1, <1>2 DEF Orderly, Counted
<1>4. CASE Signal(m)
  BY <1>1, <1>2, <1>3, <1>4
  DEF Signal, TypeOK, MainSteps, Alone, Untouched, Orderly, Locked, Stopped, Shut, Works
<1>5. CASE StopWorkers(m)
  BY <1>1, <1>2, <1>3, <1>5
  DEF StopWorkers, TypeOK, MainSteps, Alone, Untouched, Orderly, Locked, Stopped, Shut, Works
<1>6. CASE ServeFails(m) \/ Drained(m) \/ DrainTimeout(m)
  BY <1>1, <1>2, <1>3, <1>6
  DEF ServeFails, Drained, DrainTimeout, TypeOK, MainSteps, Alone, Untouched, Orderly, Locked,
      Stopped, Shut, Works
<1>7. CASE TasksEnded(m)
  <2>1. tasks[m] = {}
    BY <1>1, <1>7, FS_EmptySet DEF TasksEnded, Orderly, Counted
  <2> QED
    BY <1>1, <1>2, <1>3, <1>7, <2>1
    DEF TasksEnded, TypeOK, MainSteps, Alone, Untouched, Orderly, Locked, Stopped, Shut, Works
<1>8. CASE LoopEnded(m) \/ WaitTimeout(m)
  BY <1>1, <1>2, <1>3, <1>8
  DEF LoopEnded, WaitTimeout, TypeOK, MainSteps, Alone, Untouched, Orderly, Locked, Stopped, Shut,
      Works
<1> QED BY <1>4, <1>5, <1>6, <1>7, <1>8

\* Taking the lock.
LEMMA StartsKeep ==
    ASSUME Inductive, NEW m \in Managers, Open(m) \/ OpenFails(m) \/ Finish(m)
    PROVE  TypeOK' /\ Alone(m) /\ Orderly(m)'
<1> USE DEF workers, Main
<1>1. TypeOK /\ Orderly(m) /\ main[m] = "off"
  BY DEF Inductive, Open, OpenFails, Finish
<1>2. tasks[m] = {} /\ ~Works(m) /\ Shut(m) /\ db[m] # "closed"
  BY <1>1 DEF Orderly, Locked, Stopped, Works
<1>3. UNCHANGED <<refusing, tasks, pending, request>>
  BY DEF Open, OpenFails, Finish
<1>4. Counted(m)'
  BY <1>1, <1>3 DEF Orderly, Counted
<1>5. CASE Open(m)
  BY <1>1, <1>2, <1>3, <1>4, <1>5
  DEF Open, TypeOK, MainSteps, Alone, Untouched, Orderly, Locked, Stopped, Shut, Works
<1>6. CASE OpenFails(m)
  BY <1>1, <1>2, <1>3, <1>4, <1>6
  DEF OpenFails, TypeOK, MainSteps, Alone, Untouched, Orderly, Locked, Stopped, Shut, Works
<1>7. CASE Finish(m)
  BY <1>1, <1>2, <1>3, <1>4, <1>7
  DEF Finish, TypeOK, MainSteps, Alone, Untouched, Orderly, Locked, Stopped, Shut, Works
<1> QED BY <1>5, <1>6, <1>7

\* Giving it back.
LEMMA EndsKeep ==
    ASSUME Inductive, NEW m \in Managers, CloseDatabase(m) \/ Unlock(m) \/ Exit(m) \/ Kill(m)
    PROVE  TypeOK' /\ Alone(m) /\ Orderly(m)'
<1> USE DEF workers, Main
<1>1. TypeOK /\ Orderly(m)
  BY DEF Inductive
<1>2. CASE CloseDatabase(m)
  BY <1>1, <1>2
  DEF CloseDatabase, TypeOK, MainSteps, Alone, Untouched, Orderly, Counted, Locked, Stopped, Shut,
      Works
<1>3. CASE Unlock(m)
  BY <1>1, <1>3
  DEF Unlock, TypeOK, MainSteps, Alone, Untouched, Orderly, Counted, Locked, Stopped, Shut, Works
<1>4. CASE Exit(m) \/ Kill(m)
  <2>1. Gone(m) /\ main[m] # "off"
    BY <1>4 DEF Exit, Kill
  <2>2. /\ main'[m] = "exited" /\ accepting'[m] = FALSE /\ loop'[m] = "none" /\ tasks'[m] = {}
        /\ pending'[m] = 0 /\ \A r \in Requests : request'[m][r] = "ended"
        /\ db' = db
    BY <1>1, <2>1 DEF Gone, TypeOK
  <2>3. TypeOK'
    BY <1>1, <2>1 DEF Gone, TypeOK, MainSteps, RequestSteps
  <2>4. Alone(m)
    BY <1>1, <2>1 DEF Gone, TypeOK, Alone, Untouched
  <2>5. Counted(m)'
    BY <2>2, FS_EmptySet DEF Counted
  <2>6. Locked(m)' /\ Stopped(m)'
    BY <2>2 DEF Locked, Stopped, Shut, Works
  <2> QED BY <2>3, <2>4, <2>5, <2>6 DEF Orderly
<1> QED BY <1>2, <1>3, <1>4

-----------------------------------------------------------------------------
LEMMA InitInductive == Init => Inductive
<1> SUFFICES ASSUME Init PROVE Inductive
  OBVIOUS
<1>1. TypeOK
  BY DEF Init, TypeOK, MainSteps, RequestSteps
<1>2. ASSUME NEW m \in Managers PROVE Orderly(m)
  BY FS_EmptySet DEF Init, Orderly, Counted, Locked, Stopped, Shut, Works
<1> QED BY <1>1, <1>2 DEF Inductive

LEMMA NextInductive == Inductive /\ [Next]_vars => Inductive'
<1> SUFFICES ASSUME Inductive, [Next]_vars PROVE Inductive'
  OBVIOUS
<1>1. ASSUME NEW m \in Managers, TypeOK', Alone(m), Orderly(m)'
      PROVE  Inductive'
  <2>1. ASSUME NEW n \in Managers PROVE Orderly(n)'
    BY <1>1, OthersStayOrderly
  <2> QED BY <1>1, <2>1 DEF Inductive
<1>2. CASE Next
  <2>1. PICK m \in Managers :
          \/ Open(m) \/ OpenFails(m) \/ Finish(m)
          \/ Goroutine(m)
          \/ Signal(m) \/ ServeFails(m) \/ Stopping(m) \/ Kill(m)
    BY <1>2 DEF Next
  <2>2. TypeOK' /\ Alone(m) /\ Orderly(m)'
    BY <2>1, StartsKeep, GoroutinesKeep, WaitsKeep, EndsKeep DEF Stopping
  <2> QED BY <1>1, <2>2
<1>3. CASE UNCHANGED vars
  <2>1. TypeOK'
    BY <1>3 DEF vars, Inductive, TypeOK
  <2>2. ASSUME NEW n \in Managers PROVE Orderly(n)'
    BY <1>3 DEF vars, Inductive, Orderly, Counted, Locked, Stopped, Shut, Works
  <2> QED BY <2>1, <2>2 DEF Inductive
<1> QED BY <1>2, <1>3

\* What the order of a shutdown rests on holds at every moment of every manager:
\* who works has the lock, the wait group counts the tasks that run, and past
\* the wait for them none can begin.
THEOREM Invariance == Spec => []Inductive
BY InitInductive, NextInductive, PTL DEF Spec

\* The manager's steps are type correct: in particular the counter of the wait
\* group never goes below zero (sync.WaitGroup would panic).
THEOREM TypeCorrectness == Spec => []TypeOK
<1>1. Inductive => TypeOK
  BY DEF Inductive
<1> QED BY <1>1, Invariance, PTL

\* However many processes are started on a data directory, and however they are
\* shut down or killed, only one has a maintenance loop or creation tasks.
THEOREM OnlyOneWorks == Spec => []OneManagerWorks
<1>1. Inductive => OneManagerWorks
  BY DEF Inductive, Orderly, Locked, OneManagerWorks
<1> QED BY <1>1, Invariance, PTL

\* A process that has closed its database has no worker and never begins one.
THEOREM WorkersEnd == Spec => []WorkersEndFirst
<1>1. Inductive => WorkersEndFirst
  BY DEF Inductive, Orderly, Stopped, WorkersEndFirst
<1> QED BY <1>1, Invariance, PTL
=============================================================================
