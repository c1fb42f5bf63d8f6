------------------------------- MODULE Process -------------------------------
(***************************************************************************)
(* The manager as a process (cmd/manager/main.go): taking the lock on the  *)
(* data directory, serving, and the order in which a shutdown stops the    *)
(* HTTP server, the creation tasks (Service.Shutdown), the maintenance     *)
(* loop and the database. Several processes may be started on one data     *)
(* directory; each member of Managers is started once.                     *)
(*                                                                         *)
(* What goroutines do meanwhile is Instances, Accounts and Media; here they *)
(* only run and end. A deadline may pass whenever somebody waits for it.   *)
(***************************************************************************)
EXTENDS Integers

CONSTANTS
    Managers,   \* processes
    Requests,   \* HTTP requests a process receives
    None        \* nobody holds the lock

ASSUME NobodyAssumption == None \notin Managers

MainSteps == {"off", "serving", "draining", "stopping", "awaitTasks", "awaitLoop",
              "closing", "unlocking", "leaving", "exited"}

\* active: the handler runs. answering: it spawned a task, or was refused one,
\* and returns. detached: a hijacked WebSocket or the goroutine of a media lease,
\* which the HTTP server does not wait for.
RequestSteps == {"none", "active", "answering", "detached", "ended"}

VARIABLES
    main,       \* run()
    accepting,  \* the HTTP server takes requests on its connections
    holder,     \* the holder of manager.lock
    db,         \* the process's handle on the database
    cancelled,  \* appCtx
    refusing,   \* Service.closing
    loop,       \* StartMaintenance: reconciling or waiting for the ticker
    tasks,      \* creation tasks that run, named after their requests
    pending,    \* the counter of the wait group backgroundTasks
    request

vars == <<main, accepting, holder, db, cancelled, refusing, loop, tasks, pending, request>>
workers == <<loop, tasks, pending, request>>
process == <<main, accepting, holder, db, cancelled, refusing>>

TypeOK ==
    /\ main \in [Managers -> MainSteps]
    /\ accepting \in [Managers -> BOOLEAN]
    /\ holder \in Managers \cup {None}
    /\ db \in [Managers -> {"none", "open", "closed"}]
    /\ cancelled \in [Managers -> BOOLEAN]
    /\ refusing \in [Managers -> BOOLEAN]
    /\ loop \in [Managers -> {"none", "reconciling", "waiting", "ended"}]
    /\ tasks \in [Managers -> SUBSET Requests]
    /\ pending \in [Managers -> Nat]
    /\ request \in [Managers -> [Requests -> RequestSteps]]

Main(m, from, to) == main[m] = from /\ main' = [main EXCEPT ![m] = to]

----------------------------------------------------------------------------
(* Start.                                                                  *)

\* (Seeded fault: the file is opened but not locked.)
OpenUnlocked(m) ==
    /\ Main(m, "off", "serving")
    /\ accepting' = [accepting EXCEPT ![m] = TRUE]
    /\ holder' = m
    /\ db' = [db EXCEPT ![m] = "open"]
    /\ loop' = [loop EXCEPT ![m] = "reconciling"]
    /\ UNCHANGED <<cancelled, refusing, tasks, pending, request>>

\* NewLocked, migration and initialisation; then the maintenance loop starts.
Open(m) ==
    /\ holder = None
    /\ Main(m, "off", "serving")
    /\ accepting' = [accepting EXCEPT ![m] = TRUE]
    /\ holder' = m
    /\ db' = [db EXCEPT ![m] = "open"]
    /\ loop' = [loop EXCEPT ![m] = "reconciling"]
    /\ UNCHANGED <<cancelled, refusing, tasks, pending, request>>

\* Somebody else has the lock.
OpenFails(m) ==
    /\ holder # None
    /\ Main(m, "off", "exited")
    /\ UNCHANGED <<accepting, holder, db, cancelled, refusing, workers>>

\* The process was to migrate only, or fails before the loop starts: deferred
\* functions close the database.
Finish(m) ==
    /\ holder = None
    /\ Main(m, "off", "closing")
    /\ holder' = m
    /\ db' = [db EXCEPT ![m] = "open"]
    /\ UNCHANGED <<accepting, cancelled, refusing, workers>>

----------------------------------------------------------------------------
(* Goroutines.                                                             *)

Turn(m, r, from, to) ==
    /\ request[m][r] \in from
    /\ request' = [request EXCEPT ![m][r] = to]

Accept(m, r) ==
    /\ accepting[m]
    /\ Turn(m, r, {"none"}, "active")
    /\ UNCHANGED <<process, loop, tasks, pending>>

\* (Seeded faults: a task is begun although the service shuts down; it is not
\* added to the wait group.)
BeginTaskAnyway(m, r) ==
    /\ Turn(m, r, {"active"}, "answering")
    /\ tasks' = [tasks EXCEPT ![m] = @ \cup {r}]
    /\ pending' = [pending EXCEPT ![m] = @ + 1]
    /\ UNCHANGED <<process, loop>>
BeginTaskUncounted(m, r) ==
    /\ Turn(m, r, {"active"}, "answering")
    /\ tasks' = [tasks EXCEPT ![m] = IF refusing[m] THEN @ ELSE @ \cup {r}]
    /\ UNCHANGED <<process, loop, pending>>

\* beginBackgroundTask looks at closing and adds to the wait group under one mutex.
BeginTask(m, r) ==
    /\ Turn(m, r, {"active"}, "answering")
    /\ \/ refusing[m] /\ UNCHANGED <<tasks, pending>>
       \/ /\ ~refusing[m]
          /\ tasks' = [tasks EXCEPT ![m] = @ \cup {r}]
          /\ pending' = [pending EXCEPT ![m] = @ + 1]
    /\ UNCHANGED <<process, loop>>

\* A task ends with backgroundTasks.Done.
EndTask(m, r) ==
    /\ r \in tasks[m]
    /\ tasks' = [tasks EXCEPT ![m] = @ \ {r}]
    /\ pending' = [pending EXCEPT ![m] = @ - 1]
    /\ UNCHANGED <<process, loop, request>>

Detach(m, r) ==
    /\ Turn(m, r, {"active"}, "detached")
    /\ UNCHANGED <<process, loop, tasks, pending>>

EndRequest(m, r) ==
    /\ Turn(m, r, {"active", "answering", "detached"}, "ended")
    /\ UNCHANGED <<process, loop, tasks, pending>>

Loop(m, from, to) ==
    /\ loop[m] = from
    /\ loop' = [loop EXCEPT ![m] = to]
    /\ UNCHANGED <<process, tasks, pending, request>>

\* ReconcileOnce returns, early if its context was cancelled.
LoopRests(m) == Loop(m, "reconciling", "waiting")

\* The select of StartMaintenance takes a waiting tick even when cancelled.
LoopTicks(m) == Loop(m, "waiting", "reconciling")
LoopEnds(m)  == cancelled[m] /\ Loop(m, "waiting", "ended")

----------------------------------------------------------------------------
(* Shutdown.                                                               *)

\* SIGINT or SIGTERM: cancelApp, then srv.Shutdown, which closes the listener.
Signal(m) ==
    /\ Main(m, "serving", "draining")
    /\ accepting' = [accepting EXCEPT ![m] = FALSE]
    /\ cancelled' = [cancelled EXCEPT ![m] = TRUE]
    /\ UNCHANGED <<holder, db, refusing, workers>>

\* srv.Shutdown returns when no handler runs, or after ten seconds with an error.
\* A server that fails by itself is not shut down: it goes on serving the
\* connections it has.
Drained(m) ==
    /\ \A r \in Requests : request[m][r] \notin {"active", "answering"}
    /\ Main(m, "draining", "stopping")
    /\ UNCHANGED <<accepting, holder, db, cancelled, refusing, workers>>

DrainTimeout(m) ==
    /\ Main(m, "draining", "stopping")
    /\ UNCHANGED <<accepting, holder, db, cancelled, refusing, workers>>

ServeFails(m) ==
    /\ Main(m, "serving", "stopping")
    /\ UNCHANGED <<accepting, holder, db, cancelled, refusing, workers>>

\* shutdownBackground: cancel, then Service.Shutdown.
StopWorkers(m) ==
    /\ Main(m, "stopping", "awaitTasks")
    /\ cancelled' = [cancelled EXCEPT ![m] = TRUE]
    /\ refusing' = [refusing EXCEPT ![m] = TRUE]
    /\ UNCHANGED <<accepting, holder, db, workers>>

TasksEnded(m) ==
    /\ pending[m] = 0
    /\ Main(m, "awaitTasks", "awaitLoop")
    /\ UNCHANGED <<accepting, holder, db, cancelled, refusing, workers>>

LoopEnded(m) ==
    /\ loop[m] = "ended"
    /\ Main(m, "awaitLoop", "closing")
    /\ UNCHANGED <<accepting, holder, db, cancelled, refusing, workers>>

\* (Seeded fault: main waits for the tasks without a deadline.)
WaitTimeoutLoopOnly(m) ==
    /\ Main(m, "awaitLoop", "leaving")
    /\ UNCHANGED <<accepting, holder, db, cancelled, refusing, workers>>

\* After fifteen seconds main leaves without closing the database.
WaitTimeout(m) ==
    /\ Main(m, "awaitTasks", "leaving") \/ Main(m, "awaitLoop", "leaving")
    /\ UNCHANGED <<accepting, holder, db, cancelled, refusing, workers>>

\* Store.Close: the handle, then the lock.
CloseDatabase(m) ==
    /\ Main(m, "closing", "unlocking")
    /\ db' = [db EXCEPT ![m] = "closed"]
    /\ UNCHANGED <<accepting, holder, cancelled, refusing, workers>>

Unlock(m) ==
    /\ Main(m, "unlocking", "leaving")
    /\ holder' = None
    /\ UNCHANGED <<accepting, db, cancelled, refusing, workers>>

\* The process ends, by itself or killed: its goroutines and its lock are gone.
Gone(m) ==
    /\ main' = [main EXCEPT ![m] = "exited"]
    /\ accepting' = [accepting EXCEPT ![m] = FALSE]
    /\ holder' = IF holder = m THEN None ELSE holder
    /\ loop' = [loop EXCEPT ![m] = "none"]
    /\ tasks' = [tasks EXCEPT ![m] = {}]
    /\ pending' = [pending EXCEPT ![m] = 0]
    /\ request' = [request EXCEPT ![m] = [r \in Requests |-> "ended"]]
    /\ UNCHANGED <<db, cancelled, refusing>>

Exit(m) == main[m] = "leaving" /\ Gone(m)
Kill(m) == main[m] \notin {"off", "leaving", "exited"} /\ Gone(m)

----------------------------------------------------------------------------
Init ==
    /\ main = [m \in Managers |-> "off"]
    /\ accepting = [m \in Managers |-> FALSE]
    /\ holder = None
    /\ db = [m \in Managers |-> "none"]
    /\ cancelled = [m \in Managers |-> FALSE]
    /\ refusing = [m \in Managers |-> FALSE]
    /\ loop = [m \in Managers |-> "none"]
    /\ tasks = [m \in Managers |-> {}]
    /\ pending = [m \in Managers |-> 0]
    /\ request = [m \in Managers |-> [r \in Requests |-> "none"]]

Stopping(m) ==
    \/ Drained(m) \/ DrainTimeout(m) \/ StopWorkers(m) \/ TasksEnded(m) \/ LoopEnded(m)
    \/ WaitTimeout(m) \/ CloseDatabase(m) \/ Unlock(m) \/ Exit(m)

Goroutine(m) ==
    \/ LoopRests(m) \/ LoopTicks(m) \/ LoopEnds(m)
    \/ \E r \in Requests : \/ Accept(m, r) \/ BeginTask(m, r) \/ EndTask(m, r)
                           \/ Detach(m, r) \/ EndRequest(m, r)

Next == \E m \in Managers :
    \/ Open(m) \/ OpenFails(m) \/ Finish(m)
    \/ Goroutine(m)
    \/ Signal(m) \/ ServeFails(m) \/ Stopping(m) \/ Kill(m)

Spec == Init /\ [][Next]_vars

\* main runs and its deadlines pass. Nothing is assumed of handlers, tasks or the
\* loop, any of which may hang.
Fairness == \A m \in Managers : WF_vars(Stopping(m))

FairSpec == Spec /\ Fairness

----------------------------------------------------------------------------
(* Properties                                                              *)

Works(m) == loop[m] \in {"reconciling", "waiting"} \/ tasks[m] # {}

\* Two managers never reconcile the same instances, in any order of starts,
\* shutdowns, timeouts and kills: whoever has a loop or a task still has the lock
\* (store.go:38-40).
OneManagerWorks ==
    \A m, n \in Managers : Works(m) /\ Works(n) => m = n

\* Once a process has closed its database, no worker of it is left and none
\* begins, though handlers that could begin one may still run.
WorkersEndFirst == \A m \in Managers : db[m] = "closed" => ~Works(m)

\* A shutdown always comes to its end, whoever hangs: nothing that main waits for
\* is without a deadline.
ShutdownEnds ==
    \A m \in Managers : (main[m] \notin {"off", "serving", "exited"}) ~> (main[m] = "exited")
=============================================================================
