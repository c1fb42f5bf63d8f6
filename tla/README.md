# RemoteBrowser in TLA+

RemoteBrowser gives each user persistent browser instances: a Go manager keeps accounts
and instances in SQLite, runs one Docker container per instance with its own network and
bind-mounted directories, and proxies the container's desktop, media, input and files.
This directory holds TLA+ models of the manager, of two services inside the instance and of
the session page, TLC configurations that check them, and TLAPS proofs about them. Source
paths below are relative to `src/`.

## The system

| Component | State | Operations | Talks to |
|---|---|---|---|
| Instance service `internal/session/service.go` | per-user locks, background tasks, `closing`, connection counts | create, start, stop, delete instance; delete user; upload lock; open/close connection; shutdown | stores, Docker, data directory |
| Maintenance loop `internal/session/reaper.go` | none of its own; `recovery_attempts`, `recovery_next_at` in the row | every 15 s: finish deletions, then reconcile every instance with its container | instance service, Docker |
| Instance tables `internal/store/sessions.go` | `sessions`, `instance_requests`, events, files | insert within quota, update state, update recovery, delete | SQLite |
| Account tables `internal/store/users.go` | `users`, `login_sessions`, mail and audit records | status, quota, password with version, deletion | SQLite |
| Database `internal/store/store.go`, `migrations.go` | file lock, schema version | open, migrate, close | file system |
| Docker client `internal/docker/client.go` | `networkMu` | inspect, create, start, stop, remove; instance networks | Docker daemon |
| Auth `internal/auth` | rate windows; tables above | log in, validate, change and reset passwords, deliver credentials | account tables, mail |
| Access guard `internal/httpapi/access.go` | one goroutine per request and per media lease | re-authenticate every 2 s, revoke, renew leases | auth, WebRTC service |
| HTTP handlers, proxies `internal/httpapi`, `internal/proxy` | none | map requests to services; count connections | all services |
| WebRTC service `docker/session/webrtc-service` | peers with leases, shared ffmpeg pipeline and its tracks | offer, lease renewal and expiry, start/stop pipeline | manager, ffmpeg |
| Input service `docker/session/input-service` | pending mouse position, wheel sums, clipboard lock | mouse, wheel, key, text, clipboard messages | xdotool |
| Session page `web/static/js/session.js` | input socket, peer connection, sound, timers | connect, reconnect, switch between WebRTC and noVNC, pointer throttle | WebRTC and input services through the manager |
| Manager process `cmd/manager/main.go` | lock on the data directory, HTTP server, contexts | start, serve, drain, stop workers, close the database | all of the above |
| File service, mail, config, views, image scripts | none or local | pass-through I/O, parsing, rendering | |

How they interact. A request goroutine takes its user's lock (`lockUserContext` polls
`TryLock`), reads the row again and then makes a sequence of store, Docker and file system
calls, each of which can fail, time out or be the last before the process dies. A creation
request inserts the row, makes directories and leaves the rest to a background task, which
queues for the same lock after the request has returned. The maintenance loop runs the same
functions from its own goroutine. `MarkUserDeleting`, `SetUserStatus` and `UpdateUserQuota`
commit without any user lock. Docker restarts, loses and reports on containers at any time,
and a new manager, perhaps configured differently, finds whatever the last one left.

What is hard, and what correctness means per component (line by line in `PROJECT.json`,
"hazards"):

* instances: nothing Docker or the disk holds is ever without its row; a failure recorded
  late never overrules a newer stop or deletion; outages are no evidence; data goes last;
  recovery is bounded across crashes; every deletion completes; request keys are spent once;
* accounts: a password change revokes every older login, for good; concurrent changes do not
  undo one another; nobody gets in between two reads; no password is announced that was lost;
* media: access ends within a bound after revocation; a renewed lease is not expired; the
  pipeline runs exactly while a peer needs it;
* connections: counts balance, and everything ends after a revocation;
* input: a click lands where the last move before it pointed, but for the two races below,
  and a button does not stick while nothing of its page is lost;
* page: exactly one attempt to reconnect is under way, late answers of old connections change
  nothing, sound plays once;
* process: one manager works on a data directory, its workers end before its database is
  closed, and a shutdown ends although anything may hang.

## Modules

| Module | What it is |
|---|---|
| `Instances` | the life cycle of instances and the deletion of accounts: every handler of the instance service and the maintenance loop, call by call; its properties |
| `InstancePromise` | the abstract specification: what an owner is promised about an instance |
| `InstancesPromise` | the refinement mapping from `Instances` to `InstancePromise` |
| `InstancesInvariant` | `Inductive`: what a handler knows at each of its steps |
| `InstancesProofs`, `InstancesStepProofs`, `InstancesOrderProofs` | TLAPS proofs about `Instances`: the inductive invariant; what its steps keep and the refinement; the two invariants on top of it |
| `MCInstances` | the bounds of TLC's runs and the symmetry |
| `Accounts`, `MCAccounts`, `AccountsProofs` | passwords, logins, credentials by mail, administrators; proofs |
| `Media`, `MediaProofs` | WebRTC service, media leases, guarded WebSockets, connection counts, with a clock; proofs |
| `Input`, `MCInput`, `InputProofs` | from the page's pointer throttle through the input service to xdotool; proofs |
| `Page`, `PageProofs` | the session page's connections: input, picture, sound; proofs |
| `Process`, `ProcessProofs` | the manager as a process: lock, serving, shutdown, kill; proofs |

The modules divide the system so that what interacts closely is in one of them, and meet at
narrow places: `Accounts` decides whether a login is valid, which `Media` takes as one fact
with a moment at which it ends and `Instances` as the account's status; `Process` says when
the goroutines that the others describe may run. Each module also holds its seeded faults,
definitions marked as such that no specification uses: small mistakes in the code's place,
one or more for each property, with which the property is tested (PROJECT.json, "mutants").

### How `Instances` corresponds to the code

* `user`, `quota`, `row`, `request` are the tables; a row's `err` stands for "`last_error`
  is not empty", `wait` for "`recovery_next_at` lies in the future". `cont`, `madeBy`, `net`
  are Docker's containers, the deployment label each carries, and the instance networks by
  deployment; `dirs` the data directories. `lock`, `tasks`, `sweep`, `closing`,
  `deployment` are the manager's memory. `pc`, `job`, `sess`, `seen`, `todo`, `failed` are
  each goroutine's program counter and local variables; `sess` is the handler's own copy of
  the row, of which every failure it records takes the desired state.
* One action is one call to the store, Docker or the disk together with the computation up
  to the next call: `startLocked` is `MarkStarting`, `StartInspect`, then either
  `StartIsolate`, `StartRestop`, `BootContainer` or `CheckDirectories`, `EnsureNetwork`,
  `BuildContainer`, `BootContainer`, and last `AwaitHealthy` and `MarkRunning`.
  `stopLocked`, `deleteLocked`, `DeleteUser` and `reconcileLocked` are laid out alike.
  Between two actions of one handler anything else may happen, a crash included.
* `Fault` is a call that fails or a context that ends. A failing Docker call has taken its
  effect or not (both are tried); a failing inspection yields `unknown`, any other `error`,
  as in the code. `Cancelled` is a context that ends in front of a store call, whose
  handler returns without recording anything; `recordFailure` itself uses
  `context.WithoutCancel` and is not cancelled.
* `Restart` is a shutdown that finished or a crash, and the next manager: it forgets all
  memory and may pick another deployment. `Shutdown` alone sets `closing`: no new request
  or task, and every call may fail.
* `dirs` distinguishes `blank` directories: Docker creates the missing sources of a
  container's bind mounts, and `prepareDirectories` cannot tell them from the real ones.
* `issued` and `auto` are history: the identifiers handed out, and the automatic starts
  since the recovery budget was last renewed. `budget` bounds what the outside does.

### How `InstancePromise` is kept

`InstancePromise` knows of each instance only `wish` (what was decided), `runs` and `data`.
Decisions stand until the next one, a deletion is final, the browser starts only while it is
meant to run, data is made while the instance is kept and erased only after a deletion when
the browser is down, and the record goes last. `InstancesPromise` maps `wish` to the row's
desired state (and to "gone" or "none" without a row), `runs` to the container's state and
`data` to the directory. Locks, tasks, the status an owner sees, failures and restarts do
not appear: they are how the promise is kept.

### How `Accounts` corresponds to the code

* One action is one SQL statement or transaction of `store/users.go` with the computation up
  to the next one. `LoginRead`, `LoginInsert` are `Login`; `AuthRead`, `AuthCheck` are
  `ValidateToken`, which reads the account and the login in two statements; `ChangeRead` and
  `ResetRead` read the row, and after the hashing `Swap` compares and sets the version;
  `MarkDelivery`, `Send`, `Record` follow a reset or a new account.
* A password stands for its hash, a token for its nonce; `claim` is what the token's
  signature covers. `author`, `mails` and `wasSet` are history.
* `SetPassword` and `SetStatus` increment the version, as each statement in the source does.
* `Interrupt` ends a request anywhere: a failing statement, an ended context or a crash. The
  rate limiter may refuse any request before its first step, which changes nothing here.
* The administrators' own logins are not tied to what they do.

### How `Media` corresponds to the code

* `offer` and `conn` are `handleOffer`'s progress and the peer connection; `tracks`,
  `encoding` the broadcaster; `doomed` what `expireLeases` collected under the mutex and has
  still to close; `left` the time until the sweep that finds the lease expired.
* `mgr`, `due`, `tick` are the manager's goroutine for a peer (`maintainMediaLease`), what
  its call may still take, and its ticker; `counted`, `count` the connection counts.
* `sock`, `cut` are the handler of a WebSocket request and its `guardedWriter`, between whose
  `Hijack` and the assignment of the connection a revocation may come.
* `Tick` is a second. It waits for nobody but deadlines: whoever has used up its time
  (`Urgent`) must act first. Everything else happens at any time before.
* One login, valid until revoked; one running instance, which is not deleted meanwhile.
* Peers that are not watched have no clock: once listed they may go at any moment, which
  covers whatever their lease and manager do. They matter for the encoders all peers share.
* `ManagerDies` loses the goroutine of a peer with its count, as a crash does.

### How `Input` corresponds to the code

* A pointer event goes through the page's throttle (`queued`, `resting`) into the socket
  (`channel`), to the connection's handler (`job`), into `mouseMoveAccumulator` (`pending`)
  or `wheelAccumulator` (`wheel`), which all connections share. Their tickers take
  (`ticking`, `turning`) under the mutex and deliver to xdotool (`pointer`, `button`) later.
* A button event takes the pending move, then moves, then presses, in three steps: a ticker
  may have taken a move before, and may make it between any two of them (`Overtaken`).
* A page that reconnects is another member of `Pages`. One button; wheel messages of the size
  the page sends. `sent`, `turned`, `owed`, `lost` and a job's `overtaken` are history.

### How `Page` corresponds to the code

* `page` is the part of `sessionPageData` its connections depend on. The page is one thread,
  so a function of it maps the record to the next (`StopWebRTC`, `StartInput`, ...) and an
  action is one handler, answer or timer: it runs to its next `await`.
* `calls`, `plays`, `late`, `checks` are what has been started and will come back, in any
  order, perhaps after the user has switched. `link` is each peer connection as the browser
  has it.
* A window without `RTCPeerConnection` and the page's end (`destroy`) are left out.

### How `Process` corresponds to the code

* `main` is the progress of `run()` and its deferred functions; `holder` holds
  `manager.lock`; `cancelled` is `appCtx`, `refusing` `Service.closing`, `pending` the wait
  group. What the maintenance loop, tasks and handlers do is in the other modules; here they
  run and end, or hang. `detached` is a hijacked WebSocket or a media lease's goroutine.
* Each member of `Managers` is started once, so a restart is another member. A kill at any
  step releases the lock, as the operating system does.
* A deadline may pass whenever somebody waits for it.

### Simplifications in `Instances`

* Identifiers are never issued twice (random, unique in the table).
* Administrator accounts, which cannot be deleted or disabled, are not modelled.
* `MigrateWithDefaults` never leaves `desired_state` empty, so the branch of
  `reconcileLocked` for it (`reaper.go:77-89`) is not modelled. Legacy rows carry one status
  per derived desired state.
* A Docker call that returned an error takes effect by then or never. A container without a
  healthcheck reads as healthy, as in the code.
* `recordFailure` and `SetUserDeletionError` succeed: a database that fails there leaves the
  row as a crash at that point would.
* The manager's own attachment to networks and the shared bridges are not in `net`.
* Docker's own restarts of a container do not turn `lost` directories `blank`; the
  manager's do.

## Runs

All runs use the specifications as they are. None checks deadlock: each system may rest, a
manager that has shut down, users and faults whose bound is used up. Type invariants are
checked by `crash`, `input`, `page` and `process`, and proved for all six systems.

| Run | Bounds | Asks |
|---|---|---|
| `crash` | 1 user, 1 instance, 1 worker and the loop, 2 deployments; 2 requests without a key, 1 failing call, 1 shutdown or crash | type; no orphaned container or directory; data removed last; only the deployment's own containers touched; the promise kept |
| `outage` | a migrated instance, 1 request, 2 failing calls, 1 exit or health change, 1 loss of data, 2 recovery attempts | status against intent, confirmed stops, bounded recovery, no leaked network, irrevocable deletion |
| `race` | 2 workers and the loop, 3 requests with a key, 1 decision of an administrator (disable, or a quota of 0 or 1); workers symmetric | ownership of rows, uploads, wanted starts, respected stops, spent keys |
| `live` | fair; a migrated instance, 1 request, 1 failing call, 1 crash | deletions of instances and accounts complete |
| `accounts` | the administrator and one user, 2 passwords, 2 tokens, 2 threads, mail configured, 4 requests; symmetric | logins know the password, revocation is final, only owners get in, concurrent changes, mailed passwords |
| `media` | fair; a watched peer, another peer, one WebSocket, all times scaled down | encoders serve peers, access ends in time, renewed leases last, counts balance, everything ends |
| `input` | 2 pages, 2 positions, 3 user events, 1 failing call, at most 1 wheel step per turn; symmetric | buttons act where aimed but in the two windows the ticker leaves, and are released unless an event of their page is lost; the last aim is sent, clicks are asked for |
| `page` | fair; 3 peer connections, 4 clicks, 2 faults, the instance may be deleted | one attempt at a time, only the current peer is shown, the input settles |
| `process` | fair; 2 managers, 2 requests each, kills, a failing server, any deadline may pass | one manager works, workers end before the database, shutdowns end |
| `unknown` | fair; a migrated instance, 1 failing call, 2 exits, no request | finding: `unknown` for ever |
| `data` | a migrated instance, 1 exit, 1 request | finding: a start on lost data |
| `overlap` | 3 peer connections, 4 clicks, no fault | finding: two sounds at once |

Why these bounds are enough to be of use. `Instances`: instances of different users share
nothing but the maintenance loop and the tables, instances of one user share its lock, so
one instance with two workers and the loop already has every pair of handlers in every
order, and a third request lets one handler's leftovers meet two later ones (`race`). An
administrator who disables the account comes between any two of their steps. `crash`
places the crash at every step of every handler and lets the next manager, perhaps under
another deployment, find what is left, with one more failure before or after it. What
needs several instances (the lists `DeleteUser` and the sweep work through, quotas above
one) is left to the proofs, which hold for any number. Each trouble is also the sole
trouble of some behaviour, so that a property cannot hold by failing calls crowding out
the interesting case; the seeded faults (`...Unlocked`, `...ForgetsIntent` and so on, one
or more per property) show each run reaches the states its properties are about.

`Accounts`: two threads give every pair of requests in every order, and four requests allow
two logins before a race and a third decision after it; with two passwords an old password
can come back, the case in which comparing passwords instead of versions would fail.
`Media`: with two peers one can be first or last at the encoders while the other is at any
step of its offer. The scaled times (tick, authentication, call, opening and sweep 1, lease
5, grace 3, gathering 2; in the code 2, 1, 2, assumed 1, 1, 8, 15, 10) satisfy the same
inequalities (`TimingAssumption`), and the proofs need nothing else, so they hold for the
code's times. `Input`: a move, a press and a release are three events; a second page shows
the shared accumulators; faults and disconnections fall between any of them. `Page`: three
peer connections are the current one, one replaced before its answer came and one before
that. `Process`: the second manager is the next one, started while the first shuts down; two
requests are one that has begun a task and one that is about to.

Fairness (`FairSpec`). `Instances`, for the run `live` and the finding `unknown`: a handler that was
submitted goes on to its next step: goroutines are scheduled, and its calls return.
`SweepStep`: `StartMaintenance` fires every 15 s. `BackoffElapses`: time passes. A manager
that is shutting down is started again: the compose file restarts it. Two of these are
assumptions about the environment, which nothing in the code guarantees:

* Calls to Docker, the store and the disk return, well or not. Only the creation task has a
  deadline (90 s). The maintenance loop runs under `appCtx`, which has none
  (`main.go:145-149`), the Docker client has no timeout (`client.go:25`), and handlers pass
  the request's context on. A Docker call that never answers would hold the loop, and with
  it every deletion left over, for ever; `DeletionCompletes` and `UserDeletionCompletes` say
  nothing of that case.
* `lockUserContext` has no queue: a waiting handler is assumed to win at last because
  requests are finite in the model, which is an assumption about load.

Nothing is assumed of requests, failures or administrators; a failing call is an action
without fairness, and after the bounded failures calls work.

`Media`: one weak fairness on `Progress`, the steps of goroutines that wait for nobody, and
the clock: goroutines are scheduled and time passes. The deadlines make the calls return.
Offers, revocation and deaths of the manager are never assumed. `Page`: weak fairness on
`Input`: connections open or fail, fetches return and timers fire; breaking is bounded, since
an input that breaks for ever never settles. `Process`: weak fairness of the steps of each
`main`, whose every wait has a deadline (10 s and 15 s); nothing is assumed of handlers,
tasks or the loop.

### Findings

* `UnknownIsTemporary`: TECH-SPEC.md:388 promises that `unknown` is followed by a check of
  the actual state. With the recovery budget spent and the container not running, an
  inspection that failed once leaves `unknown` with an error, and the later sweeps that do
  reach Docker return at `reaper.go:152-155` without writing.
* `StartsHaveTheirData`: PRD-MULTIUSER-PERSISTENT-INSTANCES.md:246 and :253 promise that a
  start uses the original data and never silently an empty profile. `startLocked` checks the
  directories only on the path that creates a container; an existing one that exited is
  started without the check (`service.go:330-331`), and Docker makes the missing mounts.
* `SoundsNeverOverlap`: session.js:592 says that a PCM stream must never overlap the WebRTC
  sound. While WebRTC is connecting, the sound button starts the PCM stream
  (`session.js:713`); the track that then arrives is not muted (`session.js:607`), and both
  play.

### Known weaknesses without a property

Read from the code while modelling; each is outside a model's bounds or no promise of the
source is broken.

* The database can be closed while a handler still uses it: `srv.Shutdown` gives handlers ten
  seconds and does not wait for hijacked sockets, a failing server is not drained at all
  (`main.go:206-218`), and media leases run under `context.Background()`
  (`handlers.go:388`). `Process` reaches these states. Workers have ended by then; what is
  lost is a disconnection, a last-active time or a recorded failure.
* The delivery status of a slow older mail overwrites that of a newer one
  (`accounts.go:288`).
* A revoked peer is closed in ten seconds only while the manager's goroutine lives; if that
  died or its DELETE was lost, the lease has to run out (`Limit`, 12 s).
* An encoder or a forwarder that dies is not noticed while peers stay (webrtc-service
  `main.go:524`).
* A click can land at an old position, with one page and no failure (`main.go:369-374`
  against `main.go:455-471`). The handler of the button flushes only what is pending; a move
  the ticker has taken and not yet passed to xdotool is made after the click. Or the ticker
  holds an older move while the handler makes the button's own: the older one then comes
  between that move and the press, and the pointer stays there. `ButtonsActWhereAimed` names
  exactly these two windows, and no text of the repository promises that there are none.
* A button whose release is lost stays down, whether the connection breaks or the xdotool
  call fails (`main.go:369-380`); nothing releases it later. `ButtonsAreReleased` excepts it.
* In the page: a button is not released if `usingWebRTCInput` turns false first
  (`session.js:323-329`), nor a key when an input method begins; the clipboard's text counts
  as sent before it was sent, and its answers may come in another order.

## What is proved

TLAPS proves for every set of users, instances, workers, deployments, keys, passwords,
tokens, threads, peers, sockets, pages, positions, connections, managers and requests, for
every quota, bound, number of attempts and time that
the assumptions allow, with any number of failures and crashes:

| Module | Theorem | States |
|---|---|---|
| `InstancesProofs` | `Invariance` | `Spec => []Inductive` |
| | `TypeCorrectness` | `Spec => []TypeOK` |
| | `NothingIsOrphaned` | `Spec => []NoOrphanResources` |
| | `RowsAreOwned` | `Spec => []HandlerOwnsItsRow` |
| `InstancesStepProofs` | `OnlyWantedStarts` | `Spec => StartsAreWanted` |
| | `DataGoesLast` | `Spec => DataOutlivesContainer` |
| | `OnlyOwnersOverrule` | `Spec => StopsAreRespected` |
| | `DeletionsStand` | `Spec => DeletionIsIrrevocable` |
| | `KeysNameInstances` | `Spec => []OneInstancePerRequest` |
| | `KeysAreSpent` | `Spec => KeysStaySpent` |
| | `PromiseKept` | `Spec => KeepsThePromise`: `Instances` implements `InstancePromise` |
| `InstancesOrderProofs` | `OrderIsKept` | `Spec => []InOrder` |
| | `StatusesAgree` | `Spec => []StatusAgreesWithIntent` |
| | `RecoveryIsBounded` | `Spec => []BoundedRecovery` |
| | `OthersAreSpared` | `Spec => []TouchesOnlyItsOwn` |
| | `TidinessIsKept` | `Spec => []Tidy` |
| | `StoppedIsDown` | `Spec => []StoppedMeansStopped` |
| | `NetworksAreRemembered` | `Spec => []NoOrphanNetworks` |
| | `UploadsAreSafe` | `Spec => []UploadKeepsInstance` |
| `AccountsProofs` | `Invariance`, `TypeCorrect` | the inductive invariant; `Spec => []TypeOK` |
| | `LoginsKnow`, `MailsAreTrue` | `Spec => []LoginsKnowThePassword`, `[]MailedPasswordsWereSet` |
| | `RevocationIsFinal`, `OnlyOwners`, `ChangesReplace` | `Spec =>` the action properties of `Accounts` |
| `MediaProofs` | `Invariance`, `TypeCorrectness` | the inductive invariant; `Spec => []TypeOK` |
| | `EncodersServe`, `CountsAreExact` | `Spec => []EncodersServePeers`, `[]CountsBalance` |
| | `RenewalsAreInTime`, `RevocationIsInTime` | `Spec => []RenewedLeasesLast`, `[]AccessEndsInTime` |
| `InputProofs` | `Invariance`, `TypeCorrectness` | the inductive invariant; `Spec => []TypeOK` |
| | `AimsAreSent`, `ClicksAnswerMessages` | `Spec => []LastAimIsSent`, `[]ClicksAreAskedFor` |
| | `NoButtonSticks` | `Spec => []ButtonsAreReleased` |
| | `ButtonsActThere` | `Spec => ButtonsActWhereAimed` |
| `PageProofs` | `Invariance`, `TypeCorrectness` | the inductive invariant; `Spec => []TypeOK` |
| | `InputIsKept`, `CurrentIsShown` | `Spec => []InputKeepsTrying`, `[]PageShowsCurrentPeer` |
| `ProcessProofs` | `Invariance`, `TypeCorrectness` | the inductive invariant; `Spec => []TypeOK` |
| | `OnlyOneWorks`, `WorkersEnd` | `Spec => []OneManagerWorks`, `[]WorkersEndFirst` |

So every invariant and every action property of the passing runs is proved, and so is the
refinement. The assumptions are those the modules state, which TLC evaluates in every run:
`IdentityAssumption` (the maintenance loop is not a worker; the null value and the marks of
request keys are nothing else), `ParameterAssumption` (quotas and bounds are numbers, legacy instances have an owner),
`AccountAssumption`, `TimingAssumption` (a renewal with all its calls fits into a lease, a
call into a tick, gathering into the grace), `PeerAssumption`, and for the other three
`InputAssumption`, `NothingAssumption`, `PageAssumption` and `NobodyAssumption` (bounds are
numbers, the null value is nothing else).

The argument for `Instances`. `NoOrphanResources` is not inductive: `DeleteRow` drops a row
because, some steps earlier, the handler saw the container gone and removed the directories. `Inductive`
says what stays true in between: a handler in a locked step holds its user's lock
(`HoldsItsLock`), its instance has a row with that owner and the desired state of the
handler's copy (`OwnsItsRow`), the instances `DeleteUser` still has to work through exist
and belong to the user (`OwnsItsList`), and what the program counter implies has come about
(`HasCome`: at `delRow` there is no container and no directory). That others do not
undo it follows from the lock: two handlers on one instance would hold one lock. The proof
classifies steps accordingly. A handler's own step either goes on, returns or records a
failure (`Proceeds`, `Returned`, `Failed`), and every other handler is `Spared`; steps of
the world outside (`WorldMoved`) only take containers and data away, which no handler's
knowledge excludes, since what it relies on is absence; `Restarted` forgets all handlers.
The action properties then follow from `Inductive` and the one kind of step that could
break them: `BootContainer` is the only step that starts, `RemoveDirectories` the only one
that removes data, and the desired state changes in four places.

`InOrder` and `Tidy` strengthen `Inductive` further, each proved on top of it. `InOrder`: a
handler has verified the container it is about to touch and has counted the attempt it is
about to make, its copy of the row is the one it judged by, and the status of a row agrees
with its intent. `Tidy`: what a handler that is about to write "stopped" or to drop a row has
seen of the container and the networks still holds, since only handlers with the same lock
make them. The refinement follows step by step: an action changes at most one of `wish`,
`runs` and `data` of one instance, and `Inductive` gives the guard of the abstract action.

The argument for `Accounts`. What a request has read of a row is current as long as the
version is the one it read, because every statement that changes the password or the status
increments it; a token's claim likewise. `CreateLoginSession` and the compare-and-swap check
the version in the transaction that writes.

The argument for `Media`. For each step of the manager's goroutine the invariant bounds how
much of the lease is left at least (`Lasts`) and how long ago the login may have been revoked
at most (`Notices`); an unrenewed lease runs out before `Limit` (`RunsOut`). Every track has
someone who will release it, and the counted connections are those still open.

The argument for `Input`. `ButtonsAreReleased` speaks of the button that is down; `Releasing`
says it of presses still to come: for a page that lost no event, each press in a channel or
being handled is held by its user or has a release behind it in the same channel.
`ButtonsActWhereAimed` needs the way of a position
through the shared accumulator (`Aiming`): while no other page moves the pointer and no call
failed, a page's position travels directly in front of its button message (`Paired`), so when
the button message comes to the head of the channel the move is pending, with the ticker or
delivered (`FirstAims`). The handler then takes and makes it, or presses while the ticker holds
it, or is overtaken by what the ticker holds (`JobAims`): those two are the exceptions of the
property, and both do occur. Both arguments need the order of one connection's messages, hence the lemmas
about sequences at the beginning.

The argument for `Page`. The functions of the page are described once by the fields they set
and leave. The page's connection is live and its offer is answered once (`ConnectionLives`);
then every answer or callback is the current connection's, or of one that is closed and
changes nothing. A step leaves the connection alone, hangs it up, or belongs to it.

The argument for `Process`. Whoever works holds the lock (`Locked`). The wait group counts
exactly the tasks that run (`Counted`), and with `refusing` set none can begin (`Shut`), so after
the wait there is none and there will be none (`Stopped`), although handlers that outlasted the
drain still run. A `main` whose wait timed out leaves without closing the database.

Each inductive invariant was checked by TLC within the bounds of a run before it was proved.

Only model-checked: liveness (`DeletionCompletes`, `UserDeletionCompletes`, `EverythingEnds`,
`InputSettles`, `ShutdownEnds`), because `ENABLED` and fairness are out of the prover's reach
here, and the findings, which are counterexamples.

## Not modelled

* `docker/client.go:257-371`: attaching the manager to instance networks and leaving shared
  bridges. Instances are independent there, and a failed step is repeated by the next call.
* The rate limiter (`auth.go:250-268`): its windows only refuse requests.
* CSRF, configuration, templates, file names: functions of one request without state.
* The mail dialogue; the file and clipboard services; the audit log; statistics: I/O that
  is passed through or only written. The order of connection events in the log
  (`service.go:726`) follows no promise.
* In the instance: keys, text, clipboard and the file dialogue's watcher of the input service;
  `closeAll` and dying encoders of the WebRTC service; the page's throttle for the wheel; the
  image's scripts and supervisor; the list page.
* `service.go:512` deletes the connection count with its instance: `Media`'s instance stays.
* Schema versions: migrations run in one transaction of one process; `LegacyRow` is what they
  leave.

What would come next: the attachment of networks with two concurrent calls, the rate
limiter's windows, and abstract specifications of `Accounts` and `Media` that they are shown to
implement, as `Instances` is.
