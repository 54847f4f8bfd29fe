# Azure Game Servers Scaling on Kubernetes: TLA+ models and proofs

The repository is a set of Kubernetes controllers. Users create a
*DedicatedGameServerCollection* (DGSCol); the controllers create that many
*DedicatedGameServer* objects (DGSs), a pod for each of them, hand out host
ports, replace game servers that fail, and scale with the number of players. An
API server lets game servers report their state.

This directory holds TLA+ modules of the parts where the difficulty is in the
interleaving: lagging caches, optimistic concurrency, a work queue with several
workers, a goroutine behind two channels.

## 1. Inventory

| Component | State | Operations | What is hard |
|---|---|---|---|
| **Work queue and controller helper** `pkg/controller/controller_helper.go`, vendored client-go `workqueue` | queue, dirty and processing sets, channel and heap of waiting entries, failure counts, workers | `AddRateLimited`, `waitingLoop`, `Get`, `Done`, `Forget`, `ShutDown`; `processNextWorkItem`, `runWorker` | a key added while it is processed, lost wake-ups, failed keys, shutdown |
| **Port registry** `pkg/controller/portregistry.go` | map of registered ports, ring of port numbers, index of the next free port, two buffered channels | `NewPortRegistry`, `GetNewPort`, `portProducer`, `DeregisterServerPorts`, `Stop` | frees interleave with the scan (no lock), a full ring, callers and answers, the ring after a restart |
| **DGS controller** `pkg/controller/dgs` | informer caches of DGSs, pods and nodes; none of its own | event handlers, `syncHandler` (delete, find or create the pod, update the status) | stale caches, filtered events, other writers of the same object |
| **DGSCol controller** `pkg/controller/dgscollection` | informer caches of collections and DGSs | event handlers, `syncHandler` (statuses, failed DGSs, scaling out and in) | stale caches, errors halfway through a loop, counting failures, giving up |
| **Random indexes** `pkg/shared/utilities.go` | none | `GetRandomIndexes`, `GetRandomInt` | a loop that need not end |
| **Autoscaler** `pkg/controller/autoscale` | informer caches; time of the last scaling, in the collection | `syncHandler` (cool-down, load, one replica more or less) | load measured on a cache, writes from a cached copy, nothing wakes it after the cool-down |
| **API server** `pkg/apiserver/apiserver`, `pkg/shared/k8shelpers.go` | none | create and delete collections, list ready DGSs, and the status posts of game servers (get, set, update, retry on conflict) | concurrent posts and controllers, answers after lost calls, shutdown |
| **Webhook** `pkg/apiserver/webhookserver` | none | validate and mutate one object per request | it lives in the API server's process, and every write of that process depends on it |
| **Access code** `pkg/shared/accessCode.go` | a global string | read on first use, compared | read and stored by concurrent handlers without a lock |
| **Start-up, signals, credentials** `cmd`, `pkg/signals` | none | wiring | restarts, seen by the controllers; the order of the shutdowns |
| **Types and generated clients** `pkg/apis`, `pkg/client` | none | serialization | nothing: generated |

How they interact. The controllers never call each other. They share the objects
in the Kubernetes API server: every write makes a new version and an event,
the informers copy events into caches later, and event handlers put the name of
an object on a controller's work queue. The collection controller creates,
marks and lets go of DGSs; the DGS controller creates their pods, copies pod
status into them, and deletes the marked ones nobody plays on; game servers
write players, health and the mark through the API server; the autoscaler writes
`Replicas`. The port registry is called by the collection controller (a port per
exposed port of a new DGS) and by the DGS informer's goroutine (on deletion).

What makes each part correct:

- work queue: no request is lost but to a shutdown; one sync per key at a time;
  a failed key is asked for again; no key is passed over for ever;
- registry: a port has one holder; the books balance; refusals are justified;
  every call is answered;
- DGS controller: no update is lost; the status ends up true; it settles; an
  empty marked DGS is deleted; one pod per DGS;
- life cycle of host ports: a host port is in one place, even while others are given
  back; no port leaves the ring; the process can start again; an exposed port gets a
  host port;
- DGSCol controller: the collection converges or gives up; failures are counted
  neither twice nor beyond the limit; giving up is final; recovered DGSs stay;
- autoscaler: the cool-down is kept; a scaling rests on what is still true; a
  high load is answered;
- API server: a call takes effect at most once and is answered accordingly;
  what is stored passed the webhook; a shutdown is graceful, and ends unless a client
  stalls.

## 2. Modules

| Module | Models | Code it stands for |
|---|---|---|
| `SyncRequests` | abstract specification of a work queue: what controllers rely on | `controller_helper.go` |
| `WorkQueue` | the queue's three layers and the workers | `controller_helper.go`, `queue.go`, `delaying_queue.go`, rate limiter |
| `PortRing` | the ring of ports and how it is built at the start | `portregistry.go` |
| `PortPool` | abstract specification of the registry: what callers of `GetNewPort` rely on | `portregistry.go` |
| `PortRegistry` (extends `PortRing`) | the registry, its goroutine, its clients | `portregistry.go` |
| `PortLifecycle` (extends `PortRing`) | host ports from the registry into DGSs and back, over restarts | `portregistry.go`, `addDGSColReplicas`, the DGS controller's delete handler |
| `DGSController` | one DGS and everybody who writes it | `pkg/controller/dgs`, `UpdateDGSStatus`, `NewPod` |
| `DGSCollection` | one collection and its DGSs | `pkg/controller/dgscollection` |
| `AutoScaler` | the autoscaler against the collection controller and people | `pkg/controller/autoscale` |
| `RandomIndexes` | `GetRandomIndexes` | `utilities.go` |
| `StatusBoard` | abstract specification of the API server: what its callers rely on | `run.go`, `k8shelpers.go` |
| `ApiServer` | handlers, webhook, access code, start and end of the process | `pkg/apiserver`, `accessCode.go`, `k8shelpers.go`, `cmd/apiserver` |
| `WorkQueueProofs`, `PortRingProofs`, `PortRegistryProofs`, `PortLifecycleProofs`, `DGSControllerProofs`, `DGSCollectionProofs`, `AutoScalerProofs`, `ApiServerProofs` | theorems and proofs about the module they are named after (`DGSCollectionProofs` also about `RandomIndexes`) | |

Each `MC` module gives constants and symmetry to TLC. Operators called
"Mutant of X" sit before the definition they alter: each is a plausible mistake
in the code, and each property fails under at least one of them.

**WorkQueue.** One action per critical section of the queue's lock. `queue`,
`dirty`, `processing`, `shuttingDown` are the fields of `Type`;
`waitingForAddCh` and `waitingForQueue` are the channel and the heap of the
delaying layer; `pc` and `item` are the workers' locations in
`processNextWorkItem`, with "asleep" for the condition variable. Time is
abstracted: a waiting entry becomes ready at some moment, so every order the
back-off could produce is covered. The `syncHandler` either succeeds or fails.

**PortRing, PortPool, PortRegistry.** `Rings(list)` is every ring that `NewPortRegistry` can
build from the DGSs in `list`, one per result of `rand.Perm`. `PortRegistry` has one
action per access to the map `Ports`, to the channels, and per step of the scan.
`DeregisterServerPorts` runs without a lock on another goroutine, one port
per step. Clients use the registry as `portregistry_test.go` does. The map's data race
itself (Go may abort on concurrent map access) is outside the model: each access
is atomic. `PortPool` is the promise, without ring, scan or channels: each call is
owed one answer; a grant takes a port that is free; a refusal needs a look at the pool
that found every port taken; answers are received in the order they were
made. `Pool` maps the registry to it: `ports` are what is taken, a queued request
or a scan is an answer owed, `portsAtScan` is what the look has seen, and
`Promised` (the channel and the answer about to enter it) are the answers made.
The steps of the scan that pass over a port are stuttering.

**PortLifecycle.** How the controllers really use the registry. `dgs` and `at` are
the DGS that `addDGSColReplicas` is building and the container port it has come
to; `ScanFree` and `ScanTaken` look at one slot of the ring each. By default one worker
asks for ports, so the channels, which are `PortRegistry`'s matter, are left out.
`CreateFails` may or may not have stored the DGS. `HandleDelete` begins to give back what
the code gives back, `Spec.PortsToExpose`, and `DeregisterServerPorts` frees one
port of it after the other, on the informer's goroutine and hence in the middle of a scan; a
tombstone gives back nothing. Container ports may lie in the range of the host ports, as
22222 of the examples does in 20000..30000 (`constants.go:15`). `GivenAway` are
the ports that a deletion may give back.
`Restart` rebuilds the ring from the DGSs in the order of the list, and when
`NewPortRegistry` would run out of an array (`~CanStart`) the process is down
until it is started again.

**DGSController.** `dgs`, `pods` are the API server's objects; `dgsWatch`,
`podWatch` the events under way; `dgsCache`, `podCache` the informers' caches.
`pc`, `dgsTemp`, `pod` are the locations and local variables of `syncHandler`,
which is cut where it calls the API server. Every call may fail, before or after
it has taken effect. An Update is refused unless made from the current
version. `posts` are the handlers of the API server inside `UpdateDGSStatus`.
Because `WorkQueue` shows that a key is never synced twice at once, one sync at
a time is enough, and `requested` stands for the whole queue. The pods' moves,
deletions by other parties, and the collection's writes are actions of their own.
`env` says that `NewPod`'s environment variables are in the containers of an
object: it appends them to the cached DGS, and the next Update stores them.

**DGSCollection.** The same construction one level up. `todo` and `left` are the
loops' variables, so that an error, a restart or another actor may come between
two iterations. `reconcileStatuses`, `increaseTimesFailed` and
`setDGSColToNeedsIntervention` re-read the object and retry on conflict;
succeeding they are one atomic step. The choice of DGSs to mark is any subset
of the right size: the cache lists DGSs in any order, so although
`GetRandomIndexes` never draws the last index, any DGS may be the last.
`pc = "drawing"` is the endless loop of `GetRandomIndexes` when all of two or more are
to go.

**AutoScaler.** `colCache`, `dgsCache` are the caches that both controllers share,
`dgsColTemp` and `update` are `syncHandler`'s local variables; it is cut
between reading the collection, listing the DGSs and the Update. `now` is the clock
in minutes. The collection controller is an environment that takes the steps of
its own `syncHandler` in any order, since a failing call may end a sync after
each of them. The load is compared by products, which says the same as the code's
quotients, its division by zero included.

**RandomIndexes.** The double loop, one draw and one comparison per action. `DGSCollection`
has a guard in its place, `CanDraw`; the theorem `ReturnsOnlyIfCanDraw` ties them together. Its
names (`IndexesSpec`, `at`) differ from the other modules' because both are proved
about in one module.

**StatusBoard, ApiServer.** `StatusBoard` is the promise: between request and
answer a call takes effect at one moment, changes what it names and nothing
else, and is answered with 200 only if it did (or, for `/create` and `/delete`,
in any case: they do not look at what Kubernetes says). In `ApiServer`, `pc`,
`call`, `attempts`, `seen`, `code` are the local state of each concurrent
handler; a handler is cut at each call to Kubernetes and at each access to
the access code. Resource versions are abstracted to `fresh`, the handlers whose
copy is still the newest. `stage` follows `main` from the start over the signal
to the end; `webhook` says whether the webhook listens, which happens some time
after the start, or never when its certificate cannot be read. `Admitted` is
`mutate` together with `failurePolicy: Fail`, and guards everybody's creates and updates.
Controllers and `kubectl` change the same objects at any time.

## 3. Runs

| Run | Question | Bounds |
|---|---|---|
| `wq` | no stranded key, no double sync, no lost wake-up; refinement of `SyncRequests` with its fairness | 2 keys, 2 workers, channel of 2: both workers contend for one key, one sleeps while the other works, the channel is full |
| `ports` | exclusive grants, balanced books, one answer per call, calls return; refinement of `PortPool`, so refusals are justified | ports 1..4 of which one existing DGS has two, 3 clients, channels of 2: more clients than free ports, so the ring is full and wraps |
| `portlife` | host ports that no deletion gives back are exclusive, the ring stays whole, the process can start again | 3 ports of which container port 2 is one, 2 DGSs and one under construction, of two shapes (one or two of their ports exposed): two fill the ring, the third finds none until one is given back; 3 failing calls or restarts |
| `portlife_exclusive` | is every host port in one place? **violated** | 3 ports, 3 DGSs with one port, which is in the range; no failing call and no restart |
| `portlife_restart` | does every exposed port get a host port? **violated** | 3 ports, 3 DGSs with one port, 1 restart |
| `dgs` | no lost update; the status is true when the controller is quiet, also after a relist that skips versions; it settles; a scaled-in DGS is deleted | 1 pod, 2 posts (a player comes and leaves), 1 failing call or restart, 14 versions, caches two events behind |
| `dgs_marked` | is every marked, empty DGS deleted? **violated** | 2 posts |
| `collection` | failures counted at most once, only failed DGSs let go, NeedsIntervention is final, true health when quiet, convergence | 3 DGSs, 2 at the start, both fail behaviours, 2 status changes, Replicas from 2 to 1, 1 failing call or restart |
| `collection_failures` | are failures bounded by DGSMaxFailures? **violated** | 2 failures |
| `autoscaler` | the cool-down is kept, decisions are current, a high load is answered | 2 DGSs, 1 or 2 players each, cool-down of 1 minute on a clock up to 2, Replicas also changed by a person, 1 failure, failing call, change or restart |
| `indexes` | distinct indexes in range, the last one is spared, the call returns exactly if one is to spare | all calls with up to 4 DGSs |
| `api` | refinement of `StatusBoard`; what is stored passed the webhook; the shutdown is graceful and ends unless a client stalls | 2 callers, 1 DGS, 1 collection, 8 requests of all kinds (good, wrong and garbled bodies, a wrong code, templates that are admitted and not), 2 attempts, 1 failing call or crash |

Why the bounds are enough. The hazards need two actors and one object (a stale
read, a write, a late write): two workers and one contended key, one post against one
controller, two handlers in the same one, one event of lag, one failing call
or restart at every point. `Steps` is 2 instead of the code's 5 because one
attempt that is repeated and one that is the last are all there are;
the theorems hold for every number. `MaxVersions`, `MaxPosts`, `MaxRequests`,
`MaxChanges`, `MaxFaults`, `MaxDisturbances`, `MaxTime` and `MaxLag` bound how
often outsiders act and are guards of the actions they bound, never of what the
code does, except that a write waits while the watch holds `MaxLag` events, which
the informer's fairness ends. Deadlock is checked for the queue, the
registry and the API server, where it would mean that everybody waits; in
the other modules the environment's budget runs out and everybody may rightly stop.

**Fairness.** Workers, `waitingLoop`, `portProducer` and informers are goroutines
or watches that the runtime schedules: weak fairness. A caller inside
`GetNewPort` competes with the others for answers and Go's channels serve
waiting receivers in order: strong fairness of `ReceivePort`. `rand.Intn`
returns each of its values again and again: strong fairness of each draw.
Handlers of the API server run until they return or have to wait for their client, and
`main` goes on after the signal: weak fairness of each handler's steps but those of
`WaitsForClient`, of `ShutdownReturns` and of `Exit`. The server has no timeouts
(`run.go:23`) and `Shutdown` no deadline (`main.go:34`), so a client that stalls in the middle
of its request keeps the process alive for ever. `ShutdownEnds` therefore
supposes `ClientsGoOn`: no client keeps its handler waiting for ever; without it TLC finds
that client. What the property rules out is that the handlers keep it
alive themselves, by their retries or because the webhook is gone. Calls to
Kubernetes are supposed to return, with an error if need be.
Nothing is assumed about posts, requests, deletions, failures, restarts,
signals or the webhook's coming up, and a sync returns but need not succeed. API
calls that fail are bounded, so a sync that keeps being retried eventually meets one
that works. `HighLoadIsAnswered` supposes that players go on moving: only
events wake the autoscaler, and a collection dropped in its cool-down is not
looked at before the next one.

**What is violated**, and where the text that says otherwise is:

- `portlife_exclusive`: the deletion of a DGS deregisters its container ports instead of
  its host ports (`DGSController.go:200`). Container port 22222 of the examples is in the
  range, so once some DGS has 22222 as its host port the deletion of
  any other one frees it, and the ring comes round to it: the port is not registered for
  its DGS any more (`portregistry.go:91`) and two DGSs have it. No failure, restart or race is needed. While
  both exist, the next `NewPortRegistry` may run out of the ring and panic, since
  it counts the shared port twice; hence the second condition of `CanStartAgain`.
- `portlife_restart`: `assignRegisteredPorts` writes each existing DGS's ports from
  slot 0 on, so with two DGSs slots are overwritten, others stay 0, and 0 is
  handed out as a port (`portregistry.go:145`): the container port it is given
  to is not exposed (`docs/architecture.md:17`).
- `dgs_marked`: `hasDGSChanged` ignores `MarkedForDeletion`, so a DGS that
  is marked while it is empty is not looked at (`DGSController_helpers.go:34`;
  `docs/architecture.md:61`).
- `collection_failures`: `DGSTimesFailed == DGSMaxFailures` is tested, but the
  count grows in steps (`DGSCollectionController.go:222`; `docs/architecture.md:120`).

Each of the four has a theorem which says under what condition the property does
hold, and so that there is no other cause (section 4, "Where the violations come
from").

What passes may say less than its name suggests. `NeverOvercounted` bounds the failures that
are counted from above: that they are not counted twice, not that none is lost.
`InterventionIsSticky` is about a sync that goes by a cached collection without
NeedsIntervention; `reconcileStatuses` itself, which reads the object again and retries on a
conflict, is one step.

**Known limits** the models reach, or show by an assumption, and no run asks about:

- A player who joins between the cached read and the Delete is on a DGS that is
  deleted (`DGSController_helpers.go:48`).
- `NewPod` appends to the containers of the cached DGS; the next Update stores
  them in its spec (`k8shelpers.go:113`).
- A sync that read the collection before NeedsIntervention still acts once
  (`DGSCollectionController.go:174`).
- Scaling in on a stale cache marks too many DGSs, and the next syncs
  replace them (`DGSCollectionController_helpers.go:133`); scaling in to nothing hangs
  the worker (`utilities.go:45`; shown by `indexes`, and the reason why
  `collection` scales to 1 and not to 0).
- A sync that runs before the pod cache shows the pod of the sync before creates a second pod
  (`DGSController.go:246`; `docs/architecture.md:11` says that each DGS has a single
  one). `PodIsSingle` proves that there is no other way to a second pod.
- The host port of a deleted DGS stays taken until a restart, unless some DGS has a container
  port of the same number, because the ports given back are container ports
  (`DGSController.go:200`).
- Failures can be lost: if the loop over the failed DGSs ends with an error, those
  already let go are not counted (`DGSCollectionController.go:242`), and if the count
  cannot be written that is only logged (`DGSCollectionController_helpers.go:182`).
- A client that stalls keeps the API server from ending (`cmd/apiserver/main.go:34`), see
  "Fairness".
- A DGS that asks for as many ports as the range has can let a restarted registry lose a
  port, or hand out 0 (`portregistry.go:56`), which is why `NoPortIsLost` and
  `ExposedPortsStayOpen` suppose that none does (`LessThanTheRange`). The default
  range has 10001 ports.
- A DGS with more host ports than `PortsToExpose` (TCP and UDP on the same number)
  makes `NewPortRegistry` panic; `CanStartAgain` says that DGSs with
  just the host ports they ask for, and none twice, never do.
- The autoscaler compares its limits with the number of cached DGSs, not with
  Replicas, which can therefore leave them.
- `/create` has no `portsToExpose`; `/create` and `/delete` answer 200 to errors;
  `/running` goes on after a failed list and writes `null`; the access code is
  kept until the process ends.
- The comment on `runAllControllers` (`cmd/controller/main.go:78`) says that
  it waits for the workers; on the signal `main` returns at once. The controllers'
  modules therefore have no graceful end: every stop is a restart at any point.

## 4. Proofs

The constants get the assumptions that the modules name (`RangeAssumption`,
`BoundsAssumption`, `NoneAssumption` and so on): bounds are numbers, `None` is no
object, what a post sets has the type of the field. What else a theorem supposes is
in its statement. Each inductive invariant was checked by TLC on the instance of
the component's run before it was proved. An event, a failing call, a restart are steps
like any other, so the theorems hold for any lag and any number of them.

`WorkQueueProofs` proves, for every set of keys and workers, every capacity of
the channel and every bound on failures, from the assumptions `NoKeyAssumption`
(`NoKey` is not a key) and `BoundsAssumption` (positive bounds):

- `TypeCorrect`, `DirtyIsScheduledHolds`, `OneSyncPerKeyHolds`: the invariants of
  run `wq`; `QueueOrderHolds`: a queued key is dirty, unprocessed and queued once;
- `Implementation`: `Spec => Requests!Spec`, the refinement of run `wq`.

The inductive invariant `IInv` adds two facts to these invariants. None of the
invariants is inductive alone: that a key handed out by `Get` is not processed
needs `QueueOrder`; that `Done` removes just the worker's own key from
`processing` needs that no other worker holds it; that a worker which is
"ready" holds nothing needs `HoldsBetweenGetAndDone`. `FailedIsPending` is for
the refinement: when a failed worker lets go of its key, the abstract `Release`
demands that the key is still asked for. It stays true because a key only moves
from the channel to the waiting entries to the dirty set, and leaves that set
only through a `Get`, which cannot happen while the key is being processed.
Lemmas about sequences and `Push`, `Add` and `AddRateLimited` come first, then
one lemma per action, then the temporal steps.

`PortRingProofs` has what both users of the ring need. Every ring has the type
of one, and `Advanced` stays inside it; typing the initial ring needs that the last
DGS to write a slot exists: a non-empty set of indexes has a greatest element
(`LastOfIndexes`, from the well-foundedness of the naturals). The rest is counting:
lists of different ports have as many places as ports and leave room for the free ones
(`DistinctLists`); and if one list at most has ports, the free ports, put in by an
injection into as many slots, take up just the slots behind it, so
that the ring has every port of the range (`LoneListFillsRing`). Conversely, a lone list
that leaves room for the free ports has no port twice and no zero (`RoomMeansDistinct`).

`PortRegistryProofs` proves, for every range of ports, every set of clients
(finite or not), every capacity of the channels and every list of existing DGSs,
from the module's assumptions (a non-empty range of positive ports; no port
twice among the existing DGSs): `TypeCorrect`, `ExclusiveGrants`, `BalancedBooks`,
`CallsMatchAnswers`, the invariants of run `ports`; `RefusalsAreTrue`;
`PoolIsImplemented`, the refinement of run `ports`; and `ScanIsOneStep`.
The first three share one inductive invariant. `GrantsAreExclusive` needs
`BooksBalance`: the scan tests `Ports` only, so a free port is nobody's because
what is granted is registered. `BooksBalance` needs `GrantsAreExclusive`: a
freed port leaves the books because nobody else has it. Neither survives a free of
an existing DGS's port, hence the third part, `GrantsAreNotRegistered`. That
`portProducer` and `DeregisterServerPorts` need no common lock for any of this is
what the theorems say, with one access to `Ports` as the atomic step.

`RefusalsAreTrue` has an invariant of its own, `ScanInv`: every slot the scan has
gone through had a port that was taken when the scan began, because frees only make
the ports fewer; when the scan is back where it began it has gone through all
slots. It supposes `OneServerAtMost`, that not more than one DGS with ports existed
at the start. That is no weakness of the proof: with two, `NewPortRegistry`
overwrites slots, the ring lacks ports (see `portlife_restart`), and a port the ring
lacks is free when a call is refused.

`PoolIsImplemented` (`Spec => ImplementsPool`) goes action by action: `ScanTaken`
that is not back at the beginning and `Respond` map to stuttering, the request
taken is `Look`, `ScanFree` is `Grant` because the port it stops at
is not registered, and the step that gives up is `Refuse` because of `ScanInv`, hence the same
`OneServerAtMost`. `ScanIsOneStep` needs more than `ScanInv`: not only which ports were
passed but that the slots passed are just those from where the scan began to where it is,
each taken at the beginning (`PassedInv`). So the slot at which it stops is the first
free one, if no port was freed meanwhile: the one that `peekNextPort` of
`portregistry_test.go` foretells. If one was, the scan may be behind it, and
TLC shows that the theorem is false without that condition.

`PortLifecycleProofs` proves, for every range, every set of templates, every number
of DGSs and of faults, wherever the container ports lie, the type invariant and the
invariants of run `portlife`:

- `OtherPortsAreExclusive`: the inductive invariant `IInv(P)` says of a set of ports P that a port
  of P in a DGS or in the object being built is registered and in one place; the free port
  of a scan is then nobody's. A restart keeps that because `Marked` has the host
  ports of all DGSs, and `DeregisterServerPorts` keeps it as long as what it frees is not a
  port of P in use. P is here what no deletion gives back, `PortRange \ GivenAway`.
  `OnlyDeletionsShare` (below) has the whole range for P.
- `RestartsAreSafe`: host ports that are exclusive make what `NewPortRegistry` gathers
  lists of different ports, to which `DistinctLists` applies. That the ports in
  `GivenAway` are exclusive is a condition of the property, because of run
  `portlife_exclusive`; that the others are is part of the proof.
- `NoPortIsLost`: only a start changes the ring, and it lists one DGS at most. If that DGS
  lacked a host port or had one twice, its list would have fewer ports than
  places, and the start fails for want of room; so its list has different ports
  (`RoomMeansDistinct`) and `LoneListFillsRing` applies. A list as long as the ring would
  escape that, since `NextFreePortIndex` wraps to 0: hence `LessThanTheRange`.
- `ExposedPortsStayOpen`: see below.

`DGSControllerProofs` proves, for any pods, callers and posts: `TypeCorrect`,
`WritesAreKept` and `StatusBecomesTrue`, the safety properties of run `dgs`. All copies of
the object, in the watch, the cache, the sync and the posts, are the live one or have
an older version (`CopiesAreOld`), so an accepted Update was made from what is still
there: `NoLostUpdate`, whatever the number of writers. The exception is `env`, which
`NewPod` writes into the cached object without a new version (`SameButEnv`). For
`QuietStatusIsTrue`, what the caches lack is in the watches (`DGSInFlight`,
`PodsInFlight`); `IsSettled` says that while nothing is requested the status agrees with a
cached pod, or some event is on its way that will make a request. It is kept because
`hasDGSChanged` compares phase and node, and each deletion of a pod is
noticed. `PodIsCached` covers a sync that is about to write while a newer event
has already asked for the next one.

`DGSCollectionProofs` proves, for any names and bounds and both fail behaviours, the type
invariant and all safety properties of runs `collection` and `indexes`:

- `OnlyFailedLeave`: from `CopiesAreOld` and `TodoIsOld`, the copies in the loop are of
  failed DGSs, and the Update is accepted of the current version only;
- `NoOvercount`: `NeverOvercounted` is not inductive, since the count is written
  after the loop. `CountIsDue` says that `timesFailed` and the DGSs let go by the loop
  that is running together never exceed `letGo`; an error or a restart in the loop
  forgets the latter;
- `HealthBecomesTrue`: a DGS that has left the collection does not come back
  (`LeftForGood`) and leaves with a change that is noticed (`SilentHaveLeft`); so with
  nothing requested the health is that of the cached DGSs (`HealthIsOfCache`), and
  with nothing under way these are the DGSs (`DGSsInFlight`);
- `InterventionStays`: `setDGSColToNeedsIntervention`, `reconcileStatuses` and the writes
  of others leave NeedsIntervention alone;
- `IndexesCanBeUsed`: for a slice of any length, what `GetRandomIndexes` has drawn is in range,
  different and spares the last index of several (`IndexesInv`);
- `ReturnsOnlyIfCanDraw`: if it returns, `CanDraw` of `DGSCollection` holds, by the pigeonhole
  principle on the drawn indexes.

`AutoScalerProofs` proves `TypeCorrect`, `CoolDownHolds` and `DecisionsAreCurrent`,
for every set of DGSs, all limits and thresholds. Two of them are action
properties, from one invariant: whatever copy of the collection is in the
watch, the cache or `syncHandler`'s hands is the live one or has an older version
(`CopiesAreOld`); a copy in hand may be scaled; a decided change is one step away
from it. An Update that is accepted has the live version, so what held of the copy
holds of the live collection. `InHandMayScale` is stable because time only adds to
the cool-down. Neither the lag of the caches nor lost answers nor restarts matter,
since the time of the last scaling is kept in the collection itself.

`ApiServerProofs` proves, for any callers, calls, names, templates and number of
attempts:

- `TypeCorrect`, from `IInv`: `TypeOK` says what a handler holds at each
  step, and `FreshIsCurrent` that a handler whose version is still current
  has read the status that is stored;
- `EverythingIsAdmitted`: what is stored has been checked and patched, whoever wrote it
  and whatever was up at the time;
- `GracefulShutdown`: in "closing" nobody is being handled;
- `Implements`: `ApiServer` implements `StatusBoard`. Here `FreshIsCurrent` is
  what matters: an Update that is accepted writes the copy that was read with
  one field changed, which is the live status with one field changed. `AnswerWith`,
  `Finish` and each way to end a handler map to `TakeEffect`, `HasNoEffect` or
  `End`; reads, retries, the access code and the process map to stuttering.

The proofs go action by action; lemmas say first that a handler's step changes its
own entries only (`OneHandlerMoves`, `StoreIsUnchanged`).

**Where the violations come from.** For each of the four properties that are violated
a theorem gives a condition under which it holds, on the same specification, and so
for the single pod of section 3's known limits:

| Run | Theorem | The property holds if | Inductive invariant |
|---|---|---|---|
| `portlife_exclusive` | `OnlyDeletionsShare` | `DeregisterServerPorts` frees no host port that a DGS, or the object being built, has (`FreesAreUnused`) | `IInv(PortRange)`: every port in use is registered and in one place |
| `portlife_restart` | `ExposedPortsStayOpen` | the process never starts with two DGSs that expose ports (`[](startedWith <= 1)`) and no template exposes as many ports as the range has | `AllAreOpen`: neither a stored DGS nor the part that is built misses a host port; it rests on the ring being whole, for then no zero is handed out |
| none | `PodIsSingle` | no sync that finds no pod has looked at a pod cache that lags (`LooksAreFresh`) | `PodInv`: one pod at most, and none while a sync is about to create one |
| `dgs_marked` | `MarkedAreDeleted` | callers never post the mark (`NoPostMarks`) | `MarkInv`: a copy that is marked has left the collection, which `hasDGSChanged` does notice, so a cached DGS that is marked and empty is asked for or being deleted (`DueIsDeleted`) |
| `collection_failures` | `FailuresStayBounded` | DGSs fail one at a time (`OneFailureAtATime`) and counts are made from a current read (`ReadsAreFresh`) | `BoundInv`: a sync goes by the current count, and while one failure is handled the count is below the limit |

The conditions are not too strong to be met: under each of them TLC still reaches the
interesting steps (failing calls, restarts, a pod that is lost and replaced, a
collection that gives up). Nor are they idle: each run's counterexample breaks its
condition, and with only one of the two conditions of `FailuresStayBounded` TLC still
finds a violation. They are conditions on behaviours, which nothing in the code
enforces; the theorems say what a repair has to establish.

Only model-checked: everything about liveness (fairness and `ENABLED` are out of the
prover's reach), which is `ImplementsRequests`' fairness, `RequestsAreServed`,
`CallsReturn`, `SettlesDown`, `ScaledInIsDeleted`, `Converges`, `HighLoadIsAnswered`,
`ReturnsIfOneIsSpare` and `ShutdownEnds`.

## 5. What is not modelled

- Queue: actual delays and the token bucket; items that are not strings (unreachable).
- Registry: `Stop`; a data race as such; a change of the range between two starts.
- DGS controller: changed container images; `DGSState`; relisting of pods;
  foreground deletion.
- DGSCol controller: `AvailableReplicas` and `PodCollectionState`, computed in the
  same step and the same way as the health; a collection being deleted;
  relisting; a person's reset of NeedsIntervention. In `DGSCollection` names, like
  host ports, are used once, which is what makes `fresh = {}` a stand-in for a
  port range that is used up.
- Autoscaler: a collection that does not exist, is being deleted or has no
  autoscaling, for which the sync ends at once; time zones; rounding of
  percentages in `float32`.
- API server: static files, logging, the HTTP envelope; one process at a time (a
  deployment that rolls over has two, which the other writers stand for); a webhook that is reached through a
  Service while the process is down is simply not there.
- `CreateDedicatedGameServerCRD`, which nothing calls; client configuration,
  which is I/O; generated clients, informers and deep copies, whose behaviour is the
  external part of the models; demos, examples and the end-to-end test.

## 6. Order of the modules, and what could follow

The modules were written in the order `WorkQueue` (everything rests on it),
`PortRegistry`, `DGSController`, `DGSCollection`, `RandomIndexes`, then `AutoScaler`,
`PortLifecycle` and `ApiServer`, which compose what the first ones keep apart.

Worth adding: a person who resets NeedsIntervention, and
the health and the count after that; a refinement of
`DGSController` to an abstract specification of its own, as `SyncRequests`, `PortPool` and
`StatusBoard` are for the queue, the registry and the API server; the registry's `Stop`.
