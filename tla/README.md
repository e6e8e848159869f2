# A TLA+ specification of the NSX-T load balancer provider

The repository holds a Kubernetes cloud controller manager that implements
services of type `LoadBalancer` with NSX-T. This directory models its core:
what it keeps in NSX-T for each service, how concurrent goroutines share it, and
what remains when calls fail, answers get lost or the controller crashes.

Paths are relative to `pkg/loadbalancer/` unless they start elsewhere.

## 1. Inventory

| Part | State | Operations | Interacts with |
|---|---|---|---|
| key lock (`lock.go`) | a mutex, a map from keys to mutexes | `Lock`, `Unlock` | the provider locks the name of the service in every operation |
| load balancer service (`lbservice.go`) | `lbServiceID`, `managed`, `lbLock`; in NSX-T the service and its list of virtual servers | attach, detach a virtual server; creates and deletes the service in managed mode | called by the provider for all services, hence a lock of its own |
| provider (`lbprovider.go`, `state.go`) | per call a `state`: copies of the virtual servers, pools and monitors, the address, the class | `EnsureLoadBalancer`, `EnsureLoadBalancerDeleted`, `UpdateLoadBalancer`, `GetLoadBalancer` | called by the service controller's workers, its node sync loop and the reorganisation |
| access (`access.go`, `tag.go`, `mapping.go`, `helpers.go`) | the tags every object gets, the owner tag | create, find, list, update and delete the five kinds of objects | turns the tags into the identity of an object |
| reorganisation (`reorg.go`) | a timer, the lists of a pass | one pass over all services and objects | calls `EnsureLoadBalancerDeleted` for services that are gone |
| configuration and classes (`config/config.go`, `class.go`, `provider.go`) | the configuration, the classes with their IP pools | read, complete, override from the environment, validate, set up | gives the provider its classes and the mode of the load balancer service |
| NSX-T broker (`nsxt_broker.go`) | none | one function per API call | called by access |
| in-memory broker (`nsxt_broker_inmem.go`) | four tables, the IP pools, a counter for ids, a lock | the same functions | called by access in the simulation mode; its callers read its slices after the call |
| registration, `cmd/` | none | flags, start | – |
| service controller (vendored) | work queue, cache of services, known hosts, services to update | calls the provider, writes status and finalizer; the node sync loop | – |

What is hard here:

* **Concurrency.** Workers, the node sync loop and the reorganisation work on the
  same service; workers for different services share the load balancer service
  and the IP pools. Two levels of locks keep them apart.
* **Failure.** Every operation is a sequence of up to a dozen calls to NSX-T.
  Each can fail, or succeed without an answer, and the controller may die
  between two of them. There is no transaction and no journal: what was done is
  known only from the tags of the objects that exist.
* **Identity.** An object belongs to the controller, a service and a port only by
  its tags, and the tags section of the configuration may use the same scopes.
* **Order.** NSX-T objects refer to one another (load balancer service → virtual
  server → pool → monitor), and an address must outlive its virtual servers.
* **Retry.** The service controller repeats a failed operation, the
  reorganisation runs every 30 minutes, earlier after an error, and the node sync
  loop repeats the updates that failed.
* **Stale lists.** Workers and the node sync loop read the nodes long before they
  write them into a pool.

`PROJECT.json` lists each of these places as a hazard with its line.

## 2. Modules

| Module | Models | Proofs |
|---|---|---|
| `KeyMutex` | what a lock per key promises | |
| `KeyLock` | `lock.go` at the level of its two kinds of mutexes | `KeyLockProofs` |
| `LbRegistry` | what `lbservice.go` promises: atomic attach, detach, create, delete | |
| `LbService` | `lbservice.go` and the part of `access.go` for the load balancer service | `LbServiceProofs` |
| `LoadBalancer` | `lbprovider.go`, `state.go` and the rest of `access.go`, with the service controller and users as environment; uses `KeyMutex` as its lock | `LoadBalancerProofs`, `ReconcileProofs` |
| `Reorg` | `reorg.go`, extends `LoadBalancer` by one goroutine | `ReorgProofs` |
| `NodeSync` | the service controller's queue, cache and node sync loop with the part of `state.go` for the members of the pools; uses `KeyMutex` too | `NodeSyncProofs` |
| `Tags` | `tag.go`, and how `access.go` and `class.go` put tags together (operators only) | in `ConfigProofs` |
| `Config` | `config/config.go`, `class.go`, the start in `provider.go`; the tags of the objects of a controller that runs; uses `Tags` | `ConfigProofs` |
| `ObjectStore` | what the interface `NsxtBroker` promises | |
| `InMemBroker` | `nsxt_broker_inmem.go` | `InMemBrokerProofs` |
| `MC...` | instances for TLC | |

The levels are joined by refinement: `KeyLock` implements `KeyMutex`, which
`LoadBalancer` instantiates for its `Lock` and `Unlock` steps; `LbService`
implements `LbRegistry`, which is why `LoadBalancer` may attach and detach in one
step; `InMemBroker` implements `ObjectStore`.

### State and steps

`KeyLock`: `lock` is the owner of `l.lock`, `keys` is `l.keys`, `owner` the owner
of each mutex on the heap, `ptr` the local variable `lock`. Lock is `CallLock`,
`LockOuter`, `Lookup`, `AcquireKey`; Unlock is `CallUnlock`, `UnlockOuter`,
`Release`. What happens under `l.lock` is one step, as nobody else can look.

`LbService`: `lbs` and `attached` are in NSX-T, `lbServiceID` and `lbLock` in the
controller, `item` is the copy a goroutine has read. One step per call to NSX-T.
`Visible` is the filter of `findLoadBalancerService` by router or tags. `mode` says
which configuration the controller was started with (an `lbServiceId`, a router)
and which services exist beforehand; it is chosen once, from the constant `Mode`.

`LoadBalancer`: `servers`, `pools`, `monitors`, `attached` and `alloc` are in NSX-T;
`phase`, `spec`, `status` and `nodes` in Kubernetes; per goroutine `call` holds the
arguments, `st` the `state` struct, `cur` the locals of the loop over the ports.

* Find: `FindVirtualServers`, `FindPools`, `FindTCPMonitors` (with the choice of
  address and class, `AddressAndClass`).
* For each port (`NextPort`): keep, update or create the monitor, the pool and the
  virtual server; for a new virtual server `KeepAddress` or `Allocate`,
  `CreateVirtualServer`, `Attach`, and `Rollback` when attaching fails.
* Clean-up: `Detach`, `DeleteVirtualServer`, `DeletePool`, `DeleteTCPMonitor`.
  The code ranges over its lists; the model takes a deleted element out of `st`.
  `RouterGiven` says whether a router is configured: in unmanaged mode without one
  `Detach` succeeds and detaches nothing, and the virtual server is deleted all the same.
* `Finish`, `IsAllocated`, `Release`: also after an error, as in the code.
* `UpdateFindPools`, `UpdatePoolMembers`: the node update.
* `Unlock`: the deferred unlock, with what the caller does with the result.

Abstractions: a class is its IP pool (a class that is not configured has
`NoPool`); a port is its tag `protocol/port`; all ports of a service have the same
node port, so a change of the node port changes every port; members of a pool are
a set of nodes; of equal matches in a list any may come first; reading the
monitors, a list and one call each, is one step under the key lock, which keeps
them from changing. An identifier is never used twice. A call to NSX-T has its
effect or not, and its answer arrives or not; an answer that is lost is an error to
the code. A crash forgets all variables of the controller and no other.

`Reorg`: `step`, `known` (`services`) and `found` (`lbs`) are those of the pass. The
goroutine `Collector` runs the steps of `LoadBalancer`. A service object made by
the reorganisation has no status and the default class. `ForceDelete` is the user
who removes a finalizer, for whom `reorg.go` says it exists.

`Config`: `file` and `env` are what is given, `cfg` the configuration as it is
completed, `classes` the result. Map iteration is a choice of the next class. Then
`CreateObject` puts an object with its tags into NSX-T, and `Restart` starts a
controller with another tags section or for another cluster on the same NSX-T.
`ListAll`, `FindFor` and `MatchPort` are what the running controller finds.

`Tags`: tags, with at most one for each scope, are a function from scopes to tags;
`AddTags` takes the later value of a scope. Their normal form, a sorted list, has the same content.

`NodeSync`: `nodes` and `phase` are in Kubernetes, `pools` (the members, a sequence)
and `servers` in NSX-T, `queue`, `cache`, `knownHosts` and `servicesToUpdate` in the
service controller; `sync` is the pass of the node sync loop, `call` what a
goroutine does for the provider. A worker takes a service with the nodes of that
moment (`TakeEnsure`), waits for the key (`Lock`) and reconciles port by port
(`Reconcile`); the loop lists the nodes (`nodeSyncLoop`), calls `UpdateLoadBalancer`
for one service after the other (`UpdateNext`, `Lock`, `UpdatePoolMembers`,
`UpdateReturns`, `CheckExists`) and remembers what failed (`SyncDone`). New members are
those of the old ones that still are nodes, in their order (`StillNodes`), then the
others in any order, as the code ranges over a map (`updatedPoolMembers`). `late` is
history: the services that a worker wrote last with a list the loop did not have.

`InMemBroker`: a table is an array with a capacity, `arr`, and a length, `len`, so that
`append` writes into the array or replaces it, and a deletion shifts it, element by
element (`Delete`, `DeleteStep`). All else under the lock is one step. A client that
has got a list reads it afterwards (`scan`), as does `ReadLoadBalancerTCPMonitor` without
any lock. An object is its id and the words of its content (`Word`), and a reader copies it
word by word: `ReadHalf` begins the copy, `ReadWord` takes one word as it is later, and
`ReadRest` ends it. So a copy that races with an update or a deletion may be any mixture of
what was there meanwhile. The orders of reading a slice's pointer and length are another
choice.

In `LoadBalancer` and `Reorg` the service controller and the users are modelled only by
how they use the provider: one worker per service at a time, retry after an error, a status after a
success, `GetLoadBalancer` before the deletion, one node sync goroutine that also
updates services that are being deleted.

## 3. Runs

Each configuration is an instance of a few services, goroutines and addresses. The
bounds `MaxFaults`, `MaxCrashes`, `MaxRestarts` and `MaxChanges` count failed calls,
crashes and what users do; without them the identifiers, and so the states, are
unbounded.

| Run | Instance | Shows |
|---|---|---|
| `MCKeyLock` | 3 goroutines, 2 keys, fair | `MutualExclusion`, `UnlockFindsOwnMutex`, refinement `ImplementsKeyMutex`, `LockReturns` |
| `MCLbService` | 2 goroutines, 2 virtual servers, 2 failures, 1 restart, fair; managed mode, managed mode on a router with a foreign service, unmanaged mode with a router | `AddedIsAttached`, `RemovedIsDetached`, `SingleService`, `NoIdleService`, refinement `ImplementsLbRegistry` (a service is never deleted under a foreign server, nor in unmanaged mode), `CallsReturn` |
| `MCLbRecovery` | 1 service with 1 or 2 ports, 2 goroutines, 1 failure, 1 crash | `SnapshotCoherent`, `OkMeansExact`, `ClassIsSet`, `RefIntegrity`; `AddressStable`: no step gives a service with a virtual server another address; `DetachedFirst`: no step but `Rollback` makes the load balancer service refer to a virtual server that does not exist |
| `MCLbAddresses` | 2 services, 2 classes with 2 and 1 addresses, 1 crash, unmanaged mode without a router | `AddressHeld`, `AddressExclusive`, `NoLeakedAddress` |
| `MCReorg` | 1 worker, the collector, 1 failure, 1 crash, forced deletions, a service that may lose its class, fair | `SnapshotCoherent`, `RefIntegrity`, `OkMeansExact` with the collector; `OrphansCollected`: deletions complete, and what is left behind is collected |
| `MCNodeSync` | 1 service, 1 worker, the loop; 4 nodes, of which two share an address and one has none; 3 changes of nodes, 1 failure, 1 crash, fair | `MembersExact`; `PoolsSettled`: the loop forgets no service; `PoolsFollowNodes` |
| `MCConfig` | all pools for the section and two classes; all other entries; all environments; then 2 controllers, one after the other, with 6 tags sections and 2 clusters | `PoolsAsConfigured`, `InvalidClassExplained`, `FindsOwnObjects`, `TagsReadBack` |
| `MCInMemBroker` | 2 clients, 3 objects of two words, an IP pool of 2 addresses | `ListExact`, `MonitorFound`, refinement `PromiseKept` |

Why the bounds are enough for the cases that matter: two goroutines on one service
are what the key lock is for, and two services what `lbLock` and the IP pools are
for; a TCP and a UDP port differ in every place the code tells protocols apart; one
failure and one crash reach every prefix of an operation, and a crash during the
repair of a failure or the other way round; in `MCLbService` two failures reach the failed retry of a
failed call; two changes let a service change its ports or class, or be removed by
force and created again while a pass is under way. `MCLbAddresses` has two services
and two classes, so its two changes create both services, or one that changes its
class; a third change is beyond what TLC does in minutes.

`MCNodeSync` starts without nodes, so its three changes make a node come and another
take its place, share its address, or go again, before, during and after a pass; the
services do not share anything but the nodes, so one is enough, and so is one port,
as the ports are independent. In `MCConfig` two objects are enough, since what finds
an object looks at that object alone: one of the controller's own and one of another
one, or two for different services or ports. `Followed` bounds the part after the
start to the files with a tags section, whose classes are the same. In `MCInMemBroker`
the tables share only the counter for ids and the lock, so one table or IP pool is in
use at a time (`MaxTables`); one client reads while the other one writes (`MaxReaders`),
as readers do not affect one another; three objects make a deletion shift two elements,
and two words are what a mixture of two versions needs. A new array has no spare slots
(`MaxSpare`), so `append` replaces the array, or after a deletion writes into it; the proofs
are for any number of spare slots. The other modes of the load balancer service do not
matter in `MCLbAddresses`, which says nothing of what is attached.

Deadlock is checked for the key lock, the load balancer service and the in-memory
broker. It is off
elsewhere, where the bounds end every behaviour once the changes are used up, and a
controller with nothing to do does nothing. That goroutines get on is what the liveness runs show.

### Disagreements between code and documentation

| Run | Property | The code |
|---|---|---|
| `MCLbRecreate` | `CreatedIfRequired` | keeps `lbServiceID` after it has deleted that service (`lbservice.go:80`); the next attach fails until a restart |
| `MCLbNoRouter` | `RemovedIsDetached` | in unmanaged mode without a router does not find the configured service to detach from (`access.go:136`) |
| `MCLbUnattached` | `OkMeansAttached` | never attaches a virtual server that it finds (`state.go:374`) |
| `MCReorgRace` | `SafelyDeleted` | lists the services before the objects (`reorg.go:80`) |

The sentences they contradict are quoted in `PROJECT.json`. Further observations
have no run:

* `AddressHeld` and `AddressExclusive` are claimed without failed calls only: `Finish`
  releases the address of a service under deletion even if `Process` has failed
  (`lbprovider.go:152`), so after a failure they do not hold.
* `NoLeakedAddress` is claimed without failed calls and crashes only: between its
  allocation (`state.go:193`) and its virtual server an address is known to nobody but
  the running call.
* `DetachedFirst` has an exception, with failures only: if the answer to the attachment
  is lost, the new virtual server is deleted (`state.go:405`) although it is attached, and the
  load balancer service keeps a reference to it. Without a router (`MCLbNoRouter`)
  every deletion leaves such a reference, so the property is about configurations with one.
* `NoIdleService` is claimed without failures and restarts only: a load balancer service
  that was created for an attachment that failed (`lbservice.go:56`) stays until the next
  virtual server has come and gone.
* `OrphansCollected` has an exception (`Stuck`): as long as its class is not configured a
  service cannot be deleted (`lbprovider.go:172`).
* `PoolsFollowNodes` has an exception. A worker that listed the nodes, and then waited
  for the key while the node sync loop updated its service, writes the older list last.
  The same happens if the nodes change and change back between two passes while a
  worker lists them. No later pass repairs it: the loop compares the nodes with those
  of its last pass, and the service is not among those that failed.
* The loop compares the names of the nodes, so a node that changes its address keeps the
  old one in the pools.
* Another owner in the tags section makes all earlier objects invisible to the
  controller, for the reorganisation too; `FindsOwnObjects` takes it for another
  controller. Any other change of the section is harmless.
* Whoever reads a list of the in-memory broker, or a monitor, while it is updated may get
  some old and some new words of it, an object that never was. `ListExact` and
  `MonitorFound` claim only that all its words are from versions of this very object.
* In the in-memory broker a deletion shifts the array under those who have just listed
  it: they may miss an object, see one twice, or see words of one and words of the next.
  A search for a monitor that does not take the lock may then even run with the length
  of an old slice beyond the end of a new array (`ReadBeyond`); for a monitor that
  exists, and without a deletion, it does not.
* The in-memory broker never sets the `ResourceType` of a monitor, which
  `FindTCPMonitors` asks for (`access.go:350`): with the simulation no monitor is ever
  found again, and every reconcile makes a new one. `ReadLoadBalancerTCPMonitor` and
  `UpdateLoadBalancerTCPMonitor` are reached only by callers other than the provider.
* `logicalRouterId` is a field of the `LoadBalancer` section (`config/config.go:69`); the
  README's example has it in the `NSX-T` section, where it is dropped.
* The README names the class annotation `loadbalancer.vsphere.class`, the code
  `loadbalancer.vmware.io/class`.

### Fairness

* `sync.Mutex` hands itself to the longest waiter in starvation mode: strong
  fairness of a goroutine that waits for a lock.
* A call to NSX-T is assumed to return, with an answer or an error, so a goroutine
  inside an operation goes on, and gives its locks back: weak fairness of its steps.
* The work queue of the service controller repeats a failed deletion: weak fairness
  of the calls for a service that is to be deleted (`MCReorg`), and of a worker as long
  as something is in the queue (`MCNodeSync`). In `MCReorg` nothing is assumed of when a
  worker processes a service that is not to be deleted.
* The timer of `reorg` is always set again, to 30 minutes at most: weak fairness of
  a pass, and strong fairness of its wait for a key (`MCReorg`).
* The node sync loop runs every 100 seconds (`wait.Until`): weak fairness of its steps
  (`MCNodeSync`).

Failures and crashes are bounded, so they stop at some time; liveness says what
happens then.

## 4. Proofs

TLAPS checks these for every value of the constants: any number of goroutines,
services, ports, nodes, addresses, objects, failures, crashes and changes. They use
the named assumptions of the modules and nothing else: the "nil" values are not
elements of the sets they stand beside, the bounds are natural numbers, workers are
goroutines, the user's specifications have their type, there are finitely many ports
(of which there are some) and finitely many nodes, and there is a virtual server to attach.

**Key lock** (`KeyLockProofs`). `MutualExclusion` is not inductive: it says nothing of
goroutines that wait, nor of the map. `Inv` adds that `l.lock` is held exactly inside
its two sections (`OuterLockInv`), that two keys never share a mutex (`KeysInv`), that
the pointer a goroutine took is still the one in the map (`PtrInv`: entries are never
removed) and that the owner of a mutex is the goroutine that holds its key
(`OwnerInv`). From it follow `KeyLockMutualExclusion`, `KeyLockUnlockFindsOwnMutex` and
`KeyLockImplementsKeyMutex`: the abstract holder of a key is the goroutine between
`Lock` and `Unlock`, which is one goroutine because of mutual exclusion; `AcquireKey`
and `Release` map to the abstract steps, all others leave the holders alone.

**Load balancer service** (`LbServiceProofs`). The centre of `LbInv` is `ItemInv`: the copy
a goroutine has read is what NSX-T has until it is written back, as `lbLock` is held in
between (`LockInv`). `PlaceInv` says that a virtual server is attached to one service at
most, and to one that the filter of `findLoadBalancerService` accepts; it needs that
callers handle a virtual server one at a time (`StageInv`). `LbServiceAddedIsAttached` and
`LbServiceNoIdleService` hold for all modes. Two theorems have a hypothesis, which is
where the code needs it: `LbServiceRemovedIsDetached` needs a router (`RouterGiven`; in
unmanaged mode without one it is false, see `MCLbNoRouter`), and `LbServiceSingleService`
that the router has not got two services before the controller starts (`RouterHasOne`).
`LbServiceImplementsLbRegistry`: the write of the copy is the atomic attach or detach,
the calls that create and delete a service are those of the registry, and all other
steps leave it alone.

**Provider, control** (`LoadBalancerProofs`). `Inv` is `TypeOK` with `CallInv` (a busy
goroutine has a service), `LockInv` (the key of a service is held exactly by the
goroutine that works on it) and `ClassInv` (until the class is set there is no address; on
the way to a new virtual server, or to a release, there are both). `TypeOK` is not
inductive by itself: a virtual server has an address and a class of its type only because
of `ClassInv`. The proof has a lemma per group of steps; `TypeOK` is split into the part
of NSX-T, the control, the locals and the rest, so that a step shows only what it changes.
`LoadBalancerTypeOK`, `LoadBalancerClassIsSet` and `LoadBalancerOneAtATime` follow.

**Provider, objects** (`ReconcileProofs`). `SnapshotCoherent`, `RefIntegrity` and
`OkMeansExact` need one another: what `Process` creates, keeps and deletes is right only
because its lists are not stale, they are not stale because identifiers are unique and
nobody else works on the service, and a pool can be deleted only because no virtual
server refers to it. `Good` is their inductive conjunction: identifiers are unique
(`KeysInv`), the objects of a service are consistent whatever has failed (`DataInv`: one
per port, references resolve, one address), and at each place of the code the lists are
what NSX-T has (`Snapshot`) and a part of the work is done (`Progress`: the ports before
the current one, the monitor and the pool of the current one, the clean-up so far).
`GoroutineAt` is a formula about one goroutine and the objects of its service, so that a
step of another goroutine leaves it alone because of `LockInv`. `LoadBalancerDetachedFirst`
is an action property, for configurations with a router and with any failures and crashes: a
virtual server about to be deleted is detached (`AttachInv`) and stays so, because whoever
attaches works on another service; what is attached exists (`Good`); so only `Rollback` can
delete what is attached.
`LoadBalancerAddressStable` is an action property: only `CreateVirtualServer` adds a virtual
server, with the address of those the service has (`DataInv`, `Snapshot`); an update keeps
the address, and all other steps can only remove one. Unlike the properties of addresses
below it holds with failures and crashes.

**Provider, addresses** (also `ReconcileProofs`). Who has an address is written down nowhere: it
is in the virtual servers, and before the first and after the last of them only in the
state of a goroutine. `Claim` is this ownership; `ClaimsInv` says that what is claimed is
allocated, to one service, and a service claims one address. Only the steps that allocate
and release change claims. That an address is not released too early is `PathInv`, that
it is not taken from the status of a service that has lost it `ServedInv`, and both rest
on how the callers use the provider (`CallerInv`). Like the properties, all but
`CallerInv` is claimed as long as no call has failed. The theorems assume that a service has a
port (`HasPorts`: the API server refuses one without) and, for `AddressExclusive`, that
IP pools do not overlap (`DisjointPools`: NSX-T's business, the code never compares them).

**Reorganisation** (`ReorgProofs`). `Inv` and `Good` also hold with the collector, which calls
`EnsureLoadBalancerDeleted` with arguments of its own for services that users create and
change meanwhile. The steps of the goroutines are those of `LoadBalancer`, so their lemmas
are cited; new are the steps of the pass. Hence `SnapshotCoherent`, `RefIntegrity`,
`OkMeansExact` and `AddressStable` for `ReorgSpec`.

**Node sync** (`NodeSyncProofs`). What `updatedPoolMembers` returns is proved for every list of
old members. The library's induction theorems cannot be used, so an induction is a proof
that there is no least counterexample (`LeastElement`, `Induction`); with it `StillNodesKeeps`
says what the recursive function `StillNodes` keeps, and `UpdatedMembersExact` that the result
has each address once and no other. That needs old members without duplicates
(`PoolsInv`), as the code adds addresses only if fewer members remain than there are
addresses. `ProgressInv` says that the ports a call has done are as it wants them. For a
worker that deletes this is subtle: its list of ports is taken before it has the key, and
stays right because meanwhile only the loop may touch the pools, and the loop never
creates one. Hence `NodeSyncMembersExact`.
`PoolsSettled` needs `SettledInv`: a service that exists and is not in the queue is in the cache; if
nobody processes it, it has all its virtual servers, and its pools have the nodes of the
pass, or it is still to be updated in this pass, or the loop remembers it; and a worker
at work on it has the loop's list, or the loop will write it later, or `late` has it. That
`CheckExists` drops the error of a service without a load balancer is harmless because of
the virtual servers: a service at rest has them, so its errors are not dropped, and one
that has none is queued or processed.

**Configuration and tags** (`ConfigProofs`). `FileInv` says what the start has made of the
file in each phase, `ClassesInv` which classes have been added and with which pool,
`ObjectsInv` which tags an object carries: the pairs that `access.go` put in last, whatever
the tags section holds. Lemmas about `AddTags`, `checkTags` and `getTag` give
`ConfigTagsReadBack` and `ConfigFindsOwnObjects`.

**In-memory broker** (`InMemBrokerProofs`). `BrokerInv` says that an id is in a table once but
for the element a deletion overwrites next (`IdInv`); that this element is the one deleted
or is in the table twice (`DeletionInv`); and of each reader no deletion has disturbed that
its array still has, at every position that was in use when it started, a version of the
same object that was current meanwhile, that the copy it is making is of words this
object had (`Had`), whatever word it reads again, and that it has collected just such copies
so far (`ReaderInv`; `HalfInv` for one that is inside an element). The
critical case is `append`: it replaces the array, and `Detached` leaves its readers with one that
nobody writes any more. `InMemBrokerListExact` and `InMemBrokerMonitorFound` are about a
reader at its end. `InMemBrokerKeepsPromise`: the abstract objects are the table with the
object under deletion, so a deletion takes effect when the slice becomes shorter, and the
shifting steps before it stutter.

### Only model-checked

Liveness: `LockReturns`, `CallsReturn`, `OrphansCollected`, `PoolsFollowNodes`. Fairness and
`ENABLED` are out of this prover's reach. The part of `PoolsFollowNodes` that is about
safety, that no service is forgotten, is `PoolsSettled` and is proved.

## 5. Not modelled

* `nsxt_broker.go`, except for what it promises and for `ReleaseFromIPPool`, registration
  and `cmd/`: adapters, flags and glue without a decision of their own.
* Retries inside the NSX-T client, which may execute a creation twice, and the pages of
  long lists: neither is visible in this source.
* Display names, descriptions, logging, metrics.
* Of the service controller, services that change their type, events, and the deletion
  of services without a finalizer.
* The length of the delays between passes of the reorganisation.

## 6. Plan

Done: all parts of section 1 that have decisions of their own, and the proofs of section 4.

Every invariant, action property and refinement that a passing run checks is proved too.
What is left:

1. Action properties of the objects other than addresses: which steps may take a pool or
   a monitor from a service.
2. Addresses of nodes that change, for `NodeSync`.
