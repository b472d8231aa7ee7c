# A verification project for DeviceJS

DeviceJS is a distributed runtime for the internet of things. Every node runs a
server process (Node.js) and a DeviceDB process; client processes (*peers*)
connect to the server, register the *resources* (devices) they control, send
requests to selections of resources, and subscribe to the events of resources.
Nodes find one another, share records through DeviceDB, and forward requests and
events to the node that controls a resource.

This directory holds TLA+ modules for the parts of the program whose
correctness depends on the order of events or on an algorithm, the TLC
configurations that check them, and TLAPS proofs. `PROJECT.json` lists components, runs, mutants, the
source lines behind every definition, findings, hazards and theorems. Paths
below are relative to `src/src/core` unless they say otherwise.

- [Inventory](#inventory)
- [How the code is modelled](#how-the-code-is-modelled)
- [Modules](#modules)
- [Runs](#runs)
- [Fairness](#fairness)
- [Proofs](#proofs)
- [Where the code departs from its promises](#where-the-code-departs-from-its-promises)
- [Not modelled](#not-modelled)

To check: `tlc -config X.cfg M` for the module and configuration of a run,
`tlapm M.tla` for each of the eight `*Proofs` modules.

## Inventory

### Server process

| Component | State | Operations | Correct when | Module |
|---|---|---|---|---|
| Locks (`asyncLockMap.js`): `AsyncMutex`, `AsyncLockMap`, `AsyncRWLock` | queues of pending promises, `acquired`, counts of readers and writers, a map from keys to mutexes | acquire/release, rlock/runlock, wlock/wunlock | holders exclude each other, promises are resolved in order, each in the end | `AsyncMutex`, `AsyncLockMap`, `AsyncRWLock` |
| `ReachabilityMap` (`ddbReachabilityMap.js`) | database records, a read/write lock, a lock map, updates that failed, a timer | clear, markAsReachable, markAsUnreachable, resync | the records hold the last mark of each resource, or the difference is remembered | `ReachabilityMap` |
| `DeviceJSCore` (`core.js`) | `_devicejsPeerMap` (peer → resources), `_resourceMap` (resource → peer, reachable), caches | handlePeerConnect/Disconnect, handleRegisterResource, handleUnregisterResource, mark(Un)Reachable, getSelection | the two maps agree; nobody who is gone controls anything; the reachability map is told of every change | `PeerRegistration` |
| `HTTPServer` (`httpServer.js`): owner records | one record per resource in DeviceDB: the nodes that control it | /register, /unregister, removal of this node | a node whose peer controls the resource is named | `ResourceOwners` |
| `HTTPServer`: requests | `requestMap`, one timer per request | POST /request, responses of clients, answers of other nodes, timeout | each request answered exactly once, with every response that came in time | `RequestFanout` |
| `ForwardingManager` (`requestManager.js`) and the 'request' listener (`httpServer.js`) | `responsePromises`; `requestMap` of the other node | forwardRequests, the answers, tunnel disconnect, the listener's entry, timeout and onward requests | every forwarded request gets one answer or fails, with no response made up | `ForwardedRequest`, `ForwardedAnswer` |
| `CloudTunnel`, `CloudSubscriberRegistry` | socket, `_isConnected`, the cloud's subscriptions | start, stop, connect, disconnect, the cloud's messages | the server has exactly the cloud's subscriptions | `CloudTunnel` |
| `SubscriberRegistry` (`registry.js`) and `DDBSubscriberRegistry` (`ddbSubscriberRegistry.js`) | subscriptions in memory, log and input records in the database, a lock map, a cache | subscribe, unsubscribe, unsubscribeAll, gc, getSubscribers | memory and records agree; other nodes find every established subscription | `SubscriberRegistry` |
| `HTTPServer`: subscriptions and publishing | `peerConnectionMap` (sockets, selectors) | /subscribe, /unsubscribe, /publish, socket connect and disconnect | subscribers are told of what they subscribed to | `PeerSubscriptions` |
| `FlatSelection` and the evaluation of selections (`registry.js`, `selection.js`, `ddbResourceIndex.js`) | local to a call | graph of a selection, matching of a resource, evaluation over the index | the ways to evaluate a selection agree, as far as they read the same of a resource | `SelectionGraph` |
| `ResourceIndex` and its DeviceDB form (`ddbResourceIndex.js`), `ResourceGroupTree` | records of resources and of groups, a cache of answers | addResource, removeResource, joinGroup, leaveGroup, createGroup, deleteGroup, queries | no join is lost, no leave comes back, cached answers are current | `ResourceIndex` |
| `NodeMonitor` (`nodeMonitor.js`) | heartbeat map, gossip peers | ticks, heartbeats, merge, link up and down | a node is reachable while its count grows | `NodeMonitor` |
| `ResourceMonitor`, `MonitorMap`, `PollingStateMonitor` (`resourceMonitorController.js`) | monitors, subscriptions, polls, `stopped`, one timer | start, stop, the refresh loops | what is active = the valid stored monitors | `ResourceMonitor` |
| `LinkStateTable` and routes (`router.js`), `TopicMap` (`topicMap.js`) | link states with numbers; a tree of topics | link changes, digests, merges, shortest paths; subscriptions with wildcards | tables converge; routes are shortest; exactly the matching clients are found. `router.js` is used by its tests only, `TopicMap` also by the in-memory groups of `registry.js` | `LinkStateTable`, `ShortestPaths`, `TopicMap` |
| `ResourceStateCache`, `ResourceLinkGraph`, tokens, proxies, logs, the routes around them | database records | one batch or one query per operation | the call is made | none |

### Client process and command line

| Component | State | Operations | Correct when | Module |
|---|---|---|---|---|
| `HTTPPeer` (`httpPeer.js`), `DeviceJSPeer`, `ResourceSelection`, controllers (`peer.js`) | socket, association id, registered resources, subscriptions | connect, reconnect and replay, discover, subscribe, respond to commands | after a reconnect the server knows all the client does | `PeerSubscriptions` (subscriptions) |
| `src/src/runtime/modules.js` | staging and modules directory, `stagedModules`, node's `require` cache | install, enable, disable, uninstall | what is installed has its dependencies, in versions that suit, wherever a copy stops | `ModuleInstall` |

### Interactions

- `HTTPServer` calls `DeviceJSCore` from its socket listeners (connect,
  disconnect) and routes; it keeps a request in `requestMap` and is called back
  by the sockets of clients (`response`), by `ForwardingManager` and by a timer.
- `ForwardingManager` sends a request to another node by HTTP or, when it has no
  address, through `CloudTunnel`; there the 'request' listener asks its clients
  and forwards once more what it does not control. `NodeMonitor` says which nodes
  are there.
- Nodes meet in records of DeviceDB that each of them reads, changes and writes
  back: owner records and the records of resources and groups. Concurrent writes
  become siblings that the next reader merges.
- `DeviceJSCore` tells `ReachabilityMap` of every change and does not wait.
- `ReachabilityMap` and `DDBSubscriberRegistry` serialise their batches with the
  lock classes; other nodes read the records.
- A server evaluates a selection twice per request, once for its own resources
  and once for those of others. A request asks the resource index, a subscription
  is matched against a resource's own record.

### Behaviours that are hard

A server has one thread, so a function runs to its end or to its next `then`
undisturbed. What is hard is what comes between two continuations: another call
of the same operation, a disconnect, a timeout, an answer that is late, a batch
that fails or was applied before its acknowledgement got lost, a crash between
two batches, a client whose new socket opens before its old one closes, and a
record that another node rewrote between a read and a write.
`PROJECT.json` lists each hazard at its line with the properties that cover it.

## How the code is modelled

- **A step** is one turn of the event loop: all a handler does up to its next
  wait. Every wait (database, other node, lock) ends a step, and anything may
  happen before the continuation.
- **Database.** A batch is atomic. It succeeds, fails, or fails after it was
  applied. Reads may fail. (External: DeviceDB.)
- **Exceptions.** In a promise they reject it, which has the effect the code
  gives it (often none). In a socket listener or a timer nothing catches them
  and the process ends.
- **Names.** Actions bear the names of the methods where one action is the whole
  method; where a method waits, its steps are named for what they do.
- **Mutants.** Next to some definitions stand variants with a plausible bug;
  no specification uses them. Each property of a passing run is violated when
  the mutant `PROJECT.json` names for it takes the place of the original.
- **Siblings.** DeviceDB keeps concurrent writes of a record side by side. A write
  supersedes the siblings that its context has seen; a read returns them all with
  their common context. A put with the empty context (nothing was there)
  supersedes nothing, a delete with the empty context removes everything.
- **History variables.** Each module marks its own ("history") where it declares
  them; no guard of the code depends on them (`used` makes fresh uuids). Those named `kept`, `tainted`,
  `spoiled`, `raced`, `doubled`, `disturbed`, `target` record which behaviours a property excepts, and why; the
  [defects](#where-the-code-departs-from-its-promises) they stand for are listed below.
- **Runs of several components.** An MC module extends or instantiates several
  independent components; a variable `class` chooses one in the initial state, and
  the variables of the others keep a fixed value.

## Modules

### AsyncLock, AsyncMutex, FifoLock, AsyncLockMap, AsyncRWLock (`asyncLockMap.js`)

`AsyncLock` has one operator per method. It maps the fields of the object to
the fields it has afterwards and the set of callers whose promise it resolved;
a queue of `resolve` functions becomes a queue of callers. The other modules
put callers around one object: `mutex`, `map` or `rw` is the object, `pc` (`at`)
says what became of each caller's promise. `SubscriberRegistry` and `ReachabilityMap`
use the same operators, so the flaws of the classes are in those models too.

`FifoLock` is what a mutex promises: callers stand in one line, whoever is at
its head is in the critical section. `AsyncMutex` implements it with `line` =
the holder followed by the queue.

A call of `AsyncRWLock` is used once, because a promise is resolved once; that
matters since `wunlock()` leaves the entries of resolved promises in
`readerQueue`, and resolving such a promise again changes its caller in no way
while it does change the counts.

### ReachabilityMap (`ddbReachabilityMap.js`)

A mark passes through `rwait` (waiting for the read side of the resync lock),
`ready` (resolved, its continuation not run yet), `kwait` (waiting for the key)
and `sent` (its batch is under way). `AcquireKey` runs continuations in the
order in which their promises were resolved, as the microtask queue does.
`interval` has the value "cleared" for a timer that was cleared while
`resyncInterval` still holds it. `Init` allows any records of an earlier process.

### PeerRegistration (`core.js`)

| Variable | Code |
|---|---|
| `sockets` | open sockets of each association id at the socket server |
| `peerMap`, `resourceMap` | `_devicejsPeerMap`, `_resourceMap` |
| `marked` | what `_reachabilityMap` was last told (its own failures: ReachabilityMap) |
| `reg` | executions of handleRegisterResource, and the await they are at |

`Register`, `RegisterChecks` and `RegisterTakes` are the three parts of
handleRegisterResource between its waits, `RegisterFails` its error exits.
`DisconnectThrows` is handlePeerDisconnect when the entry is gone: the exception
ends the process, and the restarted server begins with empty maps and `clear()`.
Both maps are changed in the same turn in all the other actions, which is why
they are one step.

### ResourceOwners (`httpServer.js`)

Nodes read the owner record of a resource, add or remove themselves, and write it
back. `written` lists the writes with their owners and context; a replica
(`store`) has its siblings and all it has ever seen. `register`, `unregister`, `Lookup` and
`Disconnect` begin an update or change who controls the resource; `GetRecord`,
`GetFails`, `PutRecord` and `PutFails` are the answers of DeviceDB; `Decide` is the
lookup that finds its own node named without a peer and begins
removeThisNodeFromResourceOwners. `Sync` is replication, in any order. The promise
is `ControllerIsNamed`. The converse, that a named node controls the resource, does
not hold and is not claimed: a disconnect leaves the record as it is, and a removal
may be undone by an update that another node had begun before; the lookup exists to
repair that. `PutFails` may leave the write applied, as a put whose answer is lost does; the
caller has then failed although the record names its node.

### RequestFanout (`httpServer.js`)

| Variable | Code |
|---|---|
| `entry` | `requestMap[commandID]`: `isReady`, `pendingResponseCount`, `responseSet`, `updateBatch`, and the closures finish, cancel, ready and response as operators |
| `timer` | the 10 s `setTimeout` |
| `fwd`, `emitting`, `otherIsReady` | the two promises given to Promise.all, and the flag they share |
| `asked` | clients that got the command and have not responded |
| `registered` | the resources some local client controls; changes at any time |
| `answers`, `cached` | what went to `res`, and to the state cache |

The answer of other nodes is external to this module: for each forwarded
resource a response, a record that says there was none, or nothing at all.
`ForwardedAnswer` states this as a specification of its own, which
`ForwardedRequest` is shown to implement.

### CloudTunnel, ForwardedRequest, ForwardedAnswer (`cloudTunnel.js`, `cloudSubscriberRegistry.js`, `requestManager.js`, `httpServer.js`)

`CloudTunnel` has the socket, what its listeners do, and the cloud (external), which
adds and removes subscriptions and repeats all of them after a connect. `stop()`
removes the listeners first, so that nobody hears of the disconnect.

`ForwardedRequest` extends it with one call of forwardRequests:

| Variable | Code |
|---|---|
| `call`, `leg`, `responseMap` | the promise of forwardRequests, one entry of `forwardPromises` per server, and what it resolves with |
| `sent`, `reply` | the request and the answer under way |
| `entry`, `timer` | `requestMap[commandID]` of the server that got it, and its timeout |
| `onward` | the resources that server controls no more: owner lookup, and the request to a third server |
| `asked`, `responded` | clients that got the command there; history of who responded to anybody |

A direct leg ends by an answer, an error or a broken connection; a leg through
the tunnel only by an answer or a disconnect, which rejects all such promises
and with them the call. In the composition the subscriptions of the cloud stay
out (they share only the socket); `CloudTunnel` is checked for them by itself.
The refinement maps a resolved call to "answered", a rejected one to "lost".
When a client that the other server asks has lost its socket, the listener throws
(`httpServer.js:830-842`): nobody is answered, and the requester sees what `PostFails`
and `ServerCrash` show it.

### PeerSubscriptions (`peer.js`, `httpPeer.js`, `httpServer.js`)

| Variable | Code |
|---|---|
| `held` | the client's `subscriptions` (SubscriptionSet), by id |
| `socket` | the client's socket: at the server only, or also `ok` at the client |
| `selectors` | `peerConnectionMap[associationID].selectors`; a client without a connection has no entry |
| `registry` | the ids in the subscriber registry's memory |
| `calls` | each POST /subscribe: sent, in its batches, answered, done |
| `unsub` | a client's POST /unsubscribe under way |

`Replay` is the client's 'connect' listener (it clears the set and subscribes
again). `SubscribeArrives`, `SubscribeStored` (or `SubscribeFails`) and
`SubscribeAnswered` (or `SubscribeAnswerLost`) are the turns of a /subscribe at
the server and the client. `cleanupConnections` is the socket's 'disconnect'
listener, `Publish` is publish() for local peers. Of the registry the model uses
what SubscriberRegistry shows: memory changes at once, batches end later or
fail. Strays (`stray`) are the ids of which nobody is left to unsubscribe:
`disturbed` clients had a request refused, failed, cut off or crossed by another
of theirs.

### SubscriberRegistry (`ddbSubscriberRegistry.js`, `registry.js`)

`subscribe`, `unsubscribe` and `unsubscribeAll` are the synchronous prefix of
each method (memory, then `acquire` of all keys); `BatchSucceeds` and
`BatchFails` are the outcomes of the first and the second batch, `Finish` the
release of all keys. `Restart` loses memory and keeps the records; `gc()` is
part of it and deletes nothing, as in the code. `LookupInputs` and `LookupLog`
are the two reads of another node's getRemoteSubscribers, and `cache` its cached
result.

### SelectionGraph (`registry.js`, `selection.js`, `ddbResourceIndex.js`)

`ToGraph` and `BuildKVMap` are the loops that turn a parsed selection into a
graph, one action per turn of the loop; `Token...` are the branches of
_getOutput. The ids are handed out as the code does, off by one. Beside them
stand `isInSelection` and `evaluateSelection` as recursive functions over
`ParsedSelections`, the trees with at most `Depth` levels of operators.

The three evaluations read a resource in three ways, and each has its own
operator for a check:

| Check | Subscription: `getInputs` | Request: `getResources` | `isInSelection`: `Satisfies` |
|---|---|---|---|
| `id="x"` | the resource's id, no record needed | a record of that id | the id is compared, the index not asked |
| `id=*` | every resource | every record | as a request |
| `group="a"` | a group on whose path "a" is (`OnPath`) | a group whose name begins with "a" (`Begins`), "ab" too | as a request |
| type or interface | what the record says | what the index lists, also what the record once said | as a request |

A resource of `Candidates` therefore has its `id`, whether there is a record
(`indexed`), the types and interfaces of the record (`others`), those it is listed
under (`listed`), and the groups that list it. `EvaluationsAgree` says how far the three
agree all the same. `RequestsAgree`: a request finds only what isInSelection grants, and
of the resources with a record all. `SubscriptionsAgree`: a subscription to a check or to
an "or" of checks is matched by no such resource that isInSelection denies; and a
resource that the index has as its record says (`AsRecorded`) matches a subscription
to a check whenever isInSelection grants it. Both exceptions are needed: a resource without
a record has an id and no place in the complement that `not` takes, and one in "ab" is
found by a request for "a" and matches no subscription to it.

### ResourceIndex (`ddbResourceIndex.js`, `resourceGroupTree.js`, `core.js`)

An operation (`task`) is a sequence of requests to DeviceDB; `at` is the one it
waits for and `got` what it has read. The record of a resource names its groups,
that of a group its resources. `Path` and `Text` are constants, because the code
compares in two ways: the cache is dropped along the path of a group, while
listing a group takes every record whose key begins with its name (the group
"ab" is listed under "a"). Three kinds of operations overlap freely: those on one
resource, those on one group, and queries. `removeResource` erases the record and
leaves the groups side by side, in any order. `Fail` is a request that fails, `FailErase`
and `FailLeave` one of those that a removal makes side by side, whose other ones go on. A
write that fails may have been applied (`Applied`), with its answer lost; that it is
applied later still is not modelled. The lookup whose failure nobody handles stays "hung".

The cache has answers under keys of several kinds (`Keys`): the questions for a value, and
those of getResources with one argument (`AnyId`, which stands for type and interface as well,
`AnyGroup`) and with none (`Everything`). `Dropped` are the keys each operation drops.

`MembershipIsKept` says what must be in the records (`expected`) once an operation
ended that no contradicting one overlapped. `CacheIsCurrent` says of the answers that are cached
while no operation is under way that DeviceDB would give them, too. It is about the keys that the code
keeps up to date (`OwnKeys`), and of getResources() only that what it names exists. `raced` has
the answers that the code lets go stale in the course of events: dropped while they are read, not
dropped because an operation failed (`Undropped`), or about what a write brought back after it
had been removed (`Revived`, `BroughtBack`).

### TopicMap, LinkStateTable, ShortestPaths (`topicMap.js`, `router.js`)

`router.js` is required by its tests only. `TopicMap` is the group index of `ResourceIndex` in
`registry.js` (lines 22 and 31), whose groups are kept in memory; `ddbResourceIndex.js`, which the
server uses, overrides every method that touches it.
A node of the topic tree is the path to it. The rounds of `NodesOf` are the queue of
getPublishSet: which nodes it comes to (`Reached`) depends on the topic alone, the clients are
then those of these nodes. They are compared with `Covers`, what a pattern means by itself. In
`LinkStateTable` a synchronization is a digest, a difference and a merge, and all
three messages may be late, lost or passed on. `ShortestPaths` is the loop of
getShortestPathTree, in which any of the nearest nodes may be taken, and
updateRoutingTable, which follows `previous` from a node to the root; they are compared
with a definition by sets of nodes within k links (`Within`).

### NodeMonitor (`nodeMonitor.js`)

`count` is the heartbeat map, and `fresh` the servers whose time is less than tFail ago:
time itself is abstracted, so that a server may stop being fresh at any moment.
`Tick` is a turn of the interval with its two random peers, `heartbeat` the
handler of POST /heartbeat, `CloudHeartbeat` a map the cloud passes on. Counts
saturate at `MaxCount`, from where on a tick sends the same map again; a
restarted server begins at 0, as in the code.

### ResourceMonitor (`resourceMonitorController.js`)

`loop` are the refresh loops, one for each start(): `NextRecord` is the callback
for one record of a read, `Purge` what follows the last one, `ReadFails` the
error exit; `timer` is the one loop whose timer stop() can clear. `polls` are the
PollingStateMonitors, of which one that is "stopped" is still sampling.
`kept` are the monitors which MonitorMap keeps over stop() (see below).
A record of kind "throws" is valid but has a selection that subscribe() cannot parse
(`resourceMonitorController.js:252`, `registry.js:201`): the monitor is then in the map, without its
poll and perhaps without its subscriptions (`partial`), and the exception leaves the callback that
DeviceDB's client called. What becomes of the read is the client's affair (external): it goes on with the next
record, or the read has failed. That the exception ends the process is not modelled. A record whose body is
`null` throws at line 138, before anything is changed, and is counted as invalid.

### ModuleInstall (`src/src/runtime/modules.js`)

A task is a call of installModule, named by the path of requests that led to
it; `archive` and `extracted` are the files of the staging directory, `stagedModules` and
`required` the process's variables, which an exit loses. `Resolve`, `getActualVersion` and
`InstallDependencies` are the three parts of the resolution: all dependencies
are looked at, the registry is asked for each, and all are installed side by side.

`moveStagingToInstalled` lists the staging directory and begins a move for each module in it
(`moves`). A module is copied by `mv`, in any order; when all are copied each is removed
from the staging directory and then its empty directory there (`rmrf`). Each of these
may fail halfway, and the process may be killed between any two (`Killed`): `cut` are the modules that
were not copied. `Fail` is a request or a file operation of a call that fails. Archives are not moved; a failed
command leaves one behind. `uninstall` removes the module also when disableModule() failed, so
that a link to nothing may stay in `enabled`; it does not ask who depends on the module.
The deletion itself is `wrench`'s, external, and may leave a part.

`InstalledCanRun` says that what a command found to move has its dependencies, in versions that
suit: where the move got through among the installed modules, and where it was cut short
in the staging directory (`InPlace`). So a crash may leave a module installed whose dependency still
waits in staging, but none that has none or the wrong one. The command's own module (`target`) is
excepted where what it needs needs it in turn: with A@2 needing B and B@1 needing A@1, which is
installed, an upgrade of A puts A@2 beside the B that it breaks, since nothing looks at the module
that is being replaced.

## Runs

Passing runs show that every listed property holds in every reachable state of
the instance. Each combines several components by `class`; distinct states are
in brackets.

**`locks`** [340 155], `MCLocks`

| Component | Shows | Bounds, and why they are enough |
|---|---|---|
| AsyncMutex | mutual exclusion and its invariant (`Inv`), order of arrival by refinement (`FifoOrder`), each acquire is granted | four callers: a queue longer than any case release() tells apart. Proved for every number |
| AsyncLockMap | nobody waits on a mutex that was deleted (`KeysArePassedOn`), each acquire is granted | four callers, two keys: a key can have a holder, a second holder (the flaw below) and two waiters. Safety proved for every number |
| AsyncRWLock | at most one writer, no reader inside is uncounted (`RWInv`), readers admitted only without a writer (`ReadersAdmittedAlone`) | five one-shot calls: stale queue entries are counted twice, a writer is admitted over readers. Proved for every finite number |
| ReachabilityMap | quiet records hold the last mark or remember it (`QuietIsSynced`); no key stays locked, resyncs do not pile up (`ReachabilityLocksAreFreed`) | four marks (three at once) of two resources, two resyncs: a resync between, before and after failed marks. Proved for every number |

**`registration`** [2 111 774, by symmetry of nodes and updates], `MCRegistration`

| Component | Shows | Bounds |
|---|---|---|
| PeerRegistration | as long as no peer had two sockets at once, owners are connected and a disconnect unregisters all (`Inv`, `OwnershipEndsWithConnection`); in every case the reachability map is told of each change (`MarksMatchResources`) | two peers, resources and registrations, two sockets per peer, crash and restart included. Proved for every number |
| ResourceOwners | `ControllerIsNamed` and its inductive invariant `OwnersInv` | two nodes, two updates together, three writes: a registration between another node's read and write, and a merge after it. Proved for every number |

**`requests`** [316 942], `MCRequests`

| Component | Shows | Bounds |
|---|---|---|
| RequestFanout | answered once, the timeout finds its entry, the count covers all that is pending (`EntryIsSound`); only the timeout leaves a listed resource out, and while registrations do not change the answer covers the selection (`AnswersComplete`); answered in the end (`EventuallyAnswered`) | three resources: one per promise and one that moves between them. Requests share nothing but the registrations. Safety proved for every number |
| ForwardedRequest | the entry of the other server always has its timer and waits for somebody (`ForwardedEntryWaits`); its answer lacks no response that came in time (`RepliesComplete`); the call implements `ForwardedAnswer` (`ImplementsAnswer`) and settles without tunnel legs (`DirectCallSettles`) | two servers, one with two resources and one with one: legs of both kinds, an entry that counts down in two steps, a third server. Safety and refinement proved for every number |
| CloudTunnel | `CloudSubscriptionsMatch` | two subscriptions, three messages under way. Proved for every number |

**`subscriptions`** [679 153, by symmetry of clients], `MCSubscriptions` (with the checks and resources of `MCSelection`)

| Component | Shows | Bounds |
|---|---|---|
| PeerSubscriptions | the registry has nobody's subscriptions but strays (`SelectorsCover`); only a subscription that failed or was cut off keeps an event from others (`EventsReachSubscribers`); what a client lists is what the server serves, and what the application wants stays subscribed (`ReconnectKeepsSubscriptions`) | two clients, one selection, three /subscribe calls: a reconnect replays two subscriptions, or one of them crosses a cancellation. Proved for every number |
| SubscriberRegistry | one call at a time writes the records of an id, inputs never without their log entry (`RecordsAreWrittenInOrder`); quiet records match memory; lookups find established subscriptions | three calls on two ids, a restart, failing batches, one lookup of another server. Proved for every number |
| SelectionGraph | how far a request, isInSelection and a subscription agree (`EvaluationsAgree`); no resource with a record matches a selection of two levels falsely (`NoFalseMatch`) | every selection with up to two levels of operators over an id, a group and a type; six resources: without a record, in the group, below it, in one whose name only begins like it, of another type than it is listed under. `EvaluationsAgree` is proved for all checks, levels and resources |
| TopicMap | `PublishSetIsExact`: nobody is missed, nobody else is told | two clients, one pattern of each kind, every topic of up to two levels and two of three. Proved for all clients, topics and patterns |

**`structures`** [1 276 695], `MCStructures` (extends its components; those that `class` did not
choose rest in an initial state)

| Component | Shows | Bounds |
|---|---|---|
| ShortestPaths | `RoutesAreShortest` | every table of four nodes, unknown and one-way links included. Proved for every finite number |
| LinkStateTable | `EntriesAreReports`, `SyncCatchesUp` | three nodes, two changes, one synchronization at a time: an old table is passed on over a third node. Proved for every number |
| ResourceIndex | `MembershipIsKept`, `CacheIsCurrent` | three operations and failing requests together, of every kind, on two resources and two groups of which one is below the other, with queries of two arguments, one and none; `Text` is `Path`. Proved for every number, and every way to name groups |

**`node_services`** [290 386], `MCNodeServices`

| Component | Shows | Bounds |
|---|---|---|
| NodeMonitor | no map is ahead of what a server counted (`CountsAreReal`); a restarted server is heard again (`ServersAreHeard`) | two servers, one restart, counts to 2, two heartbeats under way: a restart is remembered by the other, and an old heartbeat arrives after it. `CountsAreReal` is proved for every number |
| ResourceMonitor | subscriptions and polls match the monitors (`ActiveIsMapped`), and these the records in the end (`MonitorsConverge`) | two monitors, two starts, two changes, one read that fails or record that throws: two loops interleave. `ActiveIsMapped` is proved for every number |
| ModuleInstall | what a command installs can run, wherever it stops (`InstalledCanRun`) | three modules with two versions: A needs B and C, B needs C, a version of C needs A; two commands, one failure or kill: a shared dependency, an upgrade through a cycle, a copy that is cut short between two modules. Proved for every number |

Deadlock is checked in `subscriptions`; the other passing runs end when their bounded calls are used
up, or (locks) when the read/write lock leaves a call waiting for ever.

Six runs show that the code does not do what a comment, a document or a test
says: `async_lock_map_exclusion`, `peer_reconnect_ownership`, `selection_graph_or`,
`subscriber_registry_iff`, `deleted_groups`, `dependency_versions`, the third in `MCSelection` with
two ids, the last with four modules of which two share a dependency. They are explained
[below](#where-the-code-departs-from-its-promises).

## Fairness

- `AsyncMutex` and `AsyncLockMap`: weak fairness of `Release(c)`. Every user of the
  classes releases in both branches of its last `then`, and DeviceDB's client
  settles its promises. Nothing is assumed of `Acquire`.
- `RequestFanout`: weak fairness of `Timeout` only. A timer that is armed fires;
  clients, other nodes and the database may stay silent for ever.
- `ForwardedRequest`: weak fairness of the timeouts, of Promise.all (`Resolve`) and of
  `PostMoves`: a request by HTTP arrives, is answered, or its connection breaks and
  the sender is told. Nothing is assumed of clients, databases, crashes and the tunnel.
- `NodeMonitor`: weak fairness of the arrival of a heartbeat under way, and strong
  fairness of a tick whose heartbeat to a given peer is not lost. A peer is chosen
  by Math.random() in every turn of an interval, so each is chosen again and again; that a network
  between two servers that are up loses not everything for ever is assumed of it.
- `ResourceMonitor`: weak fairness, for each loop, of its timer (`Refresh`) and of its read going on
  (`ReadsOn`). Reads that fail and records that throw are bounded.
- The other specifications state safety only and assume nothing.

## Proofs

Each theorem holds for every value of the constants that its assumptions allow. Most of
these say that a set is finite or a bound a number; the bounds of the models (`Max...`)
are arbitrary, so that a theorem says of the code what holds however long it runs.

| Module | About | Theorems | Assumptions |
|---|---|---|---|
| `LockProofs` | AsyncMutex | `InvHolds` (`Inv`), `MutexSafe`, `MutexIsFifo` (AsyncMutex implements FifoLock) | none |
| | AsyncLockMap | `KeysPassedOn` (`KeysArePassedOn`) | none |
| | AsyncRWLock | `RWInvHolds` (`RWInv`), `WritersExclude`, `ReadersAlone`, `ImmediateWriters` | `CallsAssumption`: finitely many calls |
| | ReachabilityMap | `ReachabilityLocksFreed` (`ReachabilityLocksAreFreed`), `QuietSynced` (`QuietIsSynced`), and the invariants `ReachInvHolds`, `DataInvHolds` | `ReachabilityAssumption`: some resource, bounds are numbers |
| `RegistrationProofs` | PeerRegistration | `TypeCorrect`, `InvHolds` (`Inv`), `OwnershipEnds`, `MarksHold` | `MaxSocketsAssumption`: MaxSockets is a positive number |
| | ResourceOwners | `OwnersInvHolds` (`OwnersInv`), `ControllersAreNamed` | `MaxWritesAssumption`: MaxWrites is a number |
| `RequestProofs` | RequestFanout | `SoundEntries` (`EntryIsSound`), `CompleteAnswers` (`AnswersComplete`) | `ResourcesAssumption`: finitely many resources |
| | CloudTunnel | `CloudSubscriptionsHold` (`CloudSubscriptionsMatch`) | `SubscriptionsAssumption`: finitely many subscriptions |
| | ForwardedRequest | `EntriesWaitForSomebody` (`ForwardedEntryWaits`), `CompleteReplies` (`RepliesComplete`), `ForwardImplementsAnswer` (`ImplementsAnswer`) | `ForwardAssumption`: finitely many resources, each forwarded to one server, and no server asked for nothing (forwardRequests goes by the servers of its resources) |
| `SubscriptionsProofs` | SubscriberRegistry | `RecordsWrittenInOrder`, `MemoryMatchesRecords` (`QuietRecordsMatchMemory`), `EstablishedAreFound` (`LookupFindsEstablished`) | none |
| | PeerSubscriptions | `SubscriptionsAreListed` (`SelectorsCover`), `EventsReach`, `SubscriptionsSurvive` (`ReconnectKeepsSubscriptions`) | `PeerAssumption`: MaxCalls is a number |
| `GossipProofs` | NodeMonitor | `RealCounts` (`CountsAreReal`) | `MonitorAssumption`: peers are nodes, bounds are numbers |
| | LinkStateTable | `EntriesReported` (`EntriesAreReports`), `SyncsCatchUp` (`SyncCatchesUp`) | none |
| | ShortestPaths | `ShortestRoutes` (`RoutesAreShortest`) | `PathAssumption`: finitely many nodes, the router itself is one |
| `NodeServicesProofs` | ResourceMonitor | `MonitorsAreMapped` (`ActiveIsMapped`) | `ResourceMonitorAssumption`: bounds are numbers |
| | ModuleInstall | `ModulesCanRun` (`InstalledCanRun`) | `InstallAssumption`: finitely many modules and versions, bounds are numbers |
| `ResourceIndexProofs` | ResourceIndex | `MembershipKept` (`MembershipIsKept`), `CacheCurrent` (`CacheIsCurrent`) | `IndexAssumption`: groups form a tree, whose paths are prefixes in their text; `MaxOps` is a number |
| `SelectionProofs` | TopicMap | `ExactPublishSets` (`PublishSetIsExact`) | `TopicsAssumption`: no pattern is empty, or goes on after "#" |
| | SelectionGraph | `SelectionsAgree` (`EvaluationsAgree`) | `DepthAssumption`: Depth is a number; `CandidatesAssumption`: the index lists a resource at least under what its record says, and a group's path is a prefix of its text |

In every module the argument is an inductive invariant: it holds at first, each action
keeps it (one lemma or step per action), and it implies the property.

**AsyncMutex.** Mutual exclusion is not inductive: a release() that resolves a
caller who already holds, or one who queues twice, would break it, and so would
an acquire() that finds `acquired` false while somebody holds. `Inv` adds that
the queue is exactly the pending callers without repetition (`QueueIsWaiters`)
and that `acquired` tells whether there is a holder (`AcquiredIffHeld`).
`AppendFacts`, `TailFacts` and `TailSet` say what a push and a shift do to such a
queue. The refinement maps `Acquire` to `Join` and `Release` to `Leave`; by `Inv`
the CHOOSE of the mapping picks the one holder.

**AsyncLockMap.** Two chains may hold one key, so mutual exclusion is not what the
map keeps. It keeps `Serves(locks, K, T, W, held)`: those who wait for a key are the
entries of its queue, each once, and a key that has a mutex is held by somebody, who will
release it. `ServesAcquire` and `ServesRelease` show for any map of locks that the two operators of
`AsyncLock` keep that; the proof about ReachabilityMap uses the same two lemmas for the lock map
inside it.

**AsyncRWLock.** `OneWriter` needs that queued writers are pending, each once
(`QueuedWritersWait`): otherwise a hand-over resolves a promise whose caller is
done and leaves `writers` at 1 with nobody inside. It also needs that what
`readerQueue` holds, stale or not, are calls of rlock() (`QueuedReadersRead`):
otherwise wunlock() would resolve a writer. `ReadersCounted` (`readers` is at
least the number of readers inside) is proved beside it from lemmas on the
cardinality of the set of readers: one that enters or leaves, and the whole
queue that wunlock() admits, whose length is at least the number of calls in it,
however often a stale call is in it. `ReadersAlone` and
`ImmediateWriters` are action properties that follow from the same invariant;
the second needs the counts.

**ReachabilityMap.** `ReachInv` is about the locks: the lock map serves the marks
(`Serves`), `readers` counts at least the marks inside (it may count too many, because wunlock() leaves
entries in `readerQueue`), the resync is the lock's only writer and its fields tell how
far the resync is (`WriterIsResync`). Each action is first reduced to its effect on these
(`MarkEffect`, `UnlockEffect`, `ResyncEffect`, `ResyncOver`). `DataInv` adds the data: while marks of one
resource have not overlapped, the one in progress is the last that was asked for, what a
resync writes is all that is pending since no mark is inside meanwhile, and every
other resource is `Synced`: what is pending of it is right, or else its record. A batch that
fails is pending then, whether it was applied or not.

**PeerRegistration.** `OwnersConnected` needs that a connected peer is listed with
all it owns (or a disconnect leaves something behind), which needs that an entry
exists exactly while the peer has its one socket (or a connect replaces a list
that is not empty). All three are conditional on `~doubled`; a crash resets it,
and `DisconnectThrows` is shown to restore the invariant from any state.
`MarksMatchResources` holds also with doubled sockets and is proved from `TypeOK`
alone.

**ResourceOwners.** That a controller is named cannot be shown from the records
alone: a sibling that names it may be superseded. `OwnersInv` follows the write
of a registration. `SeenIsClosed`: whoever has seen a write has seen all that
write had seen. `SeenIsSucceeded`: what a replica has seen is among its siblings
or superseded by one of them; for a merge of two replicas this needs the last of
the writes that follow a given one (`LastFollower`, by the well-founded order of
numbers). `ControllerIsRemembered`: of a controller that is not spoiled there is
a write that the node's replica has seen, which names it, and every write made
with knowledge of it, or about to be made, names it too. Then the sibling that
follows it names the controller, which is `ControllerIsNamed`.

**RequestFanout.** The difficulty is the count. `Counts` says what it covers: all
listed resources that have not answered, those the owner lookup may still strike off, and once
more those among them that both promises counted because the resource moved while they
looked. Every step keeps this, whatever registrations change, so the count is 0 only when
nobody is waited for. `ReadyInv` says that the second promise to be ready makes the entry
ready, and `Split` that the two promises list the selection exactly while registrations do not
change: then the count is exact, and the answer complete.

**CloudTunnel, ForwardedRequest.** Of the messages of the cloud about a subscription the last
one that is under way decides (`LastWins`); that is kept when the cloud appends one or repeats all of them, and
gives the property when the inbox is empty. `ForwardInv` has, for each server, an entry
that exists exactly while its timer runs, whose count is at least the silent resources a client was asked
for or that are looked up, and at most all silent ones (`EntryOK`): it is never 0 in an open
entry, and unless the timeout cuts it short the entry is answered only when all that were asked have responded. A server that the request has not reached has no part in it
(`Unreached`). The refinement uses that a response was never made up (`CallInv`): each step is a
step of `ForwardedAnswer` or leaves its state.

**SubscriberRegistry.** The invariant is stated per id (`IdOK`), because a call works on
several ids and takes their locks one by one. `IdUsers`: at most one call subscribes an id and
at most one cancels it. `IdLocks`: the one that cancels queues exactly while the other holds the
lock. `IdRecords` and `IdQuiet`: which of the two records the calls in progress have
written and deleted. With at most two users of an id the flaw of the lock map has no effect here,
which is why its records are written in order. `LookupOK` follows one lookup: what it owes it has seen
in the inputs, and finds in the log.

**PeerSubscriptions.** `NumberOK`: what the registry has and is no stray is of a connected client and in its
batches or among its selectors, which is `SelectorsCover`, and why no event is missed. For clients that were not
disturbed, `Registered` and `Remembered` relate the three lists of a subscription: what the client
holds, what the registry has, what the application wants. They differ only by calls in
progress and by cancellations that are sent and have not arrived (`Covered`).

**NodeMonitor, LinkStateTable.** The highest count a server ever had only grows, and
every count in a map or message was copied from one that the server had.
That an entry of a link state table is a report needs that the sequence number of a
router's own entry is the number of its reports. A synchronization catches up because
no table ever goes back (`TablesGrow`): what was known when a digest was made is known
when the difference to it arrives.

**ResourceMonitor.** `IdMapped` says per monitor that its active version is the one the map has,
or none after a restart, and that one poll runs for it (`Polled`), or none if setting it up threw. It needs that everything
is inactive while stopped, and that a record which is being read has a version
(`RecordsWereWritten`), or it would start a poll for version 0, which stands for no monitor.

**ModuleInstall.** `InstalledCanRun` speaks of what is moved; `InstallInv` says what holds before. While
there are calls nothing is moved (`Calling`, `MovesOK`). Every call of installModule but the first was made by another one, for a
version that this one was answered, and is done before it (`ChildOK`); what is staged was
answered to some call (`TreeOK`); unless the command is tainted, a module
has one call (`CleanOK`), its files are what that call wrote (`FilesOK`), and each of its dependencies is
installed in a version that suits, or some call was answered such a version, or
it has yet to be answered itself (`NeedsOK`, `Provided`). When the move begins all calls are done, by
induction over the paths of requests (`AllDone`), so each answer has become a directory in staging.
A dependency that was installed before is not replaced, since only what was not installed is asked for,
or it is the command's own module, which the property excepts. From then on each copy, removal,
failure and kill leaves every module where it is in place (`InPlaceKept`): the copy that is cut short
is still in staging, and nothing is removed there before all are copied.

**ShortestPaths.** `PathInv` is Dijkstra's: `previous` leads to a node that is taken, linked
and one nearer (`TreeOK`); of two nodes the taken one is not the farther, and the neighbours of a taken
node are at most one link behind it (`TakenOK`). The code's Infinity is a number in the model, the
count of the nodes; `NeverFull` shows that no distance comes up to it, since as many nodes
would have to lie nearer. At the end `WithinIsDistance` says that a node is within k links exactly
when its distance is at most k, and the route of a node is that of its predecessor, down to a
neighbour of the root.

**ResourceIndex.** Records are sets of siblings, so the invariant is about what has been read
of them. A sibling is named by the operation that wrote it, and whoever holds a copy of one holds
it as it is in the record (`SiblingsOK`), so that a write supersedes what its operation has
read and nothing else. `InOK` and `OutOK` are `MembershipIsKept`; what an operation under way that
nothing contradicts has done to the two records so far is `OwnOK` (one definition per kind, `JoinOK` to
`RemoveOK`), and it makes the membership true when the operation ends. Each step is reduced to its
`Effect` on one record, and a write to what it does whether or not its answer arrives (`Written`), so that
an operation that goes on and one that fails share the lemma. `CacheOK` is about the keys of which
something is said (`Claimed`: `OwnKeys` and getResources()): an answer that is cached, or is about to be, is
as DeviceDB's (`Fits`), or an operation that has written and not yet dropped it will do so (`Ending`, `Covers`), or it is in
`raced`. A step leaves what is cached as good as it was (`Stays`), or covers it, or makes it known as stale
(`Stale`). It needs `OwnKeys`, or a change of the group "ab" leaves the answer for "a" behind.

**TopicMap.** `NodesOK` relates the clients of the nodes to the subscriptions that hold: removeClient
finds every node of a client, because `mentioned` never forgets. The walk is sound because each task's path
fits what is used up of the topic (`WalkIsSound`), and complete because the way to a node that fits
is in the tree and each round goes one level on (`WalkIsComplete`).

**SelectionGraph.** That a recursive function has the values its definition says must be
shown to begin with (`LevelsRun`, `OrsRun`, `MeaningRuns`, `EvaluationRuns`): TLA+ defines it by a CHOOSE.
`ChecksAgree` and `InputsAgree` relate the three ways to read a check, and need that an indexed resource is listed
under what its record says and that a group's path is a prefix of its text. By induction
on levels `evaluateSelection` finds the resources for which `isInSelection` says yes
(`EvaluationFinds`): only these, so that the complement needs the converse for those with a record. `SelectInv`
follows the graph: for a single check the one token goes to the root
exactly when the resource's inputs have the check (`SingleOK`); the parts of an "or" that does not hold are all `Dead`,
not among the inputs either, so that whatever the wrong ids link them to, no token starts (`OrsOK`).

**Recursion.** The library's induction theorems cannot be used here. What recursive functions compute (`SelectionGraph`,
`TopicMap`, `ShortestPaths`, the paths of `ModuleInstall`) is proved from the order of the numbers: were the
statement false there would be a least number for which it is (`LeastNumber`), and
the step from the one before it contradicts that.

**Only model-checked.** Liveness, which the prover cannot reason about:
`ServersAreHeard`, `MonitorsConverge`, `EventuallyAnswered`, `DirectCallSettles`,
`EveryAcquireIsGranted`. And `NoFalseMatch`: it is about selections of two levels, and is
false for deeper ones (see below), so that only an enumeration shows it; the
run has all of them.

## Where the code departs from its promises

With a run:

- **A key of an AsyncLockMap can be held twice** (`async_lock_map_exclusion`,
  `asyncLockMap.js:128`). release(key) deletes the mutex when its queue is empty,
  also when it has just granted the lock to the last waiter.
- **Log records without input records** (`subscriber_registry_iff`,
  `ddbSubscriberRegistry.js:73`). When the second batch fails, nothing undoes or
  repeats the first, against the comment at line 68.
- **A resource left to a peer that is gone** (`peer_reconnect_ownership`,
  `core.js:260`). A reconnect before the old socket closes replaces the peer's
  entry; the resource stays "Already registered" for everybody, and the close
  of the second socket ends the process.
- **`A or B` matches one of its sides only** (`selection_graph_or`,
  `registry.js:541`). The test that expects otherwise does not return its promise.
  `A and B` never matches; `A and (B or C)` makes the matching throw.
- **Deleting a group leaves its children in the records of their resources**
  (`deleted_groups`, `ddbResourceIndex.js:366`), against `peer.js:774`: only the
  group itself is taken out of them.
- **Dependencies that do not see each other** (`dependency_versions`,
  `src/src/runtime/modules.js:551`). A dependency is staged only when the registry has
  answered, so two that are resolved side by side choose versions of a third
  without the check for conflicts that the comment at line 557 describes. In the run one
  command, in which nothing fails, installs a D that does not suit C.

Seen while modelling, and part of the models, without a run of their own:

- runlock() admits a writer while other readers are inside, and drops a queued
  writer when a writer is active (`asyncLockMap.js:158`).
- wunlock() never empties `readerQueue` (`asyncLockMap.js:185`): at the next
  wunlock() the stale entries are counted as readers who never leave, and
  wlock() is not resolved any more. rlock, wlock, rlock, runlock, wunlock, runlock, wlock,
  wunlock leaves `readers` one too high.
- In `ReachabilityMap` overlapping marks of one resource may be applied out of
  order through the lock map's flaw, which is why `QuietIsSynced` asks for marks
  that do not overlap. Two failed resyncs with a mark queued behind the first
  block all later resyncs and marks through the read/write lock. `resyncInterval` is never
  set to null (`ddbReachabilityMap.js:78`), so that after one successful resync a later
  failure is remembered and never retried; a resync does not clear what it wrote.
- Two registrations of one resource that are both past the check both succeed
  (`core.js:450`); the resource is then listed with two peers.
- The owner lookup of a request ends it as soon as the count is 0, ready or not
  (`httpServer.js:1430`), so that a request during which a registration changes
  may be answered without resources of the other promise. Both promises may
  count one resource, and the request then runs into its timeout.
- The record of a failed forwarded request is stored as a response
  (`httpServer.js:1454`), so the requester reads `receivedResponse` true; and as it has
  no `result`, the state cache refuses the whole batch of a state request.
- A request through the tunnel has no timeout at its sender
  (`requestManager.js:148`), and a disconnect of the tunnel loses also the answers of
  the servers that were asked directly (`requestManager.js:60`).
- stop() of the tunnel keeps the cloud's subscriptions until the next
  disconnect (`cloudTunnel.js:109`; `kept` in `CloudTunnel`).
- A subscription that is in its batches when its connection closes
  (`httpServer.js:1056`), or whose batches fail, stays in the registry for ever
  unless its client comes back and cancels its selection. While the client is
  away, an event that matches it makes publish() throw before the
  subscribers after it are told (`httpServer.js:231`).
- A /subscribe that is answered across a disconnect, on a selection that already
  was a selector, leaves the client with an id that the server has dropped.
- After a reconnect each subscription has a new id, which the application is never
  told (`peer.js:118`): unsubscribe(selectionID, id) with the id it was given cancels
  nothing, against `peer.js:653`.
- MonitorMap keeps its monitors over stop(), so that after the next start() a
  monitor that has not changed is not active (`resourceMonitorController.js:124`; `kept` in
  `ResourceMonitor`).
- FlatSelection (`registry.js:541`) can match a resource falsely when operators are nested four
  levels deep: a resource that satisfies only c matches
  or(or(or(or(a, a), a), or(or(a, a), a)), and(or(c, d), d)), because a token climbs into a
  part of the graph that is not above its check. `NoFalseMatch` therefore speaks of two levels.
- The three evaluations of a selection differ for one check (`registry.js:263-303`, `424-426`): isInSelection
  compares an id without asking the index while a request does, and `group="a"` is a prefix of
  the group's name for both of them and a path for a subscription. Registering a resource with
  another type or interface never removes what the index has of the former one
  (`ddbResourceIndex.js:237`), so a request for it still finds the resource and a subscription does not match it.
- getInputs adds the groups above to the object it is given, which is the one in the cache
  (`registry.js:280`; `Expand` in `ResourceIndex`): getResourceProperties then answers with groups
  that the resource is not in.
- listGroup("a") also finds what is in "ab", by the prefix of its name, but a change of "ab" drops
  what is cached along its own path only (`ddbResourceIndex.js:322-339`).
- What is cached of getResources("group") is dropped by no change of a group, and of getResources() by no
  addResource (`ddbResourceIndex.js:83-98`): both answers are stale until they expire, without any race.
  `CacheIsCurrent` is about the other keys (`OwnKeys`), and of getResources() says what is left.
- A query that reads before an update and answers after it leaves a stale answer
  in the cache for ten minutes. createGroup drops nothing although it may bring a
  resource back, a write that brings back a removed record does not drop the answers that
  it is not there, and a failing operation drops nothing (`raced` in `ResourceIndex`).
  A failing lookup by id, type or interface never settles (`ddbResourceIndex.js:117`).
  removeResource passes over some of several siblings (`ddbResourceIndex.js:283`).
  addResource with fewer interfaces leaves the old keys (`ddbResourceIndex.js:237`).
- An install that failed leaves its staging directory, and the next one moves it into
  place (`src/src/runtime/modules.js:371`); a module that is needed twice is extracted
  twice at the same time into one directory (`tainted` in `ModuleInstall`).
- A move that fails or is killed between two copies leaves a module installed without its dependency, which
  is still in staging (`src/src/runtime/modules.js:371-390`). uninstall() swallows a failing disable and leaves a
  link to a module that is gone (line 635). An upgrade does not look at what depends on the module.
- A monitor with a selection that cannot be parsed makes subscribe() throw in the callback of a database
  read (`resourceMonitorController.js:252`): the monitor counts as up to date and is never polled (`partial` in
  `ResourceMonitor`).
- getReachability compares keys by substring; nobody calls it.
- The handlers of /heartbeat and /forwardEvent never answer. The handler of
  forwarded requests reads owner records in the `lww` bucket that are written in
  the `shared` bucket. `NodeRouter` uses `app` and `address`, which it never
  defines, and nothing constructs it. The code that starts mDNS discovery is commented out,
  so that nobody calls `NodeMonitor.addPeer`.

## Not modelled

- **Text**: the grammar and parser of selections, the schemas, argument parsing,
  formatting, logging, documentation, `docs/`.
- **One call and its answer**: tokens, proxies, resource types, `ResourceStateCache`,
  `ResourceLinkGraph` and their routes: they check their arguments and make one
  batch or one query; nothing interleaves, and a model would restate the call.
- **getState**: POST /request with one promise instead of two; its entry and timeout
  are those of `RequestFanout`.
- **Forwarded events and the log of events**: forwardEvent sends and forgets; a lost
  event changes nothing at its sender.
- **The rest of the client library**: the replay of registrations (one request per
  resource), discovery, and controllers, which pass each command to a function
  of the application.
- **getResourceTypeDefinition** of `DeviceJSCore`: a database read with a cache that is
  never changed.
- **The keys by type and interface** of a resource: they are written in the batch of its
  record and told apart from it by nothing the properties say.
- **Process control** (`start`, `stop`, `run`, `shell`): each command makes one call.
- **mDNS, sockets, the cloud and DeviceDB**: external. The models have what the code
  sees of them: messages that arrive, late or never; batches, siblings, replicas.
