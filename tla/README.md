# A TLA+ model of kube-loxilb

kube-loxilb watches Kubernetes services of type LoadBalancer, takes an address
from an IP pool (IPAM) for each of them, programs forwarding rules into one or more
loxilb instances over REST and writes the address into the service's status. Around
this it elects masters among the instances, keeps a BGP mesh between them, and serves
CRDs for instances, pools, egress rules, BGP objects and the Gateway API. This directory
models these parts, checks them with TLC on small instances and proves the main
safety properties with TLAPS for all.

Paths below are relative to the source tree; `L:n` is line n of
`pkg/agent/manager/loadbalancer/loadbalancer.go`.

## The parts of the system

| Part | Source | Module |
|---|---|---|
| IP pool | `pkg/ippool/ippool.go` | `IPPool`, `IPPoolUsers`, `IPRange` |
| Load-balancer manager: worker | L:302-1335, L:1515-1867 | `LoadBalancer` |
| - secondary addresses | L:785-1030, L:1869-1935 | `Secondary` |
| - annotations, rule options, mTLS | L:500-720, L:1936-2089 | `ServiceOptions` |
| - endpoints | L:1337-1600, `pkg/k8s` | `Endpoints` |
| - addresses in the status | L:1106-1206, `pkg/agent/manager/common` | `ServiceStatus` |
| - instance life cycle | L:2332-2606 | `Reinstall`, `AgentLoop`, `BGPMesh` |
| - role election | L:2226-2331 | `RoleElection` |
| - CIDR pools, host addresses | L:2608-2771 | `LoxiURL` |
| Agent loop, health checks, discovery | `cmd/loxilb-agent/agent.go`, `pkg/api/client.go`, L:2090-2225 | `AgentLoop` |
| Options and start | `cmd/loxilb-agent` | `Startup` |
| Informer factories | `pkg/*-client/informers/externalversions/factory.go` | `InformerFactory` |
| loxilb API client, tokens | `pkg/api` | `Requests` |
| LoxiURL manager | `pkg/agent/manager/loxiurl` | `LoxiURL` |
| Egress manager | `pkg/agent/manager/egress` | `Egress` |
| Gateway API managers | `pkg/agent/manager/gatewayapi` | `Gateway`, `GatewayClass`, `Routes` |
| BGP peer and policy managers | `pkg/agent/manager/bgp*` | `BGPManagers` |
| Meta manager | `pkg/agent/manager/meta` | `Metadata` |
| Log files | `pkg/log` | `LogFiles` |

How they interact. The agent loop (`agent.go:270-299`) receives alive, dead and purge
signals from one health-check goroutine per instance, elects masters, and passes the
signals to the life-cycle goroutine of the load-balancer manager and to the egress
manager; these install again what an instance that came back has lost. The
load-balancer worker syncs one service key at a time: it reads the lister (which may be
behind the API server), the cache and the endpoints, gets or reserves an address in the
pool, calls every instance for every rule, changes the cache, and writes the status.
The LoxiURL manager changes the list of instances and the pools under all of them. The
route managers make Services, which the load-balancer manager then serves; the Gateway
manager takes addresses for them from a pool.

What is composed: the pool with the worker (`LoadBalancer` extends `IPPool`), with the
Gateway manager (`Gateway`) and with arbitrary users (`IPPoolUsers`); the worker with
the life-cycle goroutine and the instances (`Reinstall`); the agent loop with health
checks, life-cycle and egress goroutines (`AgentLoop`); the LoxiURL worker with the
life-cycle goroutine (`LoxiURL`); the start with the managers and their informers
(`Startup`). The managers with work queues share `WorkQueue`, the
contract of client-go's queue (external).

## How to read the modules

Every module maps its variables and actions to the code by name; `PROJECT.json`
("map") gives the lines of each definition. An action is what a goroutine does between two
points where another can step in: a call to the API server or an instance, a channel, a
mutex. Each such call may fail where the module's constant says so. Constants in capitals
of the environment (`Fails`, `Restarts`, `Paced`, `Overlap`, `Late`, `NameReuse`, ...) say
which environment a run or theorem is about, so that each result names its assumptions.
Modules named `MC...` give constants their values. Definitions named for a mistake
(`FreeIgnoresWhole`, `HasPortNever`, ...) are variants of the definition that follows:
plausible bugs that the named property was seen to detect. No specification uses them.

### Addresses and services

**`IPPool`** is the pool. The loxilib allocator is external: `held` is a set of
`<<ip, ident>>`, where `ident` names a port and protocol or is `NoIdent` (the address
as a whole); `Free` is the contract `ippool.go` relies on. `GetNewIPAddr`,
`CheckAndReserveIP` and `ReturnIPAddr` keep the code's retry with `NoIdent` and its
dropped error. Which free address is handed out is left open. `Contains` is
membership here; its arithmetic is `IPRange`.

**`IPPoolUsers`** adds the callers: `granted` is what they were told they have.

**`LoadBalancer`** is the load-balancer manager.

| Model | Code |
|---|---|
| `api`, `lister`, `eps` | services in the API server and in the informer's store, endpoints |
| `queue` | `m.queue`; a key that failed is put back (L:370) |
| `lbCache[s]` | `LbCacheEntry`: `added`, the pairs (`LbServicePairEntry`), the annotation values (`mode`), the endpoints in the cached rule models (`eps`) |
| `rules`, `late` | rules in each instance; delete calls nobody waits for (L:1242-1249) |
| `w` | the local variables of the sync under way |
| `EnqueueService`, `Resync` | `enqueueService` and the resync of the informer |
| `SyncDeleted`, `SyncNoEndpoints` | L:386-388, L:720-783 |
| `SyncIngress`, `SyncReserve`, `SyncCached`, `SyncAllocate`, `SyncExit` | the branches of `getIngressSvcPairs` (L:1772-1867), then the comparisons with the cache (L:825-1029, `ApplyPairs`) |
| `DeleteOK`, `DeleteError`, `LateDelete` | `deleteLoadBalancer` (L:1208-1273) for a deleted service (`release`), one without endpoints (`drain`) and before an update (`install`) |
| `InstallLB`, `InstallError` | one turn of the installation loop (L:1034-1104) and the deferred function (L:797-819) |
| `UpdateService`, `UpdateServiceError` | L:1106-1155 |
| `Restart` | the process ends at any point; pool, cache and queue start anew |

Steps between two calls to the outside are one action: there is one worker, and of
what it reads only the lister, the endpoints and the pool can change under it, each
read once per sync. A sync that returns an error before it changes anything (no
client, a bad annotation) leaves the key in the queue and is a stutter. The
annotations that make the code delete and install again are one value of `Mode`; a
rule is its key; names of addresses in the status (`genExtIPName`) are the address.

Five constants say which environment a run or a theorem is about, so that a result
names its assumptions: `FailStages` (when may *all* instances refuse a rule:
`"first"`, before the service has anything; `"later"`, when a new service already has
some of its rules; `"update"`, when it already had its address), `LostReplies`,
`NameReuse`, `MaxRestarts` and `PortLists` (more than one list per service: its ports
may change). Deletes may fail, partly take effect and come late in all of them.

**`Secondary`** has the secondary addresses (SCTP multi-homing) of several services over
several pools: which pools an annotation selects, `getIngressSecSvcPairs` as a fold over
them, and what is returned when a rule is refused or a service deleted. One sync is one
step; only `lbCache` knows secondary addresses.

**`ServiceOptions`** reads the annotations of one service into the options of its rules,
compares them with the cache and installs anew what differs. Numbers are parsed
(`Atoi`) and cut to their width (`% 256`, `% 65536`) as the code does; the TLS part comes
from annotations and from a Secret, by the keys the Secret has. The comparison does not
look at the TLS part, so `asked` remembers what the annotations asked for when the rules
were last made, and the properties are about that.

**`Endpoints`** computes the endpoints in the five ways of `getEndpoints` (nodes, nodes
of the Local policy, pods, external, Multus networks) and compares them with the cached
ones. Pods come from the API server, slices from a cache that lags behind; a port may be
a name, and each lookup may fail.

**`ServiceStatus`** takes the status as the memory of addresses: names are written by
`GenExtIPName` and read by `ParseIngressHostname`, by agents of several zones, with
restarts between. A name is the sequence of its parts between dashes, so that reading
really splits and joins.

**`IPRange`** is `Contains` and `diffIPIndex` on sequences of octets, with the 64-bit
shift, against the lexicographic order of addresses.

### Instances

**`AgentLoop`** has the goroutines around the instances and the channels between them,
each with its capacity: the health check of every client, the `select` of `agent.go` (one
action per case and per blocking send), the life-cycle goroutines of the load-balancer
and egress managers. **`RoleElection`** opens the election up: one step is one visit of a
client, in the agent loop and in the life-cycle goroutine, which looks whether an election
is over (L:2425) before it calls its own, while health checks write `IsAlive` at any time. **`Reinstall`** is the worker against the life-cycle goroutine that
installs the cache again on an instance found alive; they share `lbCache` without a lock.
**`BGPMesh`** is the neighbour configuration of the same goroutine. **`LoxiURL`** is the
worker of the LoxiURL manager with the clients, pools and host addresses it changes, and
the hand-over of the latter to the life-cycle goroutine under the mutex.

### Managers of CRDs

**`WorkQueue`** (external) is client-go's rate limited queue as a value with operators:
waiting, busy, busy and added again, delayed. What an item *is* differs between
managers (a key or an object) and decides what is merged; each module says which.
**`Egress`**, **`BGPManagers`**, **`Gateway`**, **`GatewayClass`** and **`Routes`** follow
one pattern: users edit objects, the informer enqueues, `processNextWorkItem` takes an
item, the handler's calls are steps (some of which nobody waits for: `late`), and the
item is done or put back. Managers that are copies of one program in the source share
operators with a kind as parameter and keep an operator per copy. In `Gateway` objects are
pointers into a heap, because `createGateway` writes into the informer's own object.

### The process

**`Startup`** goes through the options (flags, file, defaults, validation), the pools, the
constructors and `Run` methods of the managers in the order of `agent.go`.
**`InformerFactory`** is a generated informer factory, with several callers of its
methods. **`Requests`** is a call
to an instance: the token under the global mutex, its refresh over the network, the
request, and the verdict of each of the callers on the answer. **`Metadata`** is the
periodic push of cluster metadata within one deadline, and **`LogFiles`** the monitor of
log files against klog (external) writing and rotating them.

## The runs

Components that answer one question together are checked in one run. Such an MC module is a
sum: the variable `part` names the component and environment a behaviour belongs to and
never changes, `AllNext` has one disjunct per part, and the variables of the other
components stay put. A property of a part holds of the behaviours of that part;
temporal properties say so with `Of(p) == []<>(part = p)`.

| Run | Parts | Checks |
|---|---|---|
| `lb` | two services, one with two ports; two services and two instances on one address | `UniqueServiceIP`, `NoLeak`, `RuleHeld`, `OneAddress` |
| `addresses` | users of a pool; ranges; names in the status, 0.0.0.0 pools; secondary addresses shared, refused, revised; gateways; services on a shared pool; a restart | `GrantsDisjoint`, `MembersContained`, `AddressKept`, `SecondariesHeld`, `AddressesApart` |
| `rules` | endpoints by nodes, Local policy, pods, named ports, Multus, with lookups that fail; options, TLS, refusals; a restarted instance, one that refuses | `RuleTracksCluster`, `RuleFollowsOptions`, `StableRestored` |
| `config` | tokens; calls that are refused or lost; an informer factory with two callers; a service; BGP peers with refused calls and restarts, with events in a row, with changing specs, with refused deletes; BGP policies | `TokenAccepted`, `SuccessMeansApplied`, `ShutdownIsFinal`, `DeletedIsReleased`, `ServiceGetsAddress`, `ConfigConverges`, `ObjectsConfigured`, `ObjectsRemoved` |
| `masters` | an election with rebalancing; both electors; the agent loop | `AtMostOneMaster`, `OneMasterFromThen`, `Arbitrated`, `DeadMasterReplaced`, `RolesArrive` |
| `instances` | LoxiURL objects updated, with lists that grow and shrink, overlapping, pools, hosts; the BGP mesh; metadata; discovery with BGP | `ObjectsFollowed`, `MeshForms`, `MetadataArrives`, `NoCircularWait` |
| `egress` | refusals and restarts; edited lists and egress addresses; selectors; deletion with refused calls | `EgressInstalled`, `EgressRemoved` |
| `gateways` | failing calls and deletion; two workers on one gateway; restarts; a class that cannot be read; classes | `GatewayServed`, `GatewayRemoved`, `ClassAccepted` |
| `routes` | changing backends; deletion over two namespaces; unknown behaviours; TCP and UDP together; nil pointers; HTTP | `RoutesServed`, `RoutesRemoved`, `UserServicesKept` |
| `startup` | all option lists; managers and CRDs; core and metadata; log files | `CurrentKept`, `AgentServes` |
| `lb_unique_restart` | violation: `UniqueServiceIP` after a restart | |
| `loop_hang` | violation: `DeadMasterReplaced` when the dead channel fills | |

What they show, by what the agent promises:

- *Addresses.* On a pool that is not shared no two services have one address, no address
  stays taken when nobody uses it, and none is free while an instance has a rule for
  it, although deletes fail, take effect late and for some instances only. On a shared
  pool two services with a port in common are apart. Secondary addresses, gateways'
  addresses and the names in the status keep the same account.
- *Rules.* After a sync that saw the cluster as it is, the rule has the endpoints and
  options asked for, and the mutual TLS asked for when it was last made. An instance that came back has the rules of all services nobody
  touched, or the agent has exited; the goroutines behind this do not wait in a circle
  below the capacities of their channels.
- *Masters.* While one goroutine elects, no instance has two masters; if none has two
  when the first election is over, none ever gets a second (`OneMasterFromThen`).
- *Arrives in the end.* What users ask for (addresses, rules, peers, policies, egress
  rules, gateways, routes, metadata, mesh, roles), although calls fail, one success
  counts for all instances, instances restart, and workers handle old versions. An
  egress rule or peer is there on every instance; that it has the value asked for holds
  only if no other was ever asked for. Of a list of URLs that grows or shrinks each URL
  gets a client again and again; that the clients are those listed holds for lists that
  are replaced as a whole.
- *Goes in the end.* Less holds of what users delete. A service is released on all
  instances. A deleted egress rule or BGP object goes from *at least one* instance when
  calls are refused: one success ends the deletion. A BGP object goes from all when none
  is refused, except a BGPPolicyApply; for it, as for egress rules, the handler cancels the
  calls it does not wait for. All this is checked for edits that are handled one by one. A
  gateway's Service goes if the deletion is seen, and its earlier versions were handled,
  also by a second worker, when it came. What a route made in its own namespace goes if
  it was the only one of its name and no crash lost its deletion.
- *The process.* All enabled managers serve in the end, a factory that was shut down
  stays so, and log files in use stay.

`lb_unique_restart`: after a restart the pool is empty and services are synced in any
order, so a new service can get the address that another one's status shows.
`loop_hang`: the second `select` case that receives from `loxiLBDeadCh` forwards to
`ClientDeadCh`, which nobody reads; when it is full the loop hangs.

### Bounds

Two of everything where two can conflict (services, clients, objects, agents), one where
they cannot, and a third where a set must differ from both ("address not of the
pool"). `MaxEdits`, `MaxVersion`, `MaxCrashes`, `MaxRestarts`, `MaxDown`, `MaxClock`,
`MaxIssued`, `MaxWrites` bound what the environment does, never what the code does: two
edits are needed for a stale version, three for one that is deleted and comes back while
the first is being handled. Channel capacities are small so that they fill. The token
life is five units of time with a margin of two, so that a request can start on either
side of the margin. Of the workers of a manager there are two where they can meet (egress
rules, BGP objects, gateways and classes; the Gateway API managers run four,
`gatewayapi/const.go:25`), and one for routes: their queue holds keys, so that two workers
never have one route (`OneWorker`, which `RouteProofs` proves for any number), and two routes
that name one Service are excluded from what the properties promise. `lb` is symmetric in the addresses. Deadlock is checked where the
environment never runs out (`lb`, `masters`); elsewhere behaviours end when the bounds are used up,
and that nothing was left undone is what the liveness properties say.

### Fairness

Goroutines that can go on do (weak fairness of each worker's step), delays in a
rate limited queue end, and the informer's resync comes round: the Go scheduler and the
client-go timers give these. Calls that may fail do not fail for ever for one object
(strong fairness of their success): otherwise no retry could help. A blocking send or
receive is fair only while it can take place. Nothing is assumed of users, crashes,
signals, lost messages or the order in which a `select` takes ready cases, except strong
fairness of each case that is ready again and again, which Go's random choice gives.

## What is proved

TLC checks the instances above; the theorems hold for every value of the constants. Eight
modules hold them.

| Module | Theorems |
|---|---|
| `ContractProofs` | `PoolIsSafe`, `PoolAccountIsExact` (IPPoolUsers); `ShutdownFinal`, `AnswersTrue` (InformerFactory); `TokensInTime`, `RefreshesInTurn`, `SuccessIsApplied` (Requests) |
| `LoadBalancerProofs` | `TypeCorrect`, `ClaimsAreExclusive`, `ServiceIPsAreUnique` |
| `LoadBalancerAddressProofs` | `ServiceHasOneAddress`, `NothingLeaks`, `RulesAreHeld`, `SharedPortsApart` |
| `LoopProofs` | `NobodyWaitsInACircle` (AgentLoop) |
| `RouteProofs` | `UserServicesAreKept` |
| `ReinstallProofs` | `TypeCorrect`, `StableServicesRestored` |
| `AgentProofs` | `OneMaster` (RoleElection); `CurrentFilesKept` (LogFiles) |
| `ServiceProofs` | `MembersAreContained`, `NeighboursAreExcluded` (IPRange); `AddressIsKept` (ServiceStatus); `RulesFollowOptions`, `SettledServicesSteady`, `TlsIsApplied` (ServiceOptions) |

All are of the form `Spec => []P`, but for the action property `UserServicesAreKept` and for
`OneMaster`, which says that what holds at one moment holds from then on. The proofs of invariants
have one lemma per action, the last step joins them by temporal reasoning. The named ASSUMEs
of the modules only give constants their types; what a theorem needs beyond them is a
hypothesis of its own.

- **The pool.** `PoolInv` says that the holdings of the allocator are exactly what users
  were told they have; that grants are disjoint follows because `Free` looks at
  all holdings. Hypothesis `ReportsErrors`: the pool is shared, or nobody reserves a
  particular address (`ReserveIPAddr` drops the error otherwise).
- **Unique addresses.** `UniqueServiceIP` speaks of cache entries only, but an address is
  also claimed by the list of the sync in progress and by statuses, seen or still
  in the lister. `UniqueInv` says that every claim is held in the pool as a whole
  (`ClaimsHeld`), that claims of two services are disjoint (`ClaimsDisjoint`), what the stages
  of a service's life allow (`LifeCycle`), and that an address that a step of the sync may return
  is claimed nowhere else (`MayReturn`). Hypothesis `UniqueEnv`: no restart, no name used again,
  no refusal by all instances after the service has a rule.
- **One address.** This does not rest on the account of the pool, so that it holds for shared pools and
  through restarts. `AddressInv` says that all claims of a service are one address (`OneClaim`) and,
  which keeps a sync from asking for another, that a service with a rule, or with an address that the
  lister does not show yet, has all its rules in the cache, except while they are being installed
  (`Provided`); a restart empties the cache, but then the status is listed anew. Hypothesis
  `AddressEnv`: fixed ports, no name used again, no refusal by all instances after the first rule.
- **Nothing leaks, rules are held.** `HeldInv` ties every holding and every rule of an instance to
  an entry of a service, in the cache or in the list of the sync (`NoLeak`, `RulesOwned`), says
  with `OneClaim` that its entries cover all its ports except while
  they are being installed (`Complete`), and that an address given back after a failed first
  attempt is in no rule (`FreshClean`). `HeldEnv` adds to `UniqueEnv` that replies are not lost
  and a service's ports are fixed: otherwise the address of a rule nobody knows of is free.
- **Shared pools.** `SharedPortsApart` (`NoRuleConflict` of `LoadBalancer`, which the run `addresses` checks
  as part of `AddressesApart`) says that services on one address have different ports. `SharedInv`: what
  a service claims is held under its port (`Reserved`), services with a port in common claim different addresses
  (`PortsApart`), and what a service gives back is of its own port (`Keyed`). An address must not be
  reserved anew under `NoIdent`, so a service that is listed with one has its rules in the cache
  (`CachedIfListed`). Hypothesis `SharedEnv`: as for one address, without restarts and with one port for each
  service, since the pool is asked for the first port only; replies may be lost.
- **Routes.** A worker deletes one after the other what it has listed. `RouteInv` says that a user's Service
  carries no route's name, and no Service those of routes of two kinds (`Marked`), and that what a worker is still to delete is there and has its
  route's name (`Works`): no other worker takes it away and lets a user use the name again, since no two
  workers have one route (`OneWorker`), which the contract of the queue gives (`Queues`, `Sound`).
  Hypothesis `NoUpdate`: no route asks to update a user's Service in place.
- **Reinstallation.** `Promised`: for each running instance found alive and each stable service,
  the rule is there, or an alive signal is still in the channel, or the life-cycle goroutine has
  the service before it or is at it with attempts left. Hypothesis: instances refuse less often than the agent retries
  (`Patient`), or there is one service (`Single`); otherwise one success masks a failure.
- **Channels.** `NoCircularWait` says that a goroutine which blocks does so on one that can go on. What
  keeps the channels from filling is a count: `LiveBound` and `AliveBound` charge every alive event, queued or
  still due, to a client, a failure or a requeued client (`doBGPCfg`, which keeps a client from being requeued
  twice: `Requeued`); `DeadBound` charges every dead event to a failure. A client is purged once and only
  after its health check has stopped (`Doomed`, `Purged`), and the two pools have clients of their own
  (`PoolsApart`), so the loop never stops a check that is gone or sends more purges than there are
  clients. Hypothesis `Capacities`: the channels have room for that many clients and failures. In the code they
  are 50 (`loxiLBLiveCh`, `ClientAliveCh`), 64 (`loxiLBDeadCh`, `ClientDeadCh`) and 5 (`loxiLBPurgeCh`), so it
  speaks of up to five clients, and of a time in which at most 40 failures happen; what happens
  beyond is shown by `loop_hang` and listed below. Checks need not
  notice a failure (`FastRestart`).
- **Elections.** `OneMaster` has no hypothesis: both goroutines may elect, and health may change at any
  point. From the first moment at which an election is over and no other is under way (`FirstElectionOver`)
  only the agent loop elects (`Alone`), because the life-cycle goroutine looks at `electionRunOnce` first.
  `ElectorInv` then says what the elector knows at each visit of its two loops (a master that the scan
  does not remember comes later; a selection that has not chosen starts without one), so that one
  master stays one. Until then two overlapping elections can leave two masters; see below.
- **Tokens and calls.** `IInv` bounds the age of a request against the life of its token,
  under `Prompt` (the margin exceeds the delay; clients start at once; no restarts or lost
  answers). `AllHonest` relates a call's verdict to its effect, under `Strict` (instances do not answer
  with an error under status 200 to calls that drop it).
- **Factories.** `FactoryInv` says that what callers were told is still so: the flag that keeps new goroutines
  away is up for whoever waits for a shutdown or has come out of one, and whoever waits for caches has
  ticked off only complete ones.
- **Log files.** `LogsInv`: the file klog writes is the latest of its severity, in the
  directory and in the older listing the monitor works from.
- **Ranges.** No induction is needed: `diffIPIndex` is reduced to the difference of fourth octets,
  and an address between two that share leading octets shares them. `NeighboursAreExcluded`
  needs ranges written in order (`Ordered`), which `NewIPPool` does not check.
- **Status.** `ReadBack`: a name written by one agent is read back as the same address by it and
  as none by the others. `StatusInv`: each entry is the name of an address that the agent took or
  the user gave, and an agent that took one finds it. Hypotheses: zones are apart, of one
  part, and no address or group of one (`ZonesApart`); users' addresses are not of a pool
  (`AddressesReadable`).
- **Options.** `OptionsInv`: all ports have rules or none has, their options are those of the
  cache, and after a success the cache is what the annotations say; what compares equal to the
  stored options is stored as the same (`SameStored`), although ports are cut to 16 bits.
  `TlsInv`: the rules there are have the mutual TLS that was asked for when they were made (`asked`);
  nothing is claimed of a later change of the TLS annotations or the Secret alone.
  Hypothesis `AllOrNothing`: one port, or no refusals. With two ports and refusals
  `RuleFollowsOptions` fails: the refused sync leaves a rule that the next one does not delete.

### Only model-checked

- *Liveness* (`DeletedIsReleased`, `ConfigConverges`, `RoutesServed`, `RolesArrive`, ...): fairness and
  ENABLED are out of the prover's reach.
- *What recursive definitions compute*: `SecondariesHeld` and `RuleTracksCluster` rest on
  folds over pools and pods, and induction over data is not available.
- `AddressesApart`: its parts about services are `ServiceHasOneAddress` and `SharedPortsApart`; for its part about
  gateways no inductive invariant has been worked out.

## What does not hold

Two runs are expected to fail (above). Other disagreements with what the code or its README says
were met outside the environments of the runs; the constant that shows each is in parentheses.

- A pool that is not shared answers that it reserved an address somebody holds
  (`ippool.go:143`; `IPPoolUsers`, `Reserver`).
- Refusals by all instances after a service has a rule or an address return an
  address that is still in use (L:805, L:1098; `FailStages` with `"update"` or `"later"`); with
  secondary addresses likewise (L:811, L:972; `Secondary`).
- A service of several ports keeps a rule with old options when an update was refused for
  one of them (L:1034-1104; `ServiceOptions`, `NPorts` 2, `Refuses`); a change of TLS annotations or of the Secret
  alone is not noticed until another option changes (`EditTls`); a probe of type ping gets a port (L:652).
- `diffIPIndex` compares only one octet in the end (`ippool.go:174`; `OnlyMembersContained`).
- Zone names with dashes, or that are hexadecimal groups, spoil the reading of names
  (`util_extip.go:80-92`; `ZoneOf`).
- Pods of two versions with different numbers for a named port share the first pod's
  (`servicePort.go:53`; `Endpoints`); a rule that a failed update has dropped from the cache stays in
  the instance while there are no endpoints (L:1007-1021), and a network-status that does not parse drops
  the pods listed after it (`multus.go:162`).
- Errors that come with status 200 are dropped by deletes (`lb.go:254`; `Refused200`).
- One success masks a later failure of the reinstallation (L:2577; `MaxRefusals`), two
  electors whose first elections overlap may leave two masters, which stay until one of them is found dead
  (L:2426; `Elector`), and a discovery that purges more clients than
  the channel holds hangs the loop (L:2161; `PurgeCap`).
- A CIDR pool whose range changes keeps the old one (L:2691; `LoxiURL`), and a second host address can block
  both goroutines (L:2623).
- A LoxiURL object whose list grows loses the clients of its old URLs, gets them back at the next resync without
  those of the new ones, and so on (`loxiurl.go:310-323`); one that shrinks keeps the clients of the URLs it
  dropped; and of an update and a deletion that are handled late clients remain (`Lists`, `Paced`).
- The rules of a deleted Egress stay on instances that refused the call or whose call was cancelled when
  another one succeeded (`egress.go:231`, `egress.go:363`); those of an address that an edit drops from the list
  stay everywhere, and an edited egress address does not replace the old one, since the answer "exist" is taken for
  success (`egress.go:320`; `Vip`, `Lists`). With two workers a creation that is handled late can come after the
  deletion, and its rule stays (`Paced`).
- BGP objects likewise: an edited spec keeps the old configuration, a refused delete leaves an orphan
  (`bgppeer.go:240`), and so does a cancelled one of a BGPPolicyApply (`bgppolicyapply.go:213`; `BGPManagers`).
- A gateway whose update failed other than by a conflict keeps an address it does not hold, in the informer's
  store alone, until its next version (`gateway.go:215`; `Fails` with `"update"`), and
  gateways' addresses are not reserved after a restart (`gateway.go:205`; `Gateway`). A Service that one worker
  creates after another has listed those to delete stays (`gateway.go:287`; `Paced`), and so does that of a gateway
  that is deleted while the agent is down (`Restarts`).
- A route that fails between two copies stays so (`tcproute.go:397`); copies and Ingresses are not updated
  (`httproute.go:278`). A missing Gateway without a namespace panics (`tcproute.go:189`), and so does the update
  of a Service without a class or without annotations (`tcproute.go:451-455`); the crash loses queued deletions, so
  that what the routes made stays. Services in another namespace than the route's are never deleted, routes
  of one name in two namespaces take each other's Services for their own (only the name is noted,
  `tcproute.go:452`), and two kinds of routes may update one Service (`Routes`).
- An instance that hangs keeps metadata from those after it (`meta.go:103`; `Metadata`), and FATAL
  log files are not limited (`logFile.go:195`).

## What is not modelled

- Generated clients, listers, deep copies and registrations: they have no behaviour of
  their own. Utilities for log messages and slices.
- Bodies of requests, and Get and List calls no manager depends on: the data is abstract.
- The contents of certificates; only which keys a Secret has.
- Of the worker: a change of the pool annotation or of the type of a service, static
  addresses, the egress annotation, an empty client list.
- Of the process: signal handling and the parsing of flags by the library.
- Time is modelled only where it decides something (tokens, metadata); otherwise delays are
  steps that happen at last.
