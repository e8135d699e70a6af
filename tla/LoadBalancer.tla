----------------------------- MODULE LoadBalancer -----------------------------
(***************************************************************************)
(* The load-balancer manager of kube-loxilb                                 *)
(* (pkg/agent/manager/loadbalancer/loadbalancer.go): one worker takes       *)
(* service keys from a work queue and brings the loxilb instances, the IP   *)
(* pool and the service's status in line with the service and its           *)
(* endpoints.  A sync is a sequence of steps (read the lister, delete rules,*)
(* install one rule per address and port, write the status); the API        *)
(* server, the informer, the endpoints and the loxilb instances move        *)
(* between any two of them.                                                 *)
(*                                                                          *)
(* Data is abstracted: the annotations that force a rule to be deleted and  *)
(* installed again are one value of Mode, the endpoint list is one value of *)
(* Endpoint, a rule is its key <<ip, port>>, an ingress list is its set of  *)
(* addresses.                                                               *)
(***************************************************************************)
EXTENDS IPPool, Sequences, Naturals

CONSTANTS
  Service,    \* names of services of type LoadBalancer
  Client,     \* the loxilb instances
  Mode,       \* configurations given by the annotations
  Endpoint,   \* endpoint lists that are not empty
  None,       \* no service, no configuration, no endpoint
  PortLists,  \* PortLists[s]: the port lists service s may have
  NameReuse,  \* may a deleted service be created again?
  FailStages, \* when may every instance refuse a rule?  See Stage
  LostReplies,\* may a rule that was refused be in place all the same?
  MaxRestarts \* bound on the restarts of the agent

ASSUME LoadBalancerAssumption ==
  /\ None \notin Service \cup Mode \cup Endpoint
  /\ PortLists \in [Service -> SUBSET (Seq(Port) \ {<<>>})]
  /\ \A s \in Service : \A l \in PortLists[s] :
       \A i, j \in DOMAIN l : l[i] = l[j] => i = j
  /\ NameReuse \in BOOLEAN /\ LostReplies \in BOOLEAN
  /\ FailStages \subseteq {"first", "later", "update"}
  /\ MaxRestarts \in Nat

VARIABLES
  api,       \* the services in the API server
  lister,    \* the informer's copy of them
  eps,       \* the endpoints of each service
  queue,     \* m.queue: the keys to sync
  lbCache,   \* m.lbCache
  rules,     \* the rules in each loxilb instance
  late,      \* delete calls nobody waits for any more
  w,         \* the worker: where its sync stands
  up,        \* is the agent running?
  restarts   \* how often it was restarted

vars == <<api, lister, eps, queue, held, lbCache, rules, late, w, up, restarts>>

SvcObj ==
  [st : {"unborn", "live", "gone"}, ports : Seq(Port),
   mode : Mode \cup {None}, ingress : SUBSET IP]

(* LbServicePairEntry, the entry of one rule in the cache. *)
Pair == [ip : IP, port : Port, inRange : BOOLEAN, ident : Ident]

(* SvcPair: a rule to install; allocd says that this sync took the address. *)
SvcPair == [pair : Pair, idx : Nat, allocd : BOOLEAN]

LbCacheEntry ==
  [added : BOOLEAN, pairs : SUBSET Pair,
   mode : Mode \cup {None}, eps : Endpoint \cup {None}]

Worker ==
  [pc : {"idle", "delete", "install", "status"},
   svc : Service \cup {None},
   then : {"release", "drain", "install"},
   list : SUBSET SvcPair, todo : SUBSET SvcPair,
   eps : Endpoint \cup {None}, fresh : BOOLEAN]

(* Every variable keeps its type. *)
TypeOK ==
  /\ PoolTypeOK
  /\ api \in [Service -> SvcObj]
  /\ lister \in [Service -> SvcObj]
  /\ eps \in [Service -> Endpoint \cup {None}]
  /\ queue \subseteq Service
  /\ lbCache \in [Service -> LbCacheEntry]
  /\ rules \in [Client -> SUBSET (IP \X Port)]
  /\ late \subseteq Client \X (IP \X Port)
  /\ w \in Worker
  /\ w.svc = None <=> w.pc = "idle"
  /\ up \in BOOLEAN
  /\ restarts \in 0..MaxRestarts

Absent(st) == [st |-> st, ports |-> <<>>, mode |-> None, ingress |-> {}]

NotCached == [added |-> FALSE, pairs |-> {}, mode |-> None, eps |-> None]

Idle ==
  [pc |-> "idle", svc |-> None, then |-> "install", list |-> {}, todo |-> {},
   eps |-> None, fresh |-> FALSE]

Init ==
  /\ held = {}
  /\ api = [s \in Service |-> Absent("unborn")]
  /\ lister = api
  /\ eps = [s \in Service |-> None]
  /\ queue = {}
  /\ lbCache = [s \in Service |-> NotCached]
  /\ rules = [c \in Client |-> {}]
  /\ late = {}
  /\ w = Idle
  /\ up = TRUE
  /\ restarts = 0

-----------------------------------------------------------------------------
(* The users and the cluster. *)

CreateService(s) ==
  /\ api[s].st = "unborn" \/ (NameReuse /\ api[s].st = "gone")
  /\ \E ports \in PortLists[s], mode \in Mode :
       api' = [api EXCEPT ![s] = [st |-> "live", ports |-> ports,
                                  mode |-> mode, ingress |-> {}]]
  /\ UNCHANGED <<lister, eps, queue, held, lbCache, rules, late, w, up, restarts>>

ChangeService(s) ==
  /\ api[s].st = "live"
  /\ \E ports \in PortLists[s], mode \in Mode :
       api' = [api EXCEPT ![s].ports = ports, ![s].mode = mode]
  /\ UNCHANGED <<lister, eps, queue, held, lbCache, rules, late, w, up, restarts>>

DeleteService(s) ==
  /\ api[s].st = "live"
  /\ api' = [api EXCEPT ![s] = Absent("gone")]
  /\ UNCHANGED <<lister, eps, queue, held, lbCache, rules, late, w, up, restarts>>

ChangeEndpoints(s) ==
  /\ \E e \in (Endpoint \cup {None}) \ {eps[s]} : eps' = [eps EXCEPT ![s] = e]
  /\ UNCHANGED <<api, lister, queue, held, lbCache, rules, late, w, up, restarts>>

-----------------------------------------------------------------------------
(* The informer.  Endpoint slices have no handler: a change of endpoints is *)
(* seen by the next sync, whatever causes it.                               *)

EnqueueServiceNotDeleted(s) ==
  /\ up
  /\ lister[s] # api[s]
  /\ lister' = [lister EXCEPT ![s] = api[s]]
  /\ queue' = IF api[s].st = "live" THEN queue \cup {s} ELSE queue
  /\ UNCHANGED <<api, eps, held, lbCache, rules, late, w, up, restarts>>

(* enqueueService, called for an added, updated or deleted service. *)
EnqueueService(s) ==
  /\ up
  /\ lister[s] # api[s]
  /\ lister' = [lister EXCEPT ![s] = api[s]]
  /\ queue' = queue \cup {s}
  /\ UNCHANGED <<api, eps, held, lbCache, rules, late, w, up, restarts>>

(* The informer's periodic resync calls it for every service it has. *)
Resync(s) ==
  /\ up
  /\ lister[s].st = "live"
  /\ s \notin queue
  /\ queue' = queue \cup {s}
  /\ UNCHANGED <<api, lister, eps, held, lbCache, rules, late, w, up, restarts>>

-----------------------------------------------------------------------------
(* getIngressSvcPairs: the rules a service needs, one for each address and  *)
(* port.  What the cache already has is taken over as it is; of the others  *)
(* only the first one asks the pool, the rest take its address for granted. *)

HasPair(s, ip, port) ==
  \E p \in lbCache[s].pairs : p.ip = ip /\ p.port = port

HasPortNever(s, port) == FALSE

HasPort(s, port) == \E p \in lbCache[s].pairs : p.port = port

Old(p, j) == [pair |-> p, idx |-> j, allocd |-> FALSE]

(* The service has addresses in its status. *)
Missing(s) ==
  {x \in lister[s].ingress \X DOMAIN lister[s].ports :
     ~HasPair(s, x[1], lister[s].ports[x[2]])}

(* The pairs that may be the first to reach the pool: the order of the      *)
(* addresses is left open, the ports of an address come in order.           *)
FirstMissing(s) ==
  {x \in Missing(s) :
     Contains(x[1]) /\ \A y \in Missing(s) : y[1] = x[1] => x[2] <= y[2]}

PairsKept(s) ==
  {Old(CHOOSE p \in lbCache[s].pairs :
         p.ip = x[1] /\ p.port = lister[s].ports[x[2]], x[2])
     : x \in (lister[s].ingress \X DOMAIN lister[s].ports) \ Missing(s)}

PairsMissing(s, first, ident) ==
  {[pair |-> [ip |-> x[1], port |-> lister[s].ports[x[2]], inRange |-> x \in first,
              ident |-> IF x \in first THEN ident
                                       ELSE IPAMIdent(lister[s].ports[x[2]])],
    idx |-> x[2], allocd |-> x \in first]
     : x \in Missing(s)}

(* The service has no address yet. *)
NewPorts(s) == {j \in DOMAIN lister[s].ports : ~HasPort(s, lister[s].ports[j])}

FirstNew(s) == CHOOSE j \in NewPorts(s) : \A k \in NewPorts(s) : j <= k

PairsCached(s) ==
  {Old(CHOOSE p \in lbCache[s].pairs : p.port = lister[s].ports[j], j)
     : j \in DOMAIN lister[s].ports \ NewPorts(s)}

PairsNew(s, ip, ident) ==
  {[pair |-> [ip |-> ip, port |-> lister[s].ports[j], inRange |-> TRUE,
              ident |-> IF j = FirstNew(s) THEN ident
                                           ELSE IPAMIdent(lister[s].ports[j])],
    idx |-> j, allocd |-> j = FirstNew(s)]
     : j \in NewPorts(s)}

-----------------------------------------------------------------------------
(* The worker: processNextWorkItem, syncLoadBalancer, addLoadBalancer and   *)
(* deleteLoadBalancer.  An error puts the key back into the queue.          *)

Take(s) ==
  /\ up
  /\ w.pc = "idle"
  /\ s \in queue

Deleting(s, then, list, fresh) ==
  [pc |-> "delete", svc |-> s, then |-> then, list |-> list, todo |-> list,
   eps |-> eps[s], fresh |-> fresh]

Installing(s, list, e, fresh) ==
  [pc |-> "install", svc |-> s, then |-> "install", list |-> list, todo |-> list,
   eps |-> e, fresh |-> fresh]

(* The service is not in the lister any more. *)
SyncDeleted(s) ==
  /\ Take(s)
  /\ lister[s].st # "live"
  /\ w' = IF lbCache[s].added THEN Deleting(s, "release", {}, FALSE) ELSE w
  /\ queue' = queue \ {s}
  /\ UNCHANGED <<api, lister, eps, held, lbCache, rules, late, up, restarts>>

(* No endpoint is active: a service that is not cached yet is tried again,  *)
(* the rules of one that is cached are deleted.                             *)
SyncNoEndpoints(s) ==
  /\ Take(s)
  /\ lister[s].st = "live"
  /\ eps[s] = None
  /\ IF lbCache[s].added
       THEN /\ w' = Deleting(s, "drain", {}, FALSE)
            /\ queue' = queue \ {s}
       ELSE UNCHANGED <<w, queue>>
  /\ UNCHANGED <<api, lister, eps, held, lbCache, rules, late, up, restarts>>

(* The comparisons with the cache decide whether the rules are installed.   *)
NeedDelete(s) == lbCache[s].added /\ lister[s].mode # lbCache[s].mode

CheckUpdateEndpointsNever(s) == FALSE

CheckUpdateEndpoints(s) == lbCache[s].pairs # {} /\ eps[s] # lbCache[s].eps

CheckUpdateExternalIPNever(s, list) == FALSE

CheckUpdateExternalIP(s, list) == \E x \in list : x.pair.ip \notin lister[s].ingress

NeedUpdate(s, list) ==
  \/ lbCache[s].pairs = {}
  \/ NeedDelete(s)
  \/ CheckUpdateEndpoints(s)
  \/ CheckUpdateExternalIP(s, list)

ClearPairs(entry) == [entry EXCEPT !.pairs = {}, !.eps = None]

ApplyPairs(s, list, fresh) ==
  LET entry == [lbCache[s] EXCEPT !.added = TRUE, !.mode = lister[s].mode]
  IN  IF ~NeedUpdate(s, list)
        THEN UNCHANGED <<w, lbCache>>
        ELSE IF NeedDelete(s)
          THEN /\ w' = Deleting(s, "install", list, fresh)
               /\ lbCache' = [lbCache EXCEPT ![s] = entry]
          ELSE /\ w' = Installing(s, list, eps[s], fresh)
               /\ lbCache' = [lbCache EXCEPT ![s] = ClearPairs(entry)]

(* A sync of a service with endpoints.  The early returns before the cache  *)
(* is looked up (another zone or class, no instance, a bad annotation) leave*)
(* all state alone; Service has the services that pass them, and what the   *)
(* annotations say is lister[s].mode.                                       *)
SyncService(s) ==
  /\ Take(s)
  /\ lister[s].st = "live"
  /\ eps[s] # None
  /\ queue' = queue \ {s}
  /\ UNCHANGED <<api, lister, eps, rules, late, up, restarts>>

(* Every rule has an address: from the status (the first one without a rule *)
(* is reserved in the pool) or, when the status has none, from the cache.   *)
SyncIngress(s) ==
  /\ SyncService(s)
  /\ lister[s].ingress # {}
  /\ FirstMissing(s) = {}
  /\ ApplyPairs(s, PairsKept(s) \cup PairsMissing(s, {}, NoIdent), FALSE)
  /\ UNCHANGED held

SyncReserve(s) ==
  /\ SyncService(s)
  /\ \E first \in FirstMissing(s), ident \in Ident :
       /\ CheckAndReserveIP(first[1], lister[s].ports[first[2]], ident)
       /\ ApplyPairs(s, PairsKept(s) \cup PairsMissing(s, {first}, ident), FALSE)

SyncCached(s) ==
  /\ SyncService(s)
  /\ lister[s].ingress = {}
  /\ NewPorts(s) = {}
  /\ ApplyPairs(s, PairsCached(s), FALSE)
  /\ UNCHANGED held

SyncAllocate(s) ==
  /\ SyncService(s)
  /\ lister[s].ingress = {}
  /\ NewPorts(s) # {}
  /\ \E ip \in PoolIP, ident \in Ident :
       /\ GetNewIPAddr(lister[s].ports[FirstNew(s)], ip, ident)
       /\ ApplyPairs(s, PairsCached(s) \cup PairsNew(s, ip, ident), lbCache[s].pairs = {})

(* klog.Exit: the pool has no address left. *)
SyncExit(s) ==
  /\ Take(s)
  /\ lister[s].st = "live"
  /\ eps[s] # None
  /\ lister[s].ingress = {}
  /\ NewPorts(s) # {}
  /\ NoNewIPAddr(lister[s].ports[FirstNew(s)])
  /\ up' = FALSE
  /\ UNCHANGED <<api, lister, eps, queue, held, lbCache, rules, late, w, restarts>>

-----------------------------------------------------------------------------
(* deleteLoadBalancer: every cached rule is deleted on every instance, in   *)
(* parallel.  The answers for a rule are awaited up to the first error; the *)
(* calls behind it are left to themselves and may take effect at any time.  *)

RuleOfIdent(p) == <<p.ip, p.ident>>

RuleOf(p) == <<p.ip, p.port>>

RulesOf(pairs) == {RuleOf(p) : p \in pairs}

Token(p) == <<p.ip, p.ident>>

DeletedDrainReleases(s) ==
  /\ held' = AfterReturn({Token(p) : p \in lbCache[s].pairs})
  /\ lbCache' = [lbCache EXCEPT ![s] = IF w.then = "drain" THEN [@ EXCEPT !.eps = None]
                                                          ELSE NotCached]
  /\ w' = Idle

(* The deleted rules are gone and the sync goes on as it was meant to. *)
Deleted(s) ==
  CASE w.then = "release" ->
         /\ held' = AfterReturn({Token(p) : p \in {q \in lbCache[s].pairs : q.inRange}})
         /\ lbCache' = [lbCache EXCEPT ![s] = NotCached]
         /\ w' = Idle
    [] w.then = "drain" ->
         /\ lbCache' = [lbCache EXCEPT ![s].eps = None]
         /\ w' = Idle
         /\ UNCHANGED held
    [] w.then = "install" ->
         /\ lbCache' = [lbCache EXCEPT ![s] = ClearPairs(@)]
         /\ w' = Installing(s, w.list, w.eps, w.fresh)
         /\ UNCHANGED held

DeleteOK ==
  /\ up
  /\ w.pc = "delete"
  /\ rules' = [c \in Client |-> rules[c] \ RulesOf(lbCache[w.svc].pairs)]
  /\ Deleted(w.svc)
  /\ UNCHANGED <<api, lister, eps, queue, late, up, restarts>>

DeleteErrorIgnored ==
  /\ up
  /\ w.pc = "delete"
  /\ Deleted(w.svc)
  /\ UNCHANGED <<api, lister, eps, queue, rules, late, up, restarts>>

(* A delete fails.  Only the delete before an update ignores the error. *)
DeleteError ==
  /\ up
  /\ w.pc = "delete"
  /\ LET calls == Client \X RulesOf(lbCache[w.svc].pairs)
     IN  /\ calls # {}
         /\ \E done \in SUBSET calls : \E left \in SUBSET (calls \ done) :
              /\ \A r \in RulesOf(lbCache[w.svc].pairs) :
                   \E c \in Client : <<c, r>> \notin left
              /\ rules' = [c \in Client |-> {r \in rules[c] : <<c, r>> \notin done}]
              /\ late' = late \cup left
  /\ IF w.then = "install"
       THEN Deleted(w.svc) /\ UNCHANGED queue
       ELSE /\ w' = Idle
            /\ queue' = queue \cup {w.svc}
            /\ UNCHANGED <<lbCache, held>>
  /\ UNCHANGED <<api, lister, eps, up, restarts>>

LateDelete ==
  \E call \in late :
    /\ late' = late \ {call}
    /\ rules' = [rules EXCEPT ![call[1]] = @ \ {call[2]}]
    /\ UNCHANGED <<api, lister, eps, queue, held, lbCache, w, up, restarts>>

-----------------------------------------------------------------------------
(* The installation loop of addLoadBalancer: one rule after the other, each *)
(* on all instances.  One instance that accepts is enough.                  *)

NextPair ==
  {x \in w.todo : \A y \in w.todo : y.pair.ip = x.pair.ip => x.idx <= y.idx}

AddRule(accepted, p) ==
  rules' = [c \in Client |-> IF c \in accepted THEN rules[c] \cup {RuleOf(p)}
                                               ELSE rules[c]]

(* When may all instances refuse?  "first": before the service has anything,*)
(* "later": when a new service has some of its rules, "update": when it     *)
(* already had its address.                                                 *)
Stage ==
  IF ~w.fresh THEN "update" ELSE IF w.todo = w.list THEN "first" ELSE "later"

InstallLB ==
  /\ up
  /\ w.pc = "install"
  /\ \E x \in NextPair, accepted \in SUBSET Client \ {{}} :
       /\ AddRule(accepted, x.pair)
       /\ lbCache' = [lbCache EXCEPT ![w.svc].pairs = @ \cup {x.pair},
                                     ![w.svc].eps = w.eps]
       /\ w' = [w EXCEPT !.todo = @ \ {x},
                         !.pc = IF w.todo = {x} THEN "status" ELSE "install"]
  /\ UNCHANGED <<api, lister, eps, queue, held, late, up, restarts>>

InstallErrorKeepsIP ==
  /\ up
  /\ w.pc = "install"
  /\ Stage \in FailStages
  /\ w' = Idle
  /\ queue' = queue \cup {w.svc}
  /\ UNCHANGED <<api, lister, eps, held, lbCache, rules, late, up, restarts>>

(* All instances refuse: the deferred function hands back the addresses     *)
(* this sync took.                                                          *)
InstallError ==
  /\ up
  /\ w.pc = "install"
  /\ Stage \in FailStages
  /\ \E x \in NextPair, accepted \in IF LostReplies THEN SUBSET Client ELSE {{}} :
       AddRule(accepted, x.pair)
  /\ held' = AfterReturn({Token(x.pair) : x \in
                            {y \in w.list : y.pair.inRange /\ y.allocd}})
  /\ w' = Idle
  /\ queue' = queue \cup {w.svc}
  /\ UNCHANGED <<api, lister, eps, lbCache, late, up, restarts>>

(* updateService: the addresses are added to the status of the service that *)
(* has the name now.  An error other than a conflict is ignored, and so is  *)
(* a conflict that lasts.                                                   *)
UpdateService ==
  /\ up
  /\ w.pc = "status"
  /\ api[w.svc].st = "live"
  /\ api' = [api EXCEPT ![w.svc].ingress = @ \cup {x.pair.ip : x \in w.list}]
  /\ w' = Idle
  /\ UNCHANGED <<lister, eps, queue, held, lbCache, rules, late, up, restarts>>

UpdateServiceError ==
  /\ up
  /\ w.pc = "status"
  /\ w' = Idle
  /\ UNCHANGED <<api, lister, eps, queue, held, lbCache, rules, late, up, restarts>>

-----------------------------------------------------------------------------
(* The agent stops, at any point, and starts with an empty pool and cache;  *)
(* the informer lists all services.                                         *)
Restart ==
  /\ restarts < MaxRestarts
  /\ restarts' = restarts + 1
  /\ up' = TRUE
  /\ lister' = api
  /\ queue' = {s \in Service : api[s].st = "live"}
  /\ held' = {}
  /\ lbCache' = [s \in Service |-> NotCached]
  /\ w' = Idle
  /\ UNCHANGED <<api, eps, rules, late>>

Environment ==
  \/ \E s \in Service : \/ CreateService(s)   \/ ChangeService(s)
                        \/ DeleteService(s)   \/ ChangeEndpoints(s)
  \/ LateDelete
  \/ Restart

Sync(s) ==
  \/ SyncDeleted(s)   \/ SyncNoEndpoints(s)
  \/ SyncIngress(s)   \/ SyncReserve(s)
  \/ SyncCached(s)    \/ SyncAllocate(s)
  \/ SyncExit(s)

Next ==
  \/ Environment
  \/ \E s \in Service : EnqueueService(s) \/ Resync(s) \/ Sync(s)
  \/ DeleteOK  \/ DeleteError
  \/ InstallLB \/ InstallError
  \/ UpdateService \/ UpdateServiceError

Spec == Init /\ [][Next]_vars

-----------------------------------------------------------------------------
(* Safety. *)

Tokens(s) ==
  {Token(p) : p \in lbCache[s].pairs}
    \cup IF w.svc = s THEN {Token(x.pair) : x \in w.list} ELSE {}

Addresses(s) == {p.ip : p \in lbCache[s].pairs} \cup api[s].ingress

(* An IP of a pool that is not shared belongs to one service: no address is *)
(* cached for or advertised by two.                                         *)
UniqueServiceIP ==
  ~Shared => \A s, t \in Service : s # t => Addresses(s) \cap Addresses(t) = {}

(* No two services are cached with, or advertise, the same address and port:*)
(* the second one would silently take over the first one's rule.            *)
Served(s) ==
  RulesOf(lbCache[s].pairs)
    \cup (api[s].ingress \X {api[s].ports[j] : j \in DOMAIN api[s].ports})

NoRuleConflict ==
  \A s, t \in Service : s # t => Served(s) \cap Served(t) = {}

(* The pool holds nothing that no cached rule and no sync under way owns:   *)
(* deleteLoadBalancer would never hand it back.                             *)
NoLeak == \A h \in held : \E s \in Service : h \in Tokens(s)

(* While a rule is in a loxilb instance its address is held, so it cannot be*)
(* given to another service that would inherit the traffic: the address is  *)
(* returned only after every instance deleted the rule.                     *)
RuleHeld ==
  \A c \in Client : \A r \in rules[c] : <<r[1], IPAMIdent(r[2])>> \in held

(* A service has one address: what is advertised is what is cached, and a   *)
(* retry, a stale lister or a lost status update never adds a second one.   *)
OneAddress == \A s \in Service : \A x, y \in Addresses(s) : x = y

(* Why UniqueServiceIP holds.  A service claims the addresses that are      *)
(* cached for it, that its sync is about to install, and that its status    *)
(* has in the API server or, as far as it is older, in the lister.          *)
ListIPs(s) == IF w.svc = s THEN {x.pair.ip : x \in w.list} ELSE {}

Claims(s) ==
  {p.ip : p \in lbCache[s].pairs} \cup ListIPs(s)
    \cup api[s].ingress \cup lister[s].ingress

ClaimsHeld ==
  \A s \in Service : \A ip \in Claims(s) : <<ip, NoIdent>> \in held

ClaimsDisjoint ==
  \A s, t \in Service : s # t => Claims(s) \cap Claims(t) = {}

(* The life of a service as the API server, the lister and the cache see it.*)
LifeCycle ==
  \A s \in Service :
    /\ api[s].st # "live" => api[s].ingress = {}
    /\ lister[s].st # "live" => lister[s].ingress = {}
    /\ api[s].st = "unborn" => lister[s].st = "unborn"
    /\ lister[s].st = "unborn" => ~lbCache[s].added
    /\ lister[s].st = "gone" => api[s].st = "gone"
    /\ w.svc = s => lbCache[s].added

(* What the sync under way may give back: all addresses of the service when *)
(* it is gone, a new address while nobody has seen it.                      *)
MayReturn ==
  /\ w.todo \subseteq w.list
  /\ w.pc = "delete" => w.todo = w.list
  /\ w.pc = "delete" /\ w.then = "release" => lister[w.svc].st = "gone"
  /\ w.pc \in {"delete", "install"} /\ w.fresh /\ w.todo = w.list =>
       /\ lbCache[w.svc].pairs = {}
       /\ ListIPs(w.svc) \cap (api[w.svc].ingress \cup lister[w.svc].ingress) = {}

(* The inductive invariant behind UniqueServiceIP: what a service claims is *)
(* held as a whole and claimed by no other, and no step of a sync returns   *)
(* an address that is still claimed.                                        *)
UniqueInv == ClaimsHeld /\ ClaimsDisjoint /\ LifeCycle /\ MayReturn

(* The environments in which it holds: the agent keeps running, a service   *)
(* name is not used again, and the instances do not all refuse a rule once  *)
(* the service has one or had its address.  Ports and annotations may       *)
(* change, instances may fail one by one, deletes may fail or be late, and  *)
(* replies and status updates may be lost.                                  *)
UniqueEnv ==
  /\ ~Shared
  /\ MaxRestarts = 0
  /\ ~NameReuse
  /\ FailStages \subseteq {"first"}

-----------------------------------------------------------------------------
(* Liveness.  The informer delivers and resyncs, the queue is served in     *)
(* order, every call to an instance ends, and an instance or the API server *)
(* that is asked again and again answers at last.                           *)

Fairness ==
  /\ \A s \in Service :
       /\ WF_vars(EnqueueService(s))
       /\ WF_vars(Resync(s))
       /\ SF_vars(Sync(s))
  /\ WF_vars(DeleteOK \/ DeleteError)
  /\ WF_vars(InstallLB \/ InstallError)
  /\ WF_vars(UpdateService \/ UpdateServiceError)
  /\ \A s \in Service :
       /\ SF_vars(w.svc = s /\ DeleteOK)
       /\ SF_vars(w.svc = s /\ InstallLB)
       /\ SF_vars(w.svc = s /\ UpdateService)

FairSpec == Spec /\ Fairness

(* A deleted service leaves nothing behind: its cache entry, and with it    *)
(* its addresses and rules, go.                                             *)
DeletedIsReleased ==
  \A s \in Service : (api[s].st = "gone") ~> ~lbCache[s].added

(* A service that keeps some endpoint gets an address in its status.        *)
ServiceGetsAddress ==
  \A s \in Service :
    (<>[](api[s].st = "live" /\ eps[s] # None)) => <>[](api[s].ingress # {})

(* Once the annotations and the endpoints stop changing the cached rules    *)
(* have them, although no event announces a change of endpoints and the     *)
(* errors of the delete before an update are ignored.                       *)
ConfigConverges ==
  \A s \in Service, e \in Endpoint, m \in Mode :
    (<>[](api[s].st = "live" /\ eps[s] = e /\ api[s].mode = m))
      => <>[](lbCache[s].pairs # {} /\ lbCache[s].eps = e /\ lbCache[s].mode = m)

=============================================================================
