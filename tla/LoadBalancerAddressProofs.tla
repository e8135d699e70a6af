---------------------- MODULE LoadBalancerAddressProofs ----------------------
(* A service has one address, across restarts of the agent too, from pools of  *)
(* either mode and although replies of the instances are lost; the pool holds  *)
(* an address exactly as long as a rule, the cache or a sync uses it; and      *)
(* services that share an address have different ports.                        *)
EXTENDS LoadBalancerProofs, WellFoundedInduction

(* Names are not used again, a service keeps its ports, and the instances do   *)
(* not all refuse a rule once the service has one or had its address.          *)
AddressEnv ==
  /\ ~NameReuse
  /\ FailStages \subseteq {"first"}
  /\ \A s \in Service : \A k, l \in PortLists[s] : k = l

PortsOf(s) == UNION {{l[j] : j \in DOMAIN l} : l \in PortLists[s]}

ListPairs(s) == IF w.svc = s THEN {x.pair : x \in w.list} ELSE {}

Covers(S, s) == \A port \in PortsOf(s) : \E p \in S : p.port = port

PortsFixed ==
  \A s \in Service :
    /\ api[s].st = "live" => api[s].ports \in PortLists[s]
    /\ lister[s].st = "live" => lister[s].ports \in PortLists[s]

OneClaim == \A s \in Service : \A x, y \in Claims(s) : x = y

(* A service that has a rule has all its rules in the cache, and so has one whose  *)
(* address the lister does not show yet, except while they are installed: a sync    *)
(* then finds nothing new, and asks the pool for no second address.  What is        *)
(* installed are all rules, and a first attempt finds and leaves no address.         *)
Provided ==
  \A s \in Service :
    /\ (w.svc # s \/ w.pc = "delete")
         /\ (lbCache[s].pairs # {} \/ (api[s].ingress # {} /\ lister[s].ingress = {}))
         => Covers(lbCache[s].pairs, s)
    /\ w.svc = s =>
         /\ w.todo \subseteq w.list
         /\ w.pc # "delete" \/ w.then = "install" => Covers(ListPairs(s), s)
         /\ w.pc # "delete" => \A x \in w.list \ w.todo : x.pair \in lbCache[s].pairs
         /\ w.pc = "status" => w.todo = {}
         /\ w.pc = "delete" => w.todo = w.list
         /\ w.pc = "delete" /\ w.then # "install" => w.list = {}
         /\ w.pc = "delete" /\ w.then = "release" => lister[s].st = "gone"
         /\ w.fresh /\ w.pc \in {"delete", "install"} =>
              api[s].ingress = {} /\ (w.todo = w.list => lbCache[s].pairs = {})

AddressInv == PortsFixed /\ OneClaim /\ LifeCycle /\ Provided

-----------------------------------------------------------------------------
(* The three outcomes of a sync's first step. *)
LEMMA ApplyOutcome ==
  ASSUME TypeOK, NEW s \in Service, NEW list, NEW fresh, ApplyPairs(s, list, fresh)
  PROVE  /\ \A t \in Service \ {s} : lbCache'[t] = lbCache[t]
         /\ \/ UNCHANGED <<w, lbCache>> /\ lbCache[s].pairs # {}
            \/ /\ w'.svc = s /\ w'.list = list /\ w'.todo = list
               /\ w'.fresh = fresh /\ w'.then = "install"
               /\ \/ w'.pc = "delete" /\ lbCache'[s].pairs = lbCache[s].pairs
                  \/ w'.pc = "install" /\ lbCache'[s].pairs = {}
<1> DEFINE entry == [lbCache[s] EXCEPT !.added = TRUE, !.mode = lister[s].mode]
<1>0. /\ entry.pairs = lbCache[s].pairs
      /\ ClearPairs(entry).pairs = {}
  <2>1. lbCache[s] \in LbCacheEntry
    BY Zenon DEF TypeOK
  <2> QED BY <2>1, Zenon DEF LbCacheEntry, ClearPairs
<1>1. CASE ~NeedUpdate(s, list)
  BY <1>1, Zenon DEF ApplyPairs, NeedUpdate
<1>2. CASE NeedUpdate(s, list) /\ NeedDelete(s)
  <2>1. /\ w' = Deleting(s, "install", list, fresh)
        /\ lbCache' = [lbCache EXCEPT ![s] = entry]
    BY <1>2, Zenon DEF ApplyPairs
  <2> HIDE DEF entry
  <2> QED BY <1>0, <2>1, Zenon DEF Deleting, TypeOK
<1>3. CASE NeedUpdate(s, list) /\ ~NeedDelete(s)
  <2>1. /\ w' = Installing(s, list, eps[s], fresh)
        /\ lbCache' = [lbCache EXCEPT ![s] = ClearPairs(entry)]
    BY <1>3, Zenon DEF ApplyPairs
  <2> HIDE DEF entry
  <2> QED BY <1>0, <2>1, Zenon DEF Installing, TypeOK
<1> QED BY <1>1, <1>2, <1>3, Zenon

(* A step of the users or the informer. *)
LEMMA AddressElsewhere ==
  ASSUME AddressInv, PortsFixed', LifeCycle', UNCHANGED <<lbCache, w>>,
         \A s \in Service :
           /\ \/ api'[s].ingress \subseteq api[s].ingress /\ lister'[s].ingress = lister[s].ingress
              \/ api'[s].ingress = api[s].ingress /\ lister'[s].ingress = api[s].ingress
           /\ lister[s].st = "gone" => lister'[s].st = "gone"
  PROVE  AddressInv'
<1>1. \A s \in Service : ListPairs(s)' = ListPairs(s) /\ ListIPs(s)' = ListIPs(s)
  BY Zenon DEF ListPairs, ListIPs
<1>2. \A s \in Service : Claims(s)' \subseteq Claims(s)
  BY <1>1, Zenon DEF Claims
<1>3. OneClaim'
  BY <1>2, Zenon DEF AddressInv, OneClaim
<1>4. Provided'
  <2> SUFFICES ASSUME NEW s \in Service
               PROVE  /\ (w.svc # s \/ w.pc = "delete")
                           /\ (lbCache[s].pairs # {} \/ (api'[s].ingress # {} /\ lister'[s].ingress = {}))
                           => Covers(lbCache[s].pairs, s)
                      /\ w.svc = s /\ w.pc = "delete" /\ w.then = "release" => lister'[s].st = "gone"
                      /\ w.svc = s /\ w.fresh /\ w.pc \in {"delete", "install"} => api'[s].ingress = {}
    BY <1>1 DEF AddressInv, Provided, Covers
  <2> QED BY Zenon DEF AddressInv, Provided
<1> QED BY <1>3, <1>4, Zenon DEF AddressInv

(* The worker goes idle. *)
LEMMA AddressIdle ==
  ASSUME TypeOK, AddressInv, PortsFixed', LifeCycle', w' = Idle,
         \A s \in Service :
           /\ \A p \in lbCache'[s].pairs : p.ip \in Claims(s)
           /\ api'[s].ingress \cup lister'[s].ingress \subseteq Claims(s)
           /\ lbCache'[s].pairs # {} \/ (api'[s].ingress # {} /\ lister'[s].ingress = {})
                => Covers(lbCache'[s].pairs, s)
  PROVE  AddressInv'
<1>1. w'.svc = None /\ w'.pc = "idle" /\ \A t \in Service : t # None
  BY LoadBalancerAssumption, Zenon DEF Idle
<1>2. \A t \in Service : ListIPs(t)' = {}
  BY <1>1, Zenon DEF ListIPs
<1>3. \A t \in Service : Claims(t)' \subseteq Claims(t)
  BY <1>2, Zenon DEF Claims
<1>4. OneClaim'
  BY <1>3, Zenon DEF AddressInv, OneClaim
<1>5. Provided'
  BY <1>1, Zenon DEF Provided, Covers
<1> QED BY <1>4, <1>5, Zenon DEF AddressInv

(* The first step of a sync: the rules it is to install cover the ports of the  *)
(* service, on the one address the service has or is to have.                  *)
LEMMA AddressApply ==
  ASSUME TypeOK, AddressInv, NEW s \in Service, NEW list, NEW fresh \in BOOLEAN,
         w.pc = "idle", lister[s].st = "live", ApplyPairs(s, list, fresh),
         UNCHANGED <<api, lister>>, Covers({x.pair : x \in list}, s),
         \A a, b \in Claims(s) \cup {x.pair.ip : x \in list} : a = b,
         fresh => lbCache[s].pairs = {} /\ api[s].ingress = {}
  PROVE  AddressInv'
<1>i. w.svc = None /\ \A t \in Service : t # None
  BY LoadBalancerAssumption, Zenon DEF TypeOK
<1>1. OneClaim'
  <2>1. /\ \A t \in Service \ {s} : Claims(t)' \subseteq Claims(t)
        /\ Claims(s)' \subseteq Claims(s) \cup {x.pair.ip : x \in list}
    BY ApplyClaims, Zenon
  <2> QED BY <2>1, Zenon DEF AddressInv, OneClaim
<1>2. LifeCycle' /\ PortsFixed'
  <2>1. PortsFixed'
    BY Zenon DEF AddressInv, PortsFixed
  <2> QED BY <1>i, <2>1, ApplyEffect DEF AddressInv, LifeCycle
<1>3. ASSUME NEW t \in Service
      PROVE  lbCache[t].pairs # {} \/ (api[t].ingress # {} /\ lister[t].ingress = {})
               => Covers(lbCache[t].pairs, t)
  BY <1>i, Zenon DEF AddressInv, Provided
<1>4. CASE UNCHANGED <<w, lbCache>>
  BY <1>1, <1>2, <1>4, AddressElsewhere, Zenon DEF AddressInv
<1>5. CASE ~UNCHANGED <<w, lbCache>>
  <2>1. /\ \A t \in Service \ {s} : lbCache'[t] = lbCache[t]
        /\ w'.svc = s /\ w'.list = list /\ w'.todo = list
        /\ w'.fresh = fresh /\ w'.then = "install"
        /\ \/ w'.pc = "delete" /\ lbCache'[s].pairs = lbCache[s].pairs
           \/ w'.pc = "install" /\ lbCache'[s].pairs = {}
    BY <1>5, ApplyOutcome, Zenon
  <2>2. ListPairs(s)' = {x.pair : x \in list}
    BY <2>1, Zenon DEF ListPairs
  <2>3. \A t \in Service :
          (w'.svc # t \/ w'.pc = "delete")
            /\ (lbCache'[t].pairs # {} \/ (api'[t].ingress # {} /\ lister'[t].ingress = {}))
            => Covers(lbCache'[t].pairs, t)
    BY <1>3, <2>1, Zenon
  <2>4. Covers(ListPairs(s)', s)
    BY <2>2, Zenon
  <2>5. fresh => api'[s].ingress = {} /\ lbCache'[s].pairs = {}
    BY <2>1, Zenon
  <2>6. Provided'
    BY <2>1, <2>3, <2>4, <2>5, Zenon DEF Provided
  <2> QED BY <1>1, <1>2, <2>6, Zenon DEF AddressInv
<1> QED BY <1>4, <1>5, Zenon

(* The ports of a live service. *)
LEMMA PortsHere ==
  ASSUME PortsFixed, NEW s \in Service, lister[s].st = "live",
         \A k, l \in PortLists[s] : k = l
  PROVE  /\ PortsOf(s) = {lister[s].ports[j] : j \in DOMAIN lister[s].ports}
         /\ \E j \in Nat : j \in DOMAIN lister[s].ports
<1>1. lister[s].ports \in PortLists[s] /\ \A l \in PortLists[s] : l = lister[s].ports
  BY Zenon DEF PortsFixed
<1>2. PortsOf(s) = {lister[s].ports[j] : j \in DOMAIN lister[s].ports}
  BY <1>1 DEF PortsOf
<1>3. lister[s].ports \in Seq(Port) /\ lister[s].ports # <<>>
  BY <1>1, LoadBalancerAssumption, Zenon
<1>4. 1 \in DOMAIN lister[s].ports
  BY <1>3
<1> QED BY <1>2, <1>4, Zenon

(* The rules of a service with an address in the lister: those of the cache and those  *)
(* that are missing cover its ports, on that address.                                 *)
LEMMA IngressCovers ==
  ASSUME AddressEnv, TypeOK, PortsFixed, NEW s \in Service, lister[s].st = "live",
         lister[s].ingress # {}, NEW first, NEW ident
  PROVE  Covers({x.pair : x \in PairsKept(s) \cup PairsMissing(s, first, ident)}, s)
<1>p. PortsOf(s) = {lister[s].ports[j] : j \in DOMAIN lister[s].ports}
  BY PortsHere, Zenon DEF AddressEnv
<1> SUFFICES ASSUME NEW port \in PortsOf(s)
             PROVE  \E x \in PairsKept(s) \cup PairsMissing(s, first, ident) : x.pair.port = port
  BY Zenon DEF Covers
<1>1. PICK j \in DOMAIN lister[s].ports : port = lister[s].ports[j]
  BY <1>p, Zenon
<1>2. PICK ip \in lister[s].ingress : TRUE
  BY Zenon
<1>3. PICK x \in lister[s].ingress \X DOMAIN lister[s].ports : x = <<ip, j>>
  BY Zenon
<1>4. lister[s].ports[x[2]] = port
  BY <1>1, <1>3, Zenon
<1>5. CASE x \in Missing(s)
  <2> DEFINE M(y) == [pair |-> [ip |-> y[1], port |-> lister[s].ports[y[2]], inRange |-> y \in first,
                                ident |-> IF y \in first THEN ident
                                                         ELSE IPAMIdent(lister[s].ports[y[2]])],
                      idx |-> y[2], allocd |-> y \in first]
  <2>1. M(x) \in PairsMissing(s, first, ident)
    BY <1>5, Zenon DEF PairsMissing
  <2>2. M(x).pair.port = port
    BY <1>4, Zenon
  <2> HIDE DEF M
  <2> QED BY <2>1, <2>2, Zenon
<1>6. CASE x \notin Missing(s)
  <2> DEFINE Q(y) == CHOOSE p \in lbCache[s].pairs : p.ip = y[1] /\ p.port = lister[s].ports[y[2]]
  <2>1. \E p \in lbCache[s].pairs : p.ip = x[1] /\ p.port = lister[s].ports[x[2]]
    BY <1>6, Zenon DEF Missing, HasPair
  <2>2. Q(x).port = port
    BY <1>4, <2>1, Zenon
  <2>3. Old(Q(x), x[2]) \in PairsKept(s)
    BY <1>6, Zenon DEF PairsKept
  <2> HIDE DEF Q
  <2> QED BY <2>2, <2>3 DEF Old
<1> QED BY <1>5, <1>6, Zenon

(* A service whose ports are all cached. *)
LEMMA CacheCovers ==
  ASSUME AddressEnv, TypeOK, PortsFixed, NEW s \in Service, lister[s].st = "live", NewPorts(s) = {}
  PROVE  Covers({x.pair : x \in PairsCached(s)}, s)
<1>p. PortsOf(s) = {lister[s].ports[j] : j \in DOMAIN lister[s].ports}
  BY PortsHere, Zenon DEF AddressEnv
<1> SUFFICES ASSUME NEW port \in PortsOf(s) PROVE \E x \in PairsCached(s) : x.pair.port = port
  BY Zenon DEF Covers
<1>1. PICK j \in DOMAIN lister[s].ports : port = lister[s].ports[j]
  BY <1>p, Zenon
<1>2. \E p \in lbCache[s].pairs : p.port = lister[s].ports[j]
  BY Zenon DEF NewPorts, HasPort
<1>3. Old(CHOOSE p \in lbCache[s].pairs : p.port = lister[s].ports[j], j) \in PairsCached(s)
  BY Zenon DEF PairsCached
<1> QED BY <1>1, <1>2, <1>3, Zenon DEF Old

(* A service without a rule gets rules for all its ports. *)
LEMMA NewCovers ==
  ASSUME AddressEnv, TypeOK, PortsFixed, NEW s \in Service, lister[s].st = "live",
         lbCache[s].pairs = {}, NEW ip, NEW ident
  PROVE  Covers({x.pair : x \in PairsNew(s, ip, ident)}, s)
<1>p. PortsOf(s) = {lister[s].ports[j] : j \in DOMAIN lister[s].ports}
  BY PortsHere, Zenon DEF AddressEnv
<1> DEFINE N(j) == [pair |-> [ip |-> ip, port |-> lister[s].ports[j], inRange |-> TRUE,
                              ident |-> IF j = FirstNew(s) THEN ident
                                                           ELSE IPAMIdent(lister[s].ports[j])],
                    idx |-> j, allocd |-> j = FirstNew(s)]
<1> SUFFICES ASSUME NEW port \in PortsOf(s) PROVE \E x \in PairsNew(s, ip, ident) : x.pair.port = port
  BY Zenon DEF Covers
<1>1. PICK j \in DOMAIN lister[s].ports : port = lister[s].ports[j]
  BY <1>p, Zenon
<1>2. j \in NewPorts(s)
  BY Zenon DEF NewPorts, HasPort
<1>3. N(j) \in PairsNew(s, ip, ident)
  BY <1>2, Zenon DEF PairsNew
<1>4. N(j).pair.port = port
  BY <1>1, Zenon
<1> HIDE DEF N
<1> QED BY <1>3, <1>4, Zenon

LEMMA AddressSync ==
  ASSUME AddressEnv, TypeOK, AddressInv, NEW s \in Service,
         EnqueueService(s) \/ Resync(s) \/ Sync(s)
  PROVE  AddressInv'
<1>p. PortsFixed /\ OneClaim /\ LifeCycle /\ Provided
  BY Zenon DEF AddressInv
<1>i. \A t \in Service : t # None
  BY LoadBalancerAssumption, Zenon
<1>1. CASE EnqueueService(s)
  <2>1. /\ lister' = [lister EXCEPT ![s] = api[s]] /\ UNCHANGED <<api, lbCache, w>>
    BY <1>1, Zenon DEF EnqueueService
  <2>2. \A t \in Service : lister'[t] = IF t = s THEN api[s] ELSE lister[t]
    BY <2>1, Zenon DEF TypeOK
  <2>3. PortsFixed' /\ LifeCycle'
    BY <1>p, <2>1, <2>2 DEF PortsFixed, LifeCycle, TypeOK, SvcObj
  <2> QED BY <1>p, <2>1, <2>2, <2>3, AddressElsewhere DEF LifeCycle
<1>2. CASE UNCHANGED <<api, lister, lbCache, w>>
  <2>1. PortsFixed' /\ LifeCycle'
    BY <1>p, <1>2, Zenon DEF PortsFixed, LifeCycle
  <2> QED BY <1>2, <2>1, AddressElsewhere, Zenon
<1>3. ASSUME w.pc = "idle", UNCHANGED <<api, lister, lbCache>>, lbCache[s].added,
             NEW then \in {"release", "drain"}, then = "release" => lister[s].st = "gone",
             w' = Deleting(s, then, {}, FALSE)
      PROVE  AddressInv'
  <2>1. /\ w'.svc = s /\ w'.list = {} /\ w'.todo = {} /\ w'.pc = "delete" /\ w'.fresh = FALSE
        /\ w'.then = then /\ then # "install"
    BY <1>3, Zenon DEF Deleting
  <2>2. w.svc = None
    BY <1>3, Zenon DEF TypeOK
  <2>3. \A t \in Service : ListIPs(t)' = {}
    BY <2>1, Zenon DEF ListIPs
  <2>4. \A t \in Service : Claims(t)' \subseteq Claims(t)
    BY <1>3, <2>3, Zenon DEF Claims
  <2>5. OneClaim' /\ PortsFixed'
    BY <1>3, <1>p, <2>4, Zenon DEF OneClaim, PortsFixed
  <2>6. LifeCycle'
    BY <1>3, <1>p, <2>1, Zenon DEF LifeCycle
  <2>7. Provided'
    <3>1. \A t \in Service :
            lbCache[t].pairs # {} \/ (api[t].ingress # {} /\ lister[t].ingress = {})
              => Covers(lbCache[t].pairs, t)
      BY <1>i, <1>p, <2>2, Zenon DEF Provided
    <3>2. \A t \in Service :
            lbCache'[t].pairs # {} \/ (api'[t].ingress # {} /\ lister'[t].ingress = {})
              => Covers(lbCache'[t].pairs, t)
      BY <1>3, <3>1, Zenon
    <3>3. then = "release" => lister'[s].st = "gone"
      BY <1>3, Zenon
    <3> QED BY <2>1, <3>2, <3>3, Zenon DEF Provided
  <2> QED BY <2>5, <2>6, <2>7, Zenon DEF AddressInv
<1>4. CASE SyncDeleted(s)
  <2>1. lbCache[s].added => lister[s].st = "gone"
    BY <1>4, <1>p, Zenon DEF SyncDeleted, LifeCycle, TypeOK, SvcObj
  <2>2. CASE lbCache[s].added
    BY <1>3, <1>4, <2>1, <2>2, Zenon DEF SyncDeleted, Take
  <2>3. CASE ~lbCache[s].added
    BY <1>2, <1>4, <2>3, Zenon DEF SyncDeleted
  <2> QED BY <2>2, <2>3, Zenon
<1>5. CASE SyncNoEndpoints(s)
  <2>1. CASE lbCache[s].added
    BY <1>3, <1>5, <2>1, Zenon DEF SyncNoEndpoints, Take
  <2>2. CASE ~lbCache[s].added
    BY <1>2, <1>5, <2>2, Zenon DEF SyncNoEndpoints
  <2> QED BY <2>1, <2>2, Zenon
<1>6. SyncService(s) => w.pc = "idle" /\ lister[s].st = "live" /\ UNCHANGED <<api, lister>>
  BY Zenon DEF SyncService, Take
<1>7. ASSUME SyncService(s), NEW list, \A x \in list : x.pair.ip \in Claims(s),
             Covers({x.pair : x \in list}, s), ApplyPairs(s, list, FALSE)
      PROVE  AddressInv'
  <2>1. \A a, b \in Claims(s) \cup {x.pair.ip : x \in list} : a = b
    BY <1>7, <1>p DEF OneClaim
  <2> QED BY <1>6, <1>7, <2>1, AddressApply, Zenon
<1>8. CASE SyncIngress(s)
  <2>1. \A x \in PairsKept(s) \cup PairsMissing(s, {}, NoIdent) : x.pair.ip \in Claims(s)
    BY OldIPs, Zenon
  <2>2. Covers({x.pair : x \in PairsKept(s) \cup PairsMissing(s, {}, NoIdent)}, s)
    BY <1>6, <1>8, <1>p, IngressCovers, Zenon DEF SyncIngress
  <2> QED BY <1>7, <1>8, <2>1, <2>2, Zenon DEF SyncIngress
<1>9. CASE SyncReserve(s)
  <2>1. PICK first \in FirstMissing(s), ident \in Ident :
          ApplyPairs(s, PairsKept(s) \cup PairsMissing(s, {first}, ident), FALSE)
    BY <1>9, Zenon DEF SyncReserve
  <2>2. \A x \in PairsKept(s) \cup PairsMissing(s, {first}, ident) : x.pair.ip \in Claims(s)
    BY OldIPs, Zenon
  <2>3. lister[s].ingress # {}
    BY Zenon DEF FirstMissing, Missing
  <2>4. Covers({x.pair : x \in PairsKept(s) \cup PairsMissing(s, {first}, ident)}, s)
    BY <1>6, <1>9, <1>p, <2>3, IngressCovers, Zenon DEF SyncReserve
  <2> QED BY <1>7, <1>9, <2>1, <2>2, <2>4, Zenon DEF SyncReserve
<1>10. CASE SyncCached(s)
  <2>1. \A x \in PairsCached(s) : x.pair.ip \in Claims(s)
    BY OldIPs, Zenon
  <2>2. Covers({x.pair : x \in PairsCached(s)}, s)
    BY <1>6, <1>10, <1>p, CacheCovers, Zenon DEF SyncCached
  <2> QED BY <1>7, <1>10, <2>1, <2>2, Zenon DEF SyncCached
<1>11. CASE SyncAllocate(s)
  <2>1. PICK ip \in PoolIP, ident \in Ident :
          ApplyPairs(s, PairsCached(s) \cup PairsNew(s, ip, ident), lbCache[s].pairs = {})
    BY <1>11, Zenon DEF SyncAllocate
  <2>2. lister[s].ingress = {} /\ NewPorts(s) # {} /\ w.svc = None
    BY <1>6, <1>11, Zenon DEF SyncAllocate, TypeOK
  <2>p. PortsOf(s) = {lister[s].ports[j] : j \in DOMAIN lister[s].ports}
    BY <1>6, <1>11, <1>p, PortsHere, Zenon DEF SyncAllocate, AddressEnv
  <2>3. ~Covers(lbCache[s].pairs, s)
    BY <2>2, <2>p, Zenon DEF NewPorts, HasPort, Covers
  <2>4. lbCache[s].pairs = {} /\ api[s].ingress = {}
    BY <1>i, <1>p, <2>2, <2>3, Zenon DEF Provided
  <2>5. PairsCached(s) = {}
    BY <2>4, Zenon DEF PairsCached, NewPorts, HasPort
  <2>6. ApplyPairs(s, PairsNew(s, ip, ident), TRUE)
    BY <2>1, <2>4, <2>5, Zenon
  <2>7. Claims(s) = {}
    BY <1>i, <2>2, <2>4, Zenon DEF Claims, ListIPs
  <2>8. \A x \in PairsNew(s, ip, ident) : x.pair.ip = ip
    BY DEF PairsNew
  <2>9. \A a, b \in Claims(s) \cup {x.pair.ip : x \in PairsNew(s, ip, ident)} : a = b
    BY <2>7, <2>8, Zenon
  <2>10. Covers({x.pair : x \in PairsNew(s, ip, ident)}, s)
    BY <1>6, <1>11, <1>p, <2>4, NewCovers, Zenon DEF SyncAllocate
  <2> QED BY <1>6, <1>11, <2>4, <2>6, <2>9, <2>10, AddressApply, Zenon DEF SyncAllocate
<1>12. CASE Resync(s) \/ SyncExit(s)
  BY <1>2, <1>12, Zenon DEF Resync, SyncExit
<1> QED BY <1>1, <1>4, <1>5, <1>8, <1>9, <1>10, <1>11, <1>12, Zenon DEF Sync

LEMMA AddressEnvironment ==
  ASSUME AddressEnv, TypeOK, AddressInv, Environment
  PROVE  AddressInv'
<1>p. PortsFixed /\ OneClaim /\ LifeCycle /\ Provided
  BY Zenon DEF AddressInv
<1>1. ASSUME NEW s \in Service, NEW o \in SvcObj,
             api' = [api EXCEPT ![s] = o],
             o.ingress \subseteq api[s].ingress,
             o.st # "live" => o.ingress = {},
             o.st = "live" => o.ports \in PortLists[s],
             o.st # "unborn",
             lister[s].st = "gone" => o.st = "gone",
             UNCHANGED <<lister, lbCache, w>>
      PROVE  AddressInv'
  <2>1. \A t \in Service : api'[t] = IF t = s THEN o ELSE api[t]
    BY <1>1, Zenon DEF TypeOK
  <2>2. LifeCycle'
    BY <1>1, <1>p, <2>1 DEF LifeCycle
  <2>3. PortsFixed'
    BY <1>1, <1>p, <2>1, Zenon DEF PortsFixed
  <2>4. \A t \in Service : api'[t].ingress \subseteq api[t].ingress
    BY <1>1, <2>1, Zenon
  <2> QED BY <1>1, <2>2, <2>3, <2>4, AddressElsewhere, Zenon
<1>2. ASSUME NEW s \in Service, CreateService(s)
      PROVE  AddressInv'
  <2>1. PICK ports \in PortLists[s], mode \in Mode :
          api' = [api EXCEPT ![s] = [st |-> "live", ports |-> ports,
                                     mode |-> mode, ingress |-> {}]]
    BY <1>2, Zenon DEF CreateService
  <2> DEFINE o == [st |-> "live", ports |-> ports, mode |-> mode, ingress |-> {}]
  <2>2. /\ o \in SvcObj /\ o.ingress = {} /\ o.st = "live" /\ o.ports \in PortLists[s]
        /\ api' = [api EXCEPT ![s] = o]
    BY <2>1, LoadBalancerAssumption, Zenon DEF SvcObj
  <2>3. lister[s].st # "gone"
    BY <1>2, <1>p, Zenon DEF CreateService, AddressEnv, LifeCycle
  <2> HIDE DEF o
  <2> QED BY <1>1, <1>2, <2>2, <2>3, Zenon DEF CreateService
<1>3. ASSUME NEW s \in Service, ChangeService(s)
      PROVE  AddressInv'
  <2>1. PICK ports \in PortLists[s], mode \in Mode :
          api' = [api EXCEPT ![s].ports = ports, ![s].mode = mode]
    BY <1>3, Zenon DEF ChangeService
  <2> DEFINE o == [api[s] EXCEPT !.ports = ports, !.mode = mode]
  <2>2. /\ o \in SvcObj /\ o.ingress = api[s].ingress /\ o.st = "live"
        /\ o.ports \in PortLists[s] /\ api' = [api EXCEPT ![s] = o]
    <3>1. ports \in Seq(Port) /\ api[s] \in SvcObj /\ api[s].st = "live"
      BY <1>3, LoadBalancerAssumption, Zenon DEF ChangeService, TypeOK
    <3> QED BY <2>1, <3>1, Zenon DEF SvcObj, TypeOK
  <2>3. lister[s].st # "gone"
    BY <1>3, <1>p, Zenon DEF ChangeService, LifeCycle
  <2> HIDE DEF o
  <2> QED BY <1>1, <1>3, <2>2, <2>3, Zenon DEF ChangeService
<1>4. ASSUME NEW s \in Service, DeleteService(s)
      PROVE  AddressInv'
  <2>1. Absent("gone") \in SvcObj /\ Absent("gone").ingress = {} /\ Absent("gone").st = "gone"
    BY ConstantTypes, Zenon DEF Absent
  <2> QED BY <1>1, <1>4, <2>1, Zenon DEF DeleteService
<1>5. ASSUME UNCHANGED <<api, lister, lbCache, w>>
      PROVE  AddressInv'
  <2>1. PortsFixed' /\ LifeCycle'
    BY <1>p, <1>5, Zenon DEF PortsFixed, LifeCycle
  <2> QED BY <1>5, <2>1, AddressElsewhere, Zenon
<1>6. CASE Restart
  <2>1. /\ api' = api /\ lister' = api /\ w' = Idle
        /\ \A t \in Service : lbCache'[t].pairs = {} /\ lbCache'[t].added = FALSE
    BY <1>6, Zenon DEF Restart, NotCached
  <2>2. PortsFixed'
    BY <1>p, <2>1, Zenon DEF PortsFixed
  <2>3. LifeCycle'
    BY <1>p, <2>1, LoadBalancerAssumption, Zenon DEF LifeCycle, Idle
  <2>4. \A t \in Service :
          /\ \A x \in lbCache'[t].pairs : x.ip \in Claims(t)
          /\ api'[t].ingress \cup lister'[t].ingress \subseteq Claims(t)
          /\ lbCache'[t].pairs # {} \/ (api'[t].ingress # {} /\ lister'[t].ingress = {})
               => Covers(lbCache'[t].pairs, t)
    BY <2>1, Zenon DEF Claims
  <2> QED BY <2>1, <2>2, <2>3, <2>4, AddressIdle, Zenon
<1>7. ASSUME NEW s \in Service, ChangeEndpoints(s)
      PROVE  AddressInv'
  BY <1>5, <1>7, Zenon DEF ChangeEndpoints
<1>8. CASE LateDelete
  BY <1>5, <1>8, Zenon DEF LateDelete
<1> QED BY <1>2, <1>3, <1>4, <1>6, <1>7, <1>8, Zenon DEF Environment

LEMMA AddressDeleted ==
  ASSUME TypeOK, AddressInv, w.pc = "delete", Deleted(w.svc), UNCHANGED <<api, lister>>
  PROVE  AddressInv'
<1>p. PortsFixed /\ OneClaim /\ LifeCycle /\ Provided
  BY Zenon DEF AddressInv
<1>s. PICK s \in Service : s = w.svc
  BY Zenon DEF TypeOK, Worker
<1>0. s = w.svc /\ s # None /\ lbCache[s] \in LbCacheEntry
  BY <1>s, LoadBalancerAssumption, Zenon DEF TypeOK
<1>f. PortsFixed'
  BY <1>p, Zenon DEF PortsFixed
<1>c. \A t \in Service :
        lbCache[t].pairs # {} \/ (api[t].ingress # {} /\ lister[t].ingress = {})
          => Covers(lbCache[t].pairs, t)
  BY <1>p, Zenon DEF Provided
<1>1. CASE w.then = "release"
  <2>1. lbCache' = [lbCache EXCEPT ![s] = NotCached] /\ w' = Idle
    BY <1>0, <1>1, Zenon DEF Deleted
  <2>2. lister[s].st = "gone" /\ api[s].st = "gone" /\ api[s].ingress = {}
    BY <1>0, <1>1, <1>p, Zenon DEF Provided, LifeCycle
  <2>3. /\ lbCache'[s].pairs = {} /\ lbCache'[s].added = FALSE
        /\ \A t \in Service \ {s} : lbCache'[t] = lbCache[t]
    BY <2>1, Zenon DEF TypeOK, NotCached
  <2>4. LifeCycle'
    BY <1>0, <1>p, <2>1, <2>2, <2>3, LoadBalancerAssumption, Zenon DEF LifeCycle, Idle
  <2>5. \A t \in Service :
          /\ \A x \in lbCache'[t].pairs : x.ip \in Claims(t)
          /\ api'[t].ingress \cup lister'[t].ingress \subseteq Claims(t)
          /\ lbCache'[t].pairs # {} \/ (api'[t].ingress # {} /\ lister'[t].ingress = {})
               => Covers(lbCache'[t].pairs, t)
    BY <1>c, <2>2, <2>3, Zenon DEF Claims
  <2> QED BY <1>f, <2>1, <2>4, <2>5, AddressIdle, Zenon
<1>2. CASE w.then = "drain"
  <2>1. lbCache' = [lbCache EXCEPT ![s] = [lbCache[s] EXCEPT !.eps = None]] /\ w' = Idle
    BY <1>0, <1>2, Zenon DEF Deleted
  <2>2. \A t \in Service : /\ lbCache'[t].pairs = lbCache[t].pairs
                          /\ lbCache'[t].added = lbCache[t].added
    BY <1>0, <2>1, Zenon DEF TypeOK, LbCacheEntry
  <2>3. LifeCycle'
    BY <1>p, <2>1, <2>2, LoadBalancerAssumption DEF LifeCycle, Idle
  <2>4. \A t \in Service :
          /\ \A x \in lbCache'[t].pairs : x.ip \in Claims(t)
          /\ api'[t].ingress \cup lister'[t].ingress \subseteq Claims(t)
          /\ lbCache'[t].pairs # {} \/ (api'[t].ingress # {} /\ lister'[t].ingress = {})
               => Covers(lbCache'[t].pairs, t)
    BY <1>c, <2>2, Zenon DEF Claims
  <2> QED BY <1>f, <2>1, <2>3, <2>4, AddressIdle, Zenon
<1>3. CASE w.then = "install"
  <2>1. /\ lbCache' = [lbCache EXCEPT ![s] = ClearPairs(lbCache[s])]
        /\ w' = Installing(s, w.list, w.eps, w.fresh)
    BY <1>0, <1>3, Zenon DEF Deleted
  <2>2. /\ ClearPairs(lbCache[s]).pairs = {}
        /\ ClearPairs(lbCache[s]).added = lbCache[s].added
    BY <1>0, Zenon DEF ClearPairs, LbCacheEntry
  <2>3. /\ lbCache'[s].pairs = {} /\ lbCache'[s].added = lbCache[s].added
        /\ \A t \in Service \ {s} : lbCache'[t] = lbCache[t]
    BY <2>1, <2>2, Zenon DEF TypeOK
  <2>4. /\ w'.svc = s /\ w'.list = w.list /\ w'.todo = w.list
        /\ w'.fresh = w.fresh /\ w'.pc = "install"
    BY <2>1, Zenon DEF Installing
  <2>5. \A t \in Service : ListIPs(t)' = ListIPs(t) /\ ListPairs(t)' = ListPairs(t)
    BY <1>0, <2>4, Zenon DEF ListIPs, ListPairs
  <2>6. \A t \in Service : Claims(t)' \subseteq Claims(t)
    BY <2>3, <2>5, Zenon DEF Claims
  <2>7. OneClaim'
    BY <1>p, <2>6, Zenon DEF OneClaim
  <2>8. LifeCycle'
    BY <1>0, <1>p, <2>3, <2>4 DEF LifeCycle
  <2>9. Covers(ListPairs(s), s) /\ (w.fresh => api[s].ingress = {})
    BY <1>0, <1>3, <1>p, Zenon DEF Provided
  <2>10. Covers(ListPairs(s), s)'
    BY <2>5, <2>9, Zenon DEF Covers, PortsOf
  <2>11. \A t \in Service \ {s} :
           lbCache'[t].pairs # {} \/ (api'[t].ingress # {} /\ lister'[t].ingress = {})
             => Covers(lbCache'[t].pairs, t)
    BY <1>c, <2>3, Zenon
  <2>12. Provided'
    BY <2>3, <2>4, <2>9, <2>10, <2>11, Zenon DEF Provided
  <2> QED BY <1>f, <2>7, <2>8, <2>12, Zenon DEF AddressInv
<1> QED BY <1>1, <1>2, <1>3, Zenon DEF TypeOK, Worker

LEMMA AddressWork ==
  ASSUME AddressEnv, TypeOK, AddressInv,
         \/ DeleteOK      \/ DeleteError
         \/ InstallLB     \/ InstallError
         \/ UpdateService \/ UpdateServiceError
  PROVE  AddressInv'
<1>p. PortsFixed /\ OneClaim /\ LifeCycle /\ Provided
  BY Zenon DEF AddressInv
<1>0. PICK s \in Service : s = w.svc
  <2>1. w.pc # "idle"
    BY Zenon DEF DeleteOK, DeleteError, InstallLB, InstallError, UpdateService,
           UpdateServiceError
  <2> QED BY <2>1, Zenon DEF TypeOK, Worker
<1>1. CASE DeleteOK
  BY <1>1, AddressDeleted, Zenon DEF DeleteOK
<1>2. ASSUME w' = Idle, UNCHANGED <<lister, lbCache>>,
             \/ api' = api
             \/ /\ api[s].st = "live"
                /\ api' = [api EXCEPT ![s].ingress = @ \cup {x.pair.ip : x \in w.list}],
             lbCache[s].pairs # {} \/ (api'[s].ingress # {} /\ lister[s].ingress = {})
               => Covers(lbCache[s].pairs, s)
      PROVE  AddressInv'
  <2>1. /\ \A t \in Service : api'[t].st = api[t].st /\ api'[t].ports = api[t].ports
        /\ \A t \in Service \ {s} : api'[t].ingress = api[t].ingress
        /\ api'[s].ingress \subseteq api[s].ingress \cup ListIPs(s)
        /\ api[s].st # "live" => api'[s].ingress = api[s].ingress
    <3>1. CASE api' = api
      BY <3>1, Zenon
    <3>2. CASE api[s].st = "live" /\ api' # api
      <4>1. api' = [api EXCEPT ![s] = [api[s] EXCEPT !.ingress = @ \cup ListIPs(s)]]
        BY <1>0, <1>2, <3>2, Zenon DEF ListIPs
      <4>2. api[s] \in SvcObj
        BY Zenon DEF TypeOK
      <4> QED BY <3>2, <4>1, <4>2, Zenon DEF TypeOK, SvcObj
    <3> QED BY <1>2, <3>1, <3>2, Zenon
  <2>2. LifeCycle'
    BY <1>2, <1>p, <2>1, LoadBalancerAssumption DEF LifeCycle, Idle
  <2>3. PortsFixed'
    BY <1>2, <1>p, <2>1, Zenon DEF PortsFixed
  <2>4. \A t \in Service :
          lbCache[t].pairs # {} \/ (api'[t].ingress # {} /\ lister[t].ingress = {})
            => Covers(lbCache[t].pairs, t)
    <3>1. ASSUME NEW t \in Service, t # s
          PROVE  lbCache[t].pairs # {} \/ (api'[t].ingress # {} /\ lister[t].ingress = {})
                   => Covers(lbCache[t].pairs, t)
      BY <1>0, <1>p, <2>1, <3>1, Zenon DEF Provided
    <3> QED BY <1>2, <3>1, Zenon
  <2>5. \A t \in Service :
          /\ \A x \in lbCache'[t].pairs : x.ip \in Claims(t)
          /\ api'[t].ingress \cup lister'[t].ingress \subseteq Claims(t)
          /\ lbCache'[t].pairs # {} \/ (api'[t].ingress # {} /\ lister'[t].ingress = {})
               => Covers(lbCache'[t].pairs, t)
    BY <1>2, <2>1, <2>4, Zenon DEF Claims
  <2> QED BY <1>2, <2>2, <2>3, <2>5, AddressIdle, Zenon
<1>3. CASE DeleteError
  <2>1. CASE w.then = "install"
    BY <1>3, <2>1, AddressDeleted, Zenon DEF DeleteError
  <2>2. CASE w.then # "install"
    <3>1. w.pc = "delete" /\ w' = Idle /\ UNCHANGED <<api, lister, lbCache>>
      BY <1>3, <2>2, Zenon DEF DeleteError
    <3>2. lbCache[s].pairs # {} \/ (api'[s].ingress # {} /\ lister[s].ingress = {})
            => Covers(lbCache[s].pairs, s)
      BY <1>p, <3>1, Zenon DEF Provided
    <3> QED BY <1>2, <3>1, <3>2, Zenon
  <2> QED BY <2>1, <2>2, Zenon
<1>4. CASE InstallLB
  <2>1. PICK x \in NextPair :
          /\ lbCache' = [lbCache EXCEPT ![w.svc].pairs = @ \cup {x.pair},
                                        ![w.svc].eps = w.eps]
          /\ w' = [w EXCEPT !.todo = @ \ {x},
                            !.pc = IF w.todo = {x} THEN "status" ELSE "install"]
    BY <1>4, Zenon DEF InstallLB
  <2>2. /\ x \in w.todo /\ x \in w.list /\ x.pair.ip \in ListIPs(s)
    BY <1>0, <1>p, Zenon DEF NextPair, Provided, ListIPs
  <2>3. /\ w'.svc = w.svc /\ w'.list = w.list /\ w'.todo = w.todo \ {x}
        /\ w'.fresh = w.fresh
        /\ w.todo = {x} => w'.pc = "status"
        /\ w.todo # {x} => w'.pc = "install"
    BY <2>1, Zenon DEF TypeOK, Worker
  <2>4. /\ \A t \in Service \ {s} : lbCache'[t] = lbCache[t]
        /\ lbCache'[s].pairs = lbCache[s].pairs \cup {x.pair}
        /\ lbCache'[s].added = lbCache[s].added
    BY <1>0, <2>1 DEF TypeOK, LbCacheEntry
  <2>5. \A t \in Service : ListIPs(t)' = ListIPs(t) /\ ListPairs(t)' = ListPairs(t)
    BY <2>3, Zenon DEF ListIPs, ListPairs
  <2>6. UNCHANGED <<api, lister>> /\ w.pc = "install"
    BY <1>4, Zenon DEF InstallLB
  <2>7. \A t \in Service : Claims(t)' \subseteq Claims(t)
    BY <2>2, <2>4, <2>5, <2>6 DEF Claims
  <2>8. LifeCycle' /\ PortsFixed' /\ OneClaim'
    BY <1>p, <2>3, <2>4, <2>6, <2>7 DEF LifeCycle, PortsFixed, OneClaim
  <2>9. /\ w.todo \subseteq w.list
        /\ Covers(ListPairs(s), s)
        /\ \A y \in w.list \ w.todo : y.pair \in lbCache[s].pairs
        /\ w.fresh => api[s].ingress = {}
    BY <1>0, <1>p, <2>6, Zenon DEF Provided
  <2>10. Covers(ListPairs(s), s)'
    BY <2>5, <2>9, Zenon DEF Covers, PortsOf
  <2>11. \A y \in w'.list \ w'.todo : y.pair \in lbCache'[s].pairs
    BY <2>3, <2>4, <2>9, Zenon
  <2>12. \A t \in Service \ {s} :
           lbCache'[t].pairs # {} \/ (api'[t].ingress # {} /\ lister'[t].ingress = {})
             => Covers(lbCache'[t].pairs, t)
    BY <1>0, <1>p, <2>4, <2>6, Zenon DEF Provided
  <2>13. /\ w'.todo \subseteq w'.list /\ w'.todo # w'.list
         /\ w'.pc = "status" => w'.todo = {}
         /\ w'.pc # "delete"
    BY <2>2, <2>3, <2>9, Zenon
  <2>14. Provided'
    BY <1>0, <2>3, <2>6, <2>9, <2>10, <2>11, <2>12, <2>13, Zenon DEF Provided
  <2> QED BY <2>8, <2>14, Zenon DEF AddressInv
<1>5. CASE InstallError
  <2>1. w.fresh /\ w.todo = w.list /\ w.pc = "install"
    BY <1>5, Zenon DEF InstallError, Stage, AddressEnv
  <2>2. lbCache[s].pairs = {} /\ api[s].ingress = {}
    BY <1>0, <1>p, <2>1, Zenon DEF Provided
  <2>3. w' = Idle /\ UNCHANGED <<api, lister, lbCache>>
    BY <1>5, Zenon DEF InstallError
  <2> QED BY <1>2, <2>2, <2>3, Zenon
<1>6. ASSUME w.pc = "status" PROVE Covers(lbCache[s].pairs, s)
  <2>1. /\ Covers(ListPairs(s), s) /\ w.todo = {}
        /\ \A x \in w.list \ w.todo : x.pair \in lbCache[s].pairs
    BY <1>0, <1>6, <1>p, Zenon DEF Provided
  <2>2. ListPairs(s) \subseteq lbCache[s].pairs
    BY <1>0, <2>1, Zenon DEF ListPairs
  <2> QED BY <2>1, <2>2, Zenon DEF Covers
<1>7. CASE UpdateService
  BY <1>0, <1>2, <1>6, <1>7, Zenon DEF UpdateService
<1>8. CASE UpdateServiceError
  BY <1>2, <1>6, <1>8, Zenon DEF UpdateServiceError
<1> QED BY <1>1, <1>3, <1>4, <1>5, <1>7, <1>8, Zenon

LEMMA AddressInvariant ==
  ASSUME AddressEnv
  PROVE  Spec => []AddressInv
<1>1. Init => AddressInv
  <2> SUFFICES ASSUME Init PROVE AddressInv
    BY Zenon
  <2>1. OneClaim
    BY DEF Init, OneClaim, Claims, ListIPs, Absent, NotCached, Idle
  <2>2. LifeCycle
    BY LoadBalancerAssumption, Zenon DEF Init, LifeCycle, Absent, NotCached, Idle
  <2>3. PortsFixed
    BY Zenon DEF Init, PortsFixed, Absent
  <2>4. Provided
    BY LoadBalancerAssumption, Zenon DEF Init, Provided, Idle, Absent, NotCached
  <2> QED BY <2>1, <2>2, <2>3, <2>4, Zenon DEF AddressInv
<1>2. TypeOK /\ AddressInv /\ [Next]_vars => AddressInv'
  <2> SUFFICES ASSUME TypeOK, AddressInv, [Next]_vars PROVE AddressInv'
    BY Zenon
  <2>1. CASE UNCHANGED vars
    <3>1. UNCHANGED <<api, lister, lbCache, w>>
      BY <2>1, Zenon DEF vars
    <3>2. PortsFixed' /\ LifeCycle'
      BY <3>1, Zenon DEF AddressInv, PortsFixed, LifeCycle
    <3> QED BY <3>1, <3>2, AddressElsewhere, Zenon
  <2> QED BY <2>1, AddressEnvironment, AddressSync, AddressWork, Zenon DEF Next
<1> QED BY <1>1, <1>2, TypeCorrect, PTL DEF Spec

(* A service never has two addresses: what a retry, a stale lister, a lost status     *)
(* update, a sync cut short by the end of the agent, or a new agent with an empty      *)
(* cache and pool installs and advertises is on the address the service has.           *)
THEOREM ServiceHasOneAddress ==
  ASSUME AddressEnv
  PROVE  Spec => []OneAddress
<1>1. AddressInv => OneAddress
  BY Zenon DEF AddressInv, OneAddress, OneClaim, Claims, Addresses
<1> QED BY <1>1, AddressInvariant, PTL

-----------------------------------------------------------------------------
(* In the environments of UniqueEnv, when a service keeps its ports and no   *)
(* reply is lost.  (A port that goes leaves its rule behind, and so does a   *)
(* rule that was refused and is in place all the same.)                     *)
HeldEnv ==
  /\ UniqueEnv
  /\ ~LostReplies
  /\ \A s \in Service : \A k, l \in PortLists[s] : k = l

(* The rules of a service, cached or about to be. *)
Entries(s) == lbCache[s].pairs \cup ListPairs(s)

(* All rules of a service hold its address, for one of its ports. *)
EntriesOK ==
  \A s \in Service : \A p \in Entries(s) :
    p.inRange /\ p.ident = NoIdent /\ p.port \in PortsOf(s)

(* A service that has an address has all its rules in the cache, except     *)
(* while they are installed; what is installed are all of them.             *)
Complete ==
  \A s \in Service :
    /\ (w.svc # s \/ w.pc = "delete")
         /\ (lbCache[s].pairs # {} \/ api[s].ingress # {} \/ lister[s].ingress # {})
         => Covers(lbCache[s].pairs, s)
    /\ w.svc = s /\ (w.pc # "delete" \/ w.then = "install") => Covers(ListPairs(s), s)
    /\ w.svc = s /\ w.pc # "delete" => \A x \in w.list \ w.todo : x.pair \in lbCache[s].pairs
    /\ w.svc = s /\ w.pc = "status" => w.todo = {}
    /\ w.svc = s /\ w.pc = "delete" /\ w.then # "install" => w.list = {}
    /\ w.svc = s /\ w.pc \in {"delete", "install"} /\ w.fresh => \E x \in w.list : x.allocd

(* Every rule on an instance belongs to a service. *)
RulesOwned ==
  \A c \in Client : \A r \in rules[c] : \E s \in Service : \E p \in Entries(s) : r = RuleOf(p)

(* No instance has a rule for the address a first attempt gives back. *)
FreshClean ==
  w.pc \in {"delete", "install"} /\ w.fresh /\ w.todo = w.list =>
    \A c \in Client : \A r \in rules[c] : r[1] \notin ListIPs(w.svc)

HeldInv ==
  PortsFixed /\ OneClaim /\ EntriesOK /\ Complete /\ NoLeak /\ RulesOwned /\ FreshClean

-----------------------------------------------------------------------------
LEMMA EntryIPs == \A s \in Service : \A p \in Entries(s) : p.ip \in Claims(s)
  BY Zenon DEF Entries, ListPairs, Claims, ListIPs

LEMMA TokensOfEntries == \A s \in Service : Tokens(s) = {Token(p) : p \in Entries(s)}
  BY Zenon DEF Tokens, Entries, ListPairs

(* Rules that cover the ports of a service stand for all of its rules. *)
LEMMA StandFor ==
  ASSUME OneClaim, EntriesOK, NEW s \in Service, NEW S \in SUBSET Entries(s), Covers(S, s),
         NEW p \in Entries(s)
  PROVE  \E q \in S : RuleOf(q) = RuleOf(p) /\ Token(q) = Token(p)
<1>1. p.port \in PortsOf(s) /\ p.ident = NoIdent /\ p.ip \in Claims(s)
  BY EntryIPs, Zenon DEF EntriesOK
<1>2. PICK q \in S : q.port = p.port
  BY <1>1, Zenon DEF Covers
<1>3. q.ident = NoIdent /\ q.ip = p.ip
  BY <1>1, EntryIPs, Zenon DEF EntriesOK, OneClaim
<1> QED BY <1>1, <1>2, <1>3, Zenon DEF RuleOf, Token

(* Owners are not lost when every rule of a service has one that stands for it. *)
LEMMA OwnersKept ==
  ASSUME NoLeak, RulesOwned, held' \subseteq held,
         \A c \in Client : rules'[c] \subseteq rules[c],
         \A s \in Service : \A p \in Entries(s) :
           \E q \in Entries(s)' : RuleOf(q) = RuleOf(p) /\ Token(q) = Token(p)
  PROVE  NoLeak' /\ RulesOwned'
<1>1. \A s \in Service : (Tokens(s) = {Token(p) : p \in Entries(s)})'
  BY DEF Tokens, Entries, ListPairs
<1>2. NoLeak'
  <2> SUFFICES ASSUME NEW h \in held' PROVE \E s \in Service : h \in Tokens(s)'
    BY Zenon DEF NoLeak
  <2>1. PICK s \in Service : \E p \in Entries(s) : h = Token(p)
    BY TokensOfEntries DEF NoLeak
  <2> QED BY <1>1, <2>1
<1>3. RulesOwned'
  BY DEF RulesOwned
<1> QED BY <1>2, <1>3, Zenon

(* While the worker installs the rules of one service, Complete is about that *)
(* service's list and the other services' cache entries.                     *)
LEMMA CompleteBusy ==
  ASSUME NEW s \in Service, w'.svc = s, w'.pc # "delete" \/ w'.then = "install",
         \A t \in Service \ {s} :
           (lbCache'[t].pairs # {} \/ api'[t].ingress # {} \/ lister'[t].ingress # {})
             => Covers(lbCache'[t].pairs, t),
         w'.pc = "delete" =>
           lbCache'[s].pairs = {} /\ api'[s].ingress = {} /\ lister'[s].ingress = {},
         Covers(ListPairs(s)', s),
         w'.pc # "delete" => \A x \in w'.list \ w'.todo : x.pair \in lbCache'[s].pairs,
         w'.pc = "status" => w'.todo = {},
         w'.fresh => \E x \in w'.list : x.allocd
  PROVE  Complete'
<1> SUFFICES ASSUME NEW t \in Service
             PROVE  /\ (w'.svc # t \/ w'.pc = "delete")
                         /\ (lbCache'[t].pairs # {} \/ api'[t].ingress # {} \/ lister'[t].ingress # {})
                         => Covers(lbCache'[t].pairs, t)
                    /\ w'.svc = t => Covers(ListPairs(t)', t)
  BY Zenon DEF Complete
<1>1. CASE t = s
  BY <1>1, Zenon
<1>2. CASE t # s
  BY <1>2, Zenon
<1> QED BY <1>1, <1>2, Zenon

(* The worker goes idle and the cache has, for each service, rules that cover *)
(* what it claims.                                                          *)
LEMMA HeldIdle ==
  ASSUME TypeOK, HeldInv, PortsFixed', w' = Idle, NoLeak', RulesOwned',
         \A s \in Service :
           /\ lbCache'[s].pairs \subseteq Entries(s)
           /\ api'[s].ingress \cup lister'[s].ingress \subseteq Claims(s)
           /\ lbCache'[s].pairs # {} \/ api'[s].ingress # {} \/ lister'[s].ingress # {}
                => Covers(lbCache'[s].pairs, s)
  PROVE  HeldInv'
<1>1. w'.svc = None /\ w'.pc = "idle" /\ \A t \in Service : t # None
  BY LoadBalancerAssumption, Zenon DEF Idle
<1>2. \A t \in Service : ListPairs(t)' = {} /\ ListIPs(t)' = {}
  BY <1>1, Zenon DEF ListPairs, ListIPs
<1>3. \A t \in Service : Entries(t)' \subseteq Entries(t) /\ Claims(t)' \subseteq Claims(t)
  <2>1. \A t \in Service : Entries(t)' = lbCache'[t].pairs
    BY <1>2, Zenon DEF Entries
  <2> QED BY <1>2, <2>1, EntryIPs DEF Claims
<1>4. OneClaim' /\ EntriesOK'
  BY <1>3, Zenon DEF HeldInv, OneClaim, EntriesOK
<1>5. Complete'
  BY <1>1, Zenon DEF Complete, Covers
<1>6. FreshClean'
  BY <1>1, Zenon DEF FreshClean
<1> QED BY <1>4, <1>5, <1>6, Zenon DEF HeldInv

LEMMA HeldDeleted ==
  ASSUME HeldEnv, TypeOK, UniqueInv, HeldInv, w.pc = "delete", Deleted(w.svc),
         UNCHANGED <<api, lister>>,
         \A c \in Client : rules'[c] \subseteq rules[c],
         w.then = "release" =>
           \A c \in Client : rules'[c] \cap RulesOf(lbCache[w.svc].pairs) = {}
  PROVE  HeldInv'
<1> USE DEF HeldInv
<1>s. PICK s \in Service : s = w.svc
  BY Zenon DEF TypeOK, Worker
<1>0. lbCache[s] \in LbCacheEntry /\ PortsFixed'
  BY Zenon DEF TypeOK, PortsFixed
<1>l. \A t \in Service \ {s} : /\ ListPairs(t) = {} /\ Entries(t) = lbCache[t].pairs
                               /\ lbCache[t].pairs # {} \/ api[t].ingress # {} \/ lister[t].ingress # {}
                                    => Covers(lbCache[t].pairs, t)
  BY <1>s, Zenon DEF ListPairs, Entries, Complete
<1>i. \A t \in Service : api[t].ingress \cup lister[t].ingress \subseteq Claims(t)
  BY Zenon DEF Claims
<1>c. lbCache[s].pairs # {} \/ api[s].ingress # {} \/ lister[s].ingress # {}
        => Covers(lbCache[s].pairs, s)
  BY <1>s, Zenon DEF Complete
<1>1. CASE w.then = "release"
  <2>1. /\ held' = AfterReturn({Token(p) : p \in {q \in lbCache[s].pairs : q.inRange}})
        /\ lbCache' = [lbCache EXCEPT ![s] = NotCached]
        /\ w' = Idle
    BY <1>s, <1>1, Zenon DEF Deleted
  <2>2. lister[s].ingress = {} /\ api[s].ingress = {}
    BY <1>s, <1>1, Zenon DEF UniqueInv, MayReturn, LifeCycle
  <2>3. Entries(s) = lbCache[s].pairs
    BY <1>s, <1>1, Zenon DEF Entries, ListPairs, Complete
  <2>4. /\ lbCache'[s].pairs = {}
        /\ \A t \in Service \ {s} : lbCache'[t].pairs = lbCache[t].pairs
    BY <2>1, Zenon DEF TypeOK, NotCached
  <2>5. \A t \in Service \ {s} : Entries(t) \subseteq Entries(t)'
    BY <1>l, <2>4, Zenon DEF Entries
  <2>6. NoLeak'
    <3> SUFFICES ASSUME NEW h \in held' PROVE \E t \in Service : h \in Tokens(t)'
      BY Zenon DEF NoLeak
    <3>1. h \in held /\ Contains(h[1])
      BY <2>1, Zenon DEF AfterReturn, TypeOK, PoolTypeOK, Contains
    <3>2. PICK t \in Service : \E p \in Entries(t) : h = Token(p)
      BY <3>1, TokensOfEntries DEF NoLeak
    <3>3. t # s
      <4> SUFFICES ASSUME t = s PROVE FALSE
        BY Zenon
      <4>1. PICK p \in lbCache[s].pairs : h = Token(p)
        BY <2>3, <3>2, Zenon
      <4>2. p.inRange
        BY <2>3, Zenon DEF EntriesOK
      <4> QED BY <2>1, <3>1, <4>1, <4>2, Zenon DEF AfterReturn
    <3>4. \A u \in Service : (Tokens(u) = {Token(p) : p \in Entries(u)})'
      BY Zenon DEF Tokens, Entries, ListPairs
    <3> QED BY <2>5, <3>2, <3>3, <3>4, Zenon
  <2>7. RulesOwned'
    <3> SUFFICES ASSUME NEW c \in Client, NEW r \in rules'[c]
                 PROVE  \E t \in Service : \E p \in Entries(t)' : r = RuleOf(p)
      BY Zenon DEF RulesOwned
    <3>1. r \in rules[c] /\ r \notin RulesOf(lbCache[s].pairs)
      BY <1>s, <1>1, Zenon
    <3>2. PICK t \in Service : \E p \in Entries(t) : r = RuleOf(p)
      BY <3>1, Zenon DEF RulesOwned
    <3>3. t # s
      BY <2>3, <3>1, <3>2, Zenon DEF RulesOf
    <3> QED BY <2>5, <3>2, <3>3, Zenon
  <2> QED BY <1>0, <1>i, <1>l, <2>1, <2>2, <2>4, <2>6, <2>7, HeldIdle, Zenon
<1>2. CASE w.then = "drain"
  <2>1. /\ lbCache' = [lbCache EXCEPT ![s] = [lbCache[s] EXCEPT !.eps = None]]
        /\ w' = Idle /\ held' = held
    BY <1>s, <1>2, Zenon DEF Deleted
  <2>2. \A t \in Service : lbCache'[t].pairs = lbCache[t].pairs
    BY <1>0, <2>1, Zenon DEF TypeOK, LbCacheEntry
  <2>3. Entries(s) = lbCache[s].pairs
    BY <1>s, <1>2, Zenon DEF Entries, ListPairs, Complete
  <2>4. \A t \in Service : Entries(t) \subseteq Entries(t)'
    BY <1>l, <2>2, <2>3, Zenon DEF Entries
  <2>5. NoLeak' /\ RulesOwned'
    BY <2>1, <2>4, OwnersKept, Zenon
  <2> QED BY <1>0, <1>c, <1>i, <1>l, <2>1, <2>2, <2>3, <2>5, HeldIdle
<1>3. CASE w.then = "install"
  <2>1. /\ lbCache' = [lbCache EXCEPT ![s] = ClearPairs(lbCache[s])]
        /\ w' = Installing(s, w.list, w.eps, w.fresh)
        /\ held' = held
    BY <1>s, <1>3, Zenon DEF Deleted
  <2>2. ClearPairs(lbCache[s]).pairs = {}
    BY <1>0, Zenon DEF ClearPairs, LbCacheEntry
  <2>3. /\ lbCache'[s].pairs = {}
        /\ \A t \in Service \ {s} : lbCache'[t].pairs = lbCache[t].pairs
    BY <2>1, <2>2, Zenon DEF TypeOK
  <2>4. /\ w'.svc = s /\ w'.list = w.list /\ w'.todo = w.list
        /\ w'.fresh = w.fresh /\ w'.pc = "install" /\ w'.then = "install"
    BY <2>1, Zenon DEF Installing
  <2>5. \A t \in Service : ListPairs(t)' = ListPairs(t) /\ ListIPs(t)' = ListIPs(t)
    BY <1>s, <2>4, Zenon DEF ListPairs, ListIPs
  <2>6. \A t \in Service : Entries(t)' \subseteq Entries(t) /\ Claims(t)' \subseteq Claims(t)
    BY <2>3, <2>5, Zenon DEF Entries, Claims
  <2>7. OneClaim' /\ EntriesOK'
    BY <2>6, Zenon DEF OneClaim, EntriesOK
  <2>8. Covers(ListPairs(s), s)
    BY <1>s, <1>3, Zenon DEF Complete
  <2>9. ASSUME NEW t \in Service, NEW p \in Entries(t)
        PROVE  \E q \in Entries(t)' : RuleOf(q) = RuleOf(p) /\ Token(q) = Token(p)
    <3>1. CASE t = s
      <4>1. ListPairs(s) \in SUBSET Entries(s) /\ ListPairs(s) \subseteq Entries(s)'
        BY <2>5, Zenon DEF Entries
      <4> QED BY <2>8, <2>9, <3>1, <4>1, StandFor
    <3>2. CASE t # s
      BY <1>l, <2>3, <2>9, <3>2, Zenon DEF Entries
    <3> QED BY <3>1, <3>2, Zenon
  <2>10. NoLeak' /\ RulesOwned'
    BY <2>1, <2>9, OwnersKept, Zenon
  <2>11. Complete'
    <3>1. w.fresh => \E x \in w.list : x.allocd
      BY <1>s, Zenon DEF Complete
    <3>2. \A t \in Service \ {s} :
            lbCache'[t].pairs # {} \/ api'[t].ingress # {} \/ lister'[t].ingress # {}
              => Covers(lbCache'[t].pairs, t)
      BY <1>l, <2>3, Zenon
    <3>3. Covers(ListPairs(s)', s) /\ (w'.fresh => \E x \in w'.list : x.allocd)
      BY <2>4, <2>5, <2>8, <3>1, Zenon
    <3> QED BY <2>4, <3>2, <3>3, CompleteBusy, Zenon
  <2>12. FreshClean'
    <3>1. w.todo = w.list
      BY Zenon DEF UniqueInv, MayReturn
    <3> QED BY <1>s, <2>4, <2>5, <3>1, Zenon DEF FreshClean
  <2> QED BY <1>0, <2>7, <2>10, <2>11, <2>12, Zenon
<1> QED BY <1>1, <1>2, <1>3, Zenon DEF TypeOK, Worker

LEMMA HeldWork ==
  ASSUME HeldEnv, TypeOK, UniqueInv, HeldInv,
         \/ DeleteOK      \/ DeleteError
         \/ InstallLB     \/ InstallError
         \/ UpdateService \/ UpdateServiceError
  PROVE  HeldInv'
<1> USE DEF HeldInv
<1>s. PICK s \in Service : s = w.svc
  <2>1. w.pc # "idle"
    BY Zenon DEF DeleteOK, DeleteError, InstallLB, InstallError, UpdateService, UpdateServiceError
  <2> QED BY <2>1, Zenon DEF TypeOK, Worker
<1>l. \A t \in Service \ {s} : /\ ListPairs(t) = {} /\ Entries(t) = lbCache[t].pairs
                               /\ lbCache[t].pairs # {} \/ api[t].ingress # {} \/ lister[t].ingress # {}
                                    => Covers(lbCache[t].pairs, t)
  BY <1>s, Zenon DEF ListPairs, Entries, Complete
<1>i. \A t \in Service : api[t].ingress \cup lister[t].ingress \subseteq Claims(t)
  BY Zenon DEF Claims
<1>1. CASE DeleteOK
  <2>1. \A c \in Client : /\ rules'[c] \subseteq rules[c]
                          /\ rules'[c] \cap RulesOf(lbCache[w.svc].pairs) = {}
    BY <1>1, Zenon DEF DeleteOK
  <2> QED BY <1>1, <2>1, HeldDeleted, Zenon DEF DeleteOK
<1>2. CASE DeleteError
  <2>1. \A c \in Client : rules'[c] \subseteq rules[c]
    BY <1>2, Zenon DEF DeleteError
  <2>2. CASE w.then = "install"
    BY <1>2, <2>1, <2>2, HeldDeleted, Zenon DEF DeleteError
  <2>3. CASE w.then # "install"
    <3>1. w.pc = "delete" /\ w' = Idle /\ UNCHANGED <<api, lister, lbCache, held>>
      BY <1>2, <2>3, Zenon DEF DeleteError
    <3>2. Entries(s) = lbCache[s].pairs
      BY <1>s, <2>3, <3>1, Zenon DEF Entries, ListPairs, Complete
    <3>3. \A t \in Service : Entries(t) \subseteq Entries(t)'
      BY <1>l, <3>1, <3>2, Zenon DEF Entries
    <3>4. NoLeak' /\ RulesOwned'
      BY <2>1, <3>1, <3>3, OwnersKept, Zenon
    <3>5. PortsFixed'
      BY <3>1, Zenon DEF PortsFixed
    <3>6. lbCache[s].pairs # {} \/ api[s].ingress # {} \/ lister[s].ingress # {}
            => Covers(lbCache[s].pairs, s)
      BY <1>s, <3>1, Zenon DEF Complete
    <3> QED BY <1>i, <1>l, <3>1, <3>2, <3>4, <3>5, <3>6, HeldIdle, Zenon
  <2> QED BY <2>2, <2>3, Zenon
<1>3. CASE InstallLB
  <2>1. PICK x \in NextPair, accepted \in SUBSET Client \ {{}} :
          /\ AddRule(accepted, x.pair)
          /\ lbCache' = [lbCache EXCEPT ![w.svc].pairs = @ \cup {x.pair},
                                        ![w.svc].eps = w.eps]
          /\ w' = [w EXCEPT !.todo = @ \ {x},
                            !.pc = IF w.todo = {x} THEN "status" ELSE "install"]
    BY <1>3, Zenon DEF InstallLB
  <2>2. x \in w.todo /\ x \in w.list /\ x.pair \in ListPairs(s)
    BY <1>s, Zenon DEF NextPair, UniqueInv, MayReturn, ListPairs
  <2>3. /\ w'.svc = w.svc /\ w'.list = w.list /\ w'.todo = w.todo \ {x}
        /\ w'.fresh = w.fresh
        /\ \/ w'.pc = "status" /\ w.todo = {x}
           \/ w'.pc = "install"
    BY <2>1, Zenon DEF TypeOK, Worker
  <2>4. /\ \A t \in Service \ {s} : lbCache'[t].pairs = lbCache[t].pairs
        /\ lbCache'[s].pairs = lbCache[s].pairs \cup {x.pair}
    BY <1>s, <2>1 DEF TypeOK, LbCacheEntry
  <2>5. w.pc = "install" /\ UNCHANGED <<api, lister, held>>
    BY <1>3, Zenon DEF InstallLB
  <2>6. \A t \in Service : ListPairs(t)' = ListPairs(t) /\ ListIPs(t)' = ListIPs(t)
    BY <2>3, Zenon DEF ListPairs, ListIPs
  <2>7. \A t \in Service : Entries(t)' = Entries(t)
    BY <2>2, <2>4, <2>6, Zenon DEF Entries
  <2>8. \A t \in Service : Claims(t)' \subseteq Claims(t)
    BY <2>2, <2>4, <2>5, <2>6, EntryIPs DEF Claims, Entries
  <2>9. OneClaim' /\ EntriesOK'
    BY <2>7, <2>8 DEF OneClaim, EntriesOK
  <2>10. NoLeak'
    <3>1. \A u \in Service : (Tokens(u) = {Token(p) : p \in Entries(u)})'
      BY Zenon DEF Tokens, Entries, ListPairs
    <3> QED BY <2>5, <2>7, <3>1, TokensOfEntries DEF NoLeak
  <2>11. RulesOwned'
    <3>1. x.pair \in Entries(s)
      BY <2>2, Zenon DEF Entries
    <3>2. \A c \in Client : rules'[c] \subseteq rules[c] \cup {RuleOf(x.pair)}
      BY <2>1, Zenon DEF AddRule
    <3> QED BY <2>7, <3>1, <3>2 DEF RulesOwned
  <2>12. Complete'
    <3>1. Covers(ListPairs(s), s) /\ \A y \in w.list \ w.todo : y.pair \in lbCache[s].pairs
      BY <1>s, <2>5, Zenon DEF Complete
    <3>2. w.fresh => \E y \in w.list : y.allocd
      BY <1>s, <2>5, Zenon DEF Complete
    <3>3. \A t \in Service \ {s} :
            lbCache'[t].pairs # {} \/ api'[t].ingress # {} \/ lister'[t].ingress # {}
              => Covers(lbCache'[t].pairs, t)
      BY <1>l, <2>4, <2>5, Zenon
    <3>4. Covers(ListPairs(s)', s) /\ (w'.fresh => \E y \in w'.list : y.allocd)
      BY <2>3, <2>6, <3>1, <3>2, Zenon
    <3>5. \A y \in w'.list \ w'.todo : y.pair \in lbCache'[s].pairs
      BY <2>3, <2>4, <3>1, Zenon
    <3> QED BY <1>s, <2>3, <3>3, <3>4, <3>5, CompleteBusy, Zenon
  <2>13. FreshClean' /\ PortsFixed'
    BY <2>2, <2>3, <2>5, Zenon DEF FreshClean, PortsFixed
  <2> QED BY <2>9, <2>10, <2>11, <2>12, <2>13, Zenon
<1>4. CASE InstallError
  <2>1. w.fresh /\ w.todo = w.list /\ w.pc = "install"
    BY <1>4, Zenon DEF InstallError, Stage, HeldEnv, UniqueEnv
  <2> DEFINE T == {Token(x.pair) : x \in {y \in w.list : y.pair.inRange /\ y.allocd}}
  <2>2. /\ held' = AfterReturn(T) /\ w' = Idle /\ UNCHANGED <<api, lister, lbCache>>
        /\ \A c \in Client : rules'[c] = rules[c]
    BY <1>4, Zenon DEF InstallError, AddRule, HeldEnv
  <2>3. /\ lbCache[s].pairs = {}
        /\ ListIPs(s) \cap (api[s].ingress \cup lister[s].ingress) = {}
    BY <1>s, <2>1, Zenon DEF UniqueInv, MayReturn
  <2>4. PICK x \in w.list : x.allocd
    BY <1>s, <2>1, Zenon DEF Complete
  <2>5. x.pair \in Entries(s) /\ x.pair.ip \in ListIPs(s) /\ x.pair.ip \in Claims(s)
    BY <1>s, Zenon DEF Entries, ListPairs, ListIPs, Claims
  <2>6. api[s].ingress = {} /\ lister[s].ingress = {}
    BY <2>3, <2>5 DEF OneClaim, Claims
  <2>7. Token(x.pair) \in T
    BY <2>4, <2>5, Zenon DEF EntriesOK
  <2> HIDE DEF T
  <2>8. \A t \in Service \ {s} : Entries(t) \subseteq Entries(t)'
    BY <1>l, <2>2, Zenon DEF Entries
  <2>9. NoLeak'
    <3> SUFFICES ASSUME NEW h \in held' PROVE \E t \in Service : h \in Tokens(t)'
      BY Zenon DEF NoLeak
    <3>1. h \in held /\ Contains(h[1]) /\ h \notin T
      BY <2>2, Zenon DEF AfterReturn, TypeOK, PoolTypeOK, Contains
    <3>2. PICK t \in Service : \E p \in Entries(t) : h = Token(p)
      BY <3>1, TokensOfEntries DEF NoLeak
    <3>3. t # s
      <4> SUFFICES ASSUME t = s PROVE FALSE
        BY Zenon
      <4>1. PICK p \in Entries(s) : h = Token(p)
        BY <3>2, Zenon
      <4>2. p.ip = x.pair.ip /\ p.ident = x.pair.ident
        BY <2>5, EntryIPs, Zenon DEF OneClaim, EntriesOK
      <4> QED BY <2>7, <3>1, <4>1, <4>2, Zenon DEF Token
    <3>4. \A u \in Service : (Tokens(u) = {Token(p) : p \in Entries(u)})'
      BY Zenon DEF Tokens, Entries, ListPairs
    <3> QED BY <2>8, <3>2, <3>3, <3>4, Zenon
  <2>10. RulesOwned'
    <3> SUFFICES ASSUME NEW c \in Client, NEW r \in rules[c]
                 PROVE  \E t \in Service : \E p \in Entries(t)' : r = RuleOf(p)
      BY <2>2, Zenon DEF RulesOwned
    <3>1. PICK t \in Service : \E p \in Entries(t) : r = RuleOf(p)
      BY Zenon DEF RulesOwned
    <3>2. t # s
      <4>1. r[1] \notin ListIPs(s)
        BY <1>s, <2>1, Zenon DEF FreshClean
      <4>2. \A p \in Entries(s) : RuleOf(p)[1] \in ListIPs(s)
        BY <1>s, <2>3, Zenon DEF Entries, ListPairs, ListIPs, RuleOf
      <4> QED BY <3>1, <4>1, <4>2, Zenon
    <3> QED BY <2>8, <3>1, <3>2, Zenon
  <2>11. PortsFixed'
    BY <2>2, Zenon DEF PortsFixed
  <2> QED BY <1>i, <1>l, <2>2, <2>3, <2>6, <2>9, <2>10, <2>11, HeldIdle, Zenon
<1>5. CASE UpdateService \/ UpdateServiceError
  <2>1. w.pc = "status" /\ w' = Idle /\ UNCHANGED <<lister, held, lbCache, rules>>
    BY <1>5, Zenon DEF UpdateService, UpdateServiceError
  <2>2. /\ \A t \in Service \ {s} : api'[t].ingress = api[t].ingress
        /\ api'[s].ingress \subseteq api[s].ingress \cup ListIPs(s)
        /\ \A t \in Service : api'[t].st = api[t].st /\ api'[t].ports = api[t].ports
    <3>1. CASE UpdateServiceError
      BY <3>1, Zenon DEF UpdateServiceError
    <3>2. CASE UpdateService
      <4>1. api' = [api EXCEPT ![s] = [api[s] EXCEPT !.ingress = @ \cup ListIPs(s)]]
        BY <1>s, <3>2, Zenon DEF UpdateService, ListIPs
      <4>2. api[s] \in SvcObj
        BY Zenon DEF TypeOK
      <4> QED BY <4>1, <4>2, Zenon DEF TypeOK, SvcObj
    <3> QED BY <1>5, <3>1, <3>2, Zenon
  <2>3. Covers(ListPairs(s), s) /\ ListPairs(s) \subseteq lbCache[s].pairs
    BY <1>s, <2>1, Zenon DEF Complete, ListPairs
  <2>4. Covers(lbCache[s].pairs, s) /\ Entries(s) = lbCache[s].pairs
    BY <2>3, Zenon DEF Covers, Entries
  <2>5. \A t \in Service : Entries(t) \subseteq Entries(t)'
    BY <1>l, <2>1, <2>4, Zenon DEF Entries
  <2>6. NoLeak' /\ RulesOwned'
    BY <2>1, <2>5, OwnersKept, Zenon
  <2>7. PortsFixed'
    BY <2>1, <2>2, Zenon DEF PortsFixed
  <2>8. ListIPs(s) \subseteq Claims(s)
    BY Zenon DEF Claims
  <2> QED BY <1>i, <1>l, <2>1, <2>2, <2>4, <2>6, <2>7, <2>8, HeldIdle, Zenon
<1> QED BY <1>1, <1>2, <1>3, <1>4, <1>5, Zenon

(* A step of the users, the informer or a late delete. *)
LEMMA HeldElsewhere ==
  ASSUME HeldInv, PortsFixed', UNCHANGED <<held, lbCache, w>>,
         \A c \in Client : rules'[c] \subseteq rules[c],
         \A s \in Service : /\ api'[s].ingress \subseteq api[s].ingress
                            /\ lister'[s].ingress \subseteq lister[s].ingress \cup api[s].ingress
  PROVE  HeldInv'
<1> USE DEF HeldInv
<1>1. \A s \in Service : ListPairs(s)' = ListPairs(s) /\ ListIPs(s)' = ListIPs(s)
  BY Zenon DEF ListPairs, ListIPs
<1>2. \A s \in Service : Entries(s)' = Entries(s)
  BY <1>1, Zenon DEF Entries
<1>3. \A s \in Service : Claims(s)' \subseteq Claims(s)
  BY <1>1, Zenon DEF Claims
<1>4. OneClaim'
  BY <1>3, Zenon DEF OneClaim
<1>5. EntriesOK'
  BY <1>2, Zenon DEF EntriesOK
<1>6. Complete'
  BY <1>1 DEF Complete, Covers
<1>7. NoLeak' /\ RulesOwned'
  BY <1>2, OwnersKept, Zenon
<1>8. FreshClean'
  BY Zenon DEF FreshClean, ListIPs
<1> QED BY <1>4, <1>5, <1>6, <1>7, <1>8, Zenon

LEMMA HeldEnvironment ==
  ASSUME HeldEnv, TypeOK, UniqueInv, HeldInv, Environment
  PROVE  HeldInv'
<1>p. PortsFixed
  BY Zenon DEF HeldInv
<1>1. ASSUME NEW s \in Service, NEW o, api' = [api EXCEPT ![s] = o],
             o.ingress \subseteq api[s].ingress, o.st = "live" => o.ports \in PortLists[s],
             UNCHANGED <<lister, held, lbCache, w, rules>>
      PROVE  HeldInv'
  <2>1. PortsFixed'
    BY <1>p, <1>1, Zenon DEF PortsFixed, TypeOK
  <2> QED BY <1>1, <2>1, HeldElsewhere, Zenon DEF TypeOK
<1>2. ASSUME NEW s \in Service, CreateService(s) PROVE HeldInv'
  BY <1>1, <1>2, Zenon DEF CreateService
<1>3. ASSUME NEW s \in Service, ChangeService(s) PROVE HeldInv'
  <2>1. PICK ports \in PortLists[s], mode \in Mode :
          api' = [api EXCEPT ![s].ports = ports, ![s].mode = mode]
    BY <1>3, Zenon DEF ChangeService
  <2> DEFINE o == [api[s] EXCEPT !.ports = ports, !.mode = mode]
  <2>2. /\ o.ingress = api[s].ingress /\ o.ports = ports
        /\ api' = [api EXCEPT ![s] = o]
    BY <2>1, Zenon DEF TypeOK, SvcObj
  <2> HIDE DEF o
  <2> QED BY <1>1, <1>3, <2>2, Zenon DEF ChangeService
<1>4. ASSUME NEW s \in Service, DeleteService(s) PROVE HeldInv'
  BY <1>1, <1>4, Zenon DEF DeleteService, Absent
<1>5. ASSUME NEW s \in Service, ChangeEndpoints(s) PROVE HeldInv'
  <2>1. PortsFixed'
    BY <1>p, <1>5, Zenon DEF PortsFixed, ChangeEndpoints
  <2> QED BY <1>5, <2>1, HeldElsewhere, Zenon DEF ChangeEndpoints
<1>6. CASE LateDelete
  <2>1. PortsFixed'
    BY <1>p, <1>6, Zenon DEF PortsFixed, LateDelete
  <2>2. \A c \in Client : rules'[c] \subseteq rules[c]
    BY <1>6 DEF LateDelete, TypeOK
  <2> QED BY <1>6, <2>1, <2>2, HeldElsewhere, Zenon DEF LateDelete
<1>7. ~Restart
  BY DEF Restart, HeldEnv, UniqueEnv, TypeOK
<1> QED BY <1>2, <1>3, <1>4, <1>5, <1>6, <1>7, Zenon DEF Environment

-----------------------------------------------------------------------------
(* The decisions of a sync. *)

(* A set of natural numbers has a least one. *)
LEMMA LeastPort ==
  ASSUME NEW S \in SUBSET Nat, S # {} PROVE \E j \in S : \A k \in S : j <= k
<1>1. PICK j \in S : \A k \in S : <<k, j>> \notin OpToRel(<, Nat)
  BY NatLessThanWellFounded, WFMin, Zenon
<1>2. \A k \in S : ~(k < j)
  BY <1>1, Zenon DEF OpToRel
<1> QED BY <1>2

(* A first attempt: the service gets an address, and a list of all its rules. *)
LEMMA HeldAllocates ==
  ASSUME HeldEnv, TypeOK, UniqueInv, HeldInv, NEW s \in Service, w.pc = "idle",
         lister[s].st = "live", lister[s].ingress = {}, NewPorts(s) # {},
         NEW ip \in PoolIP, held' = held \cup {<<ip, NoIdent>>}, <<ip, NoIdent>> \notin held,
         ApplyPairs(s, PairsCached(s) \cup PairsNew(s, ip, NoIdent), lbCache[s].pairs = {}),
         UNCHANGED <<api, lister, rules>>
  PROVE  HeldInv'
<1> USE DEF HeldInv
<1>i. w.svc = None /\ \A t \in Service : t # None
  BY LoadBalancerAssumption, Zenon DEF TypeOK
<1>p. PortsOf(s) = {lister[s].ports[j] : j \in DOMAIN lister[s].ports}
  BY PortsHere, Zenon DEF HeldEnv, HeldInv
<1>1. lbCache[s].pairs = {} /\ api[s].ingress = {}
  <2>1. ~Covers(lbCache[s].pairs, s)
    BY <1>p, Zenon DEF NewPorts, HasPort, Covers
  <2> QED BY <1>i, <2>1, Zenon DEF Complete
<1>2. PairsCached(s) = {} /\ NewPorts(s) = DOMAIN lister[s].ports
  BY <1>1, Zenon DEF PairsCached, NewPorts, HasPort
<1> DEFINE list == PairsNew(s, ip, NoIdent)
           L == {x.pair : x \in list}
           N(j) == [pair |-> [ip |-> ip, port |-> lister[s].ports[j], inRange |-> TRUE,
                              ident |-> IF j = FirstNew(s) THEN NoIdent
                                                           ELSE IPAMIdent(lister[s].ports[j])],
                    idx |-> j, allocd |-> j = FirstNew(s)]
<1>l. \A j \in NewPorts(s) : N(j) \in list
  BY Zenon DEF PairsNew
<1>n. \A port : IPAMIdent(port) = NoIdent
  BY Zenon DEF IPAMIdent, HeldEnv, UniqueEnv
<1>3. \A p \in L : p.ip = ip /\ p.inRange /\ p.ident = NoIdent /\ p.port \in PortsOf(s)
  BY <1>2, <1>n, <1>p DEF PairsNew
<1>4. Covers(L, s)
  <2> SUFFICES ASSUME NEW port \in PortsOf(s) PROVE \E x \in list : x.pair.port = port
    BY Zenon DEF Covers
  <2>1. PICK j \in NewPorts(s) : port = lister[s].ports[j]
    BY <1>2, <1>p, Zenon
  <2>2. N(j) \in list /\ N(j).pair.port = port
    BY <1>l, <2>1, Zenon
  <2> HIDE DEF N
  <2> QED BY <2>2, Zenon
<1>5. \E x \in list : x.allocd /\ x.pair \in L
  <2>1. FirstNew(s) \in NewPorts(s)
    <3>1. NewPorts(s) \subseteq Nat
      BY PortTypes, Zenon DEF NewPorts
    <3>2. \E j \in NewPorts(s) : \A k \in NewPorts(s) : j <= k
      BY <3>1, LeastPort, Zenon
    <3> QED BY <3>2, Zenon DEF FirstNew
  <2>2. N(FirstNew(s)) \in list /\ N(FirstNew(s)).allocd
    BY <1>l, <2>1, Zenon
  <2> HIDE DEF N
  <2> QED BY <2>2, Zenon
<1>6. \A t \in Service : ip \notin Claims(t)
  BY Zenon DEF UniqueInv, ClaimsHeld
<1>7. \A c \in Client : \A r \in rules[c] : r[1] # ip
  BY <1>6, EntryIPs DEF RulesOwned, RuleOf
<1> HIDE DEF list, N
<1>8. /\ \A t \in Service \ {s} : lbCache'[t] = lbCache[t]
      /\ w'.svc = s /\ w'.list = list /\ w'.todo = list
      /\ w'.then = "install" /\ w'.pc \in {"delete", "install"}
      /\ lbCache'[s].pairs = {}
  <2>1. ApplyPairs(s, list, TRUE)
    BY <1>1, <1>2, Zenon DEF list
  <2> QED BY <1>1, <2>1, ApplyOutcome, Zenon
<1>9. /\ \A t \in Service : ListPairs(t) = {} /\ ListIPs(t) = {}
      /\ \A t \in Service \ {s} : ListPairs(t)' = {} /\ ListIPs(t)' = {}
      /\ ListPairs(s)' = L /\ ListIPs(s)' = {p.ip : p \in L}
  BY <1>i, <1>8, SMTT(30) DEF ListPairs, ListIPs
<1>10. \A t \in Service \ {s} : Entries(t)' = Entries(t) /\ Claims(t)' = Claims(t)
  BY <1>8, <1>9, Zenon DEF Entries, Claims
<1>11. Entries(s)' = L /\ Entries(s) = {} /\ Claims(s)' \subseteq {ip}
  BY <1>1, <1>3, <1>8, <1>9 DEF Entries, Claims
<1> HIDE DEF L
<1>12. OneClaim' /\ EntriesOK'
  BY <1>3, <1>10, <1>11 DEF OneClaim, EntriesOK
<1>13. RulesOwned'
  BY <1>10, <1>11 DEF RulesOwned
<1>14. NoLeak'
  <2> SUFFICES ASSUME NEW h \in held' PROVE \E t \in Service : h \in Tokens(t)'
    BY Zenon DEF NoLeak
  <2>1. \A t \in Service : (Tokens(t) = {Token(p) : p \in Entries(t)})'
    BY Zenon DEF Tokens, Entries, ListPairs
  <2>2. CASE h \in held
    BY <1>10, <1>11, <2>1, <2>2, TokensOfEntries, Zenon DEF NoLeak
  <2>3. CASE h = <<ip, NoIdent>>
    BY <1>3, <1>5, <1>11, <2>1, <2>3, Zenon DEF Token
  <2> QED BY <2>2, <2>3, Zenon
<1>15. Complete'
  <2>1. \A t \in Service \ {s} :
          lbCache[t].pairs # {} \/ api[t].ingress # {} \/ lister[t].ingress # {}
            => Covers(lbCache[t].pairs, t)
    BY <1>i, Zenon DEF Complete
  <2>2. \A t \in Service \ {s} :
          lbCache'[t].pairs # {} \/ api'[t].ingress # {} \/ lister'[t].ingress # {}
            => Covers(lbCache'[t].pairs, t)
    BY <1>8, <2>1, Zenon
  <2>3. Covers(ListPairs(s)', s) /\ \E x \in w'.list : x.allocd
    BY <1>4, <1>5, <1>8, <1>9, Zenon
  <2>4. /\ lbCache'[s].pairs = {} /\ api'[s].ingress = {} /\ lister'[s].ingress = {}
        /\ w'.pc # "status" /\ w'.list \ w'.todo = {}
    BY <1>1, <1>8, Zenon
  <2> QED BY <1>8, <2>2, <2>3, <2>4, CompleteBusy, Zenon
<1>16. FreshClean' /\ PortsFixed'
  BY <1>3, <1>7, <1>8, <1>9 DEF FreshClean, PortsFixed
<1> QED BY <1>12, <1>13, <1>14, <1>15, <1>16, Zenon

(* A sync of a service that has its rules takes them over as they are. *)
LEMMA HeldKeeps ==
  ASSUME TypeOK, HeldInv, NEW s \in Service, NEW list, w.pc = "idle",
         \A x \in list : x.pair \in lbCache[s].pairs,
         Covers({x.pair : x \in list}, s),
         ApplyPairs(s, list, FALSE), UNCHANGED <<api, lister, held, rules>>
  PROVE  HeldInv'
<1> USE DEF HeldInv
<1> DEFINE L == {x.pair : x \in list}
<1>i. w.svc = None /\ \A t \in Service : t # None
  BY LoadBalancerAssumption, Zenon DEF TypeOK
<1>1. CASE UNCHANGED <<w, lbCache>>
  BY <1>1, HeldElsewhere, Zenon DEF PortsFixed
<1>2. CASE ~UNCHANGED <<w, lbCache>>
  <2>1. /\ \A t \in Service \ {s} : lbCache'[t] = lbCache[t]
        /\ w'.svc = s /\ w'.list = list /\ w'.todo = list
        /\ w'.fresh = FALSE /\ w'.then = "install"
        /\ \/ w'.pc = "delete" /\ lbCache'[s].pairs = lbCache[s].pairs
           \/ w'.pc = "install" /\ lbCache'[s].pairs = {}
    BY <1>2, ApplyOutcome, Zenon
  <2>2. /\ \A t \in Service : ListPairs(t) = {} /\ ListIPs(t) = {}
        /\ \A t \in Service \ {s} : ListPairs(t)' = {} /\ ListIPs(t)' = {}
        /\ ListPairs(s)' = L /\ ListIPs(s)' = {p.ip : p \in L}
    BY <1>i, <2>1 DEF ListPairs, ListIPs
  <2>3. L \subseteq lbCache[s].pairs /\ L \subseteq Entries(s)'
    BY <2>2, Zenon DEF Entries
  <2>4. \A t \in Service : Entries(t)' \subseteq Entries(t)
    BY <2>1, <2>2, <2>3, Zenon DEF Entries
  <2>5. \A t \in Service : Claims(t)' \subseteq Claims(t)
    BY <2>1, <2>2, <2>3 DEF Claims
  <2>6. OneClaim' /\ EntriesOK'
    BY <2>4, <2>5, Zenon DEF OneClaim, EntriesOK
  <2>7. ASSUME NEW t \in Service, NEW p \in Entries(t)
        PROVE  \E q \in Entries(t)' : RuleOf(q) = RuleOf(p) /\ Token(q) = Token(p)
    <3>1. CASE t = s
      <4>1. L \in SUBSET Entries(s)
        BY <2>3, Zenon DEF Entries
      <4>2. Covers(L, s)
        BY Zenon
      <4> HIDE DEF L
      <4> QED BY <2>3, <2>7, <3>1, <4>1, <4>2, StandFor
    <3>2. CASE t # s
      BY <2>1, <2>2, <2>7, <3>2, Zenon DEF Entries
    <3> QED BY <3>1, <3>2, Zenon
  <2>8. NoLeak' /\ RulesOwned'
    BY <2>7, OwnersKept, Zenon
  <2>9. Complete'
    <3>1. ASSUME NEW t \in Service \ {s},
                 lbCache[t].pairs # {} \/ api[t].ingress # {} \/ lister[t].ingress # {}
          PROVE  Covers(lbCache[t].pairs, t)
      BY <1>i, <3>1, Zenon DEF Complete
    <3>2. lbCache[s].pairs # {} \/ api[s].ingress # {} \/ lister[s].ingress # {}
            => Covers(lbCache[s].pairs, s)
      BY <1>i, Zenon DEF Complete
    <3>3. Covers(ListPairs(s)', s)
      BY <2>2, Zenon
    <3> QED BY <2>1, <3>1, <3>2, <3>3 DEF Complete, Covers
  <2>10. FreshClean' /\ PortsFixed'
    BY <2>1, Zenon DEF FreshClean, PortsFixed
  <2> QED BY <2>6, <2>8, <2>9, <2>10, Zenon
<1> QED BY <1>1, <1>2, Zenon

(* A service with an address in the lister has all its rules. *)
LEMMA NothingMissing ==
  ASSUME PortsFixed, OneClaim, NEW s \in Service, \A k, l \in PortLists[s] : k = l,
         lister[s].st = "live", lister[s].ingress # {}, Covers(lbCache[s].pairs, s)
  PROVE  /\ Missing(s) = {}
         /\ \A x \in PairsKept(s) : x.pair \in lbCache[s].pairs
         /\ Covers({x.pair : x \in PairsKept(s)}, s)
<1>2. \A p \in lbCache[s].pairs, ip \in lister[s].ingress : p.ip = ip
  BY DEF OneClaim, Claims
<1>p. PortsOf(s) = {lister[s].ports[j] : j \in DOMAIN lister[s].ports}
  BY PortsHere, Zenon
<1>3. Missing(s) = {}
  BY <1>2, <1>p DEF Missing, HasPair, Covers
<1> DEFINE K == (lister[s].ingress \X DOMAIN lister[s].ports) \ Missing(s)
           Q(x) == CHOOSE p \in lbCache[s].pairs : p.ip = x[1] /\ p.port = lister[s].ports[x[2]]
<1>4. ASSUME NEW x \in K
      PROVE  Q(x) \in lbCache[s].pairs /\ Q(x).port = lister[s].ports[x[2]]
  <2>1. \E p \in lbCache[s].pairs : p.ip = x[1] /\ p.port = lister[s].ports[x[2]]
    BY Zenon DEF Missing, HasPair
  <2> QED BY <2>1, Zenon
<1>5. PairsKept(s) = {Old(Q(x), x[2]) : x \in K}
  BY Zenon DEF PairsKept
<1> HIDE DEF Q
<1>6. \A x \in PairsKept(s) : x.pair \in lbCache[s].pairs
  BY <1>4, <1>5 DEF Old
<1>7. ASSUME NEW port \in PortsOf(s) PROVE \E x \in PairsKept(s) : x.pair.port = port
  <2>1. PICK j \in DOMAIN lister[s].ports : port = lister[s].ports[j]
    BY <1>p, Zenon
  <2>2. PICK ip \in lister[s].ingress : TRUE
    BY Zenon
  <2>3. PICK x \in K : x = <<ip, j>>
    BY <1>3, Zenon
  <2>4. Q(x).port = port
    BY <1>4, <2>1, <2>3, Zenon
  <2>5. Old(Q(x), x[2]) \in PairsKept(s)
    BY <1>5, Zenon
  <2> QED BY <2>4, <2>5, Zenon DEF Old
<1> QED BY <1>3, <1>6, <1>7, Zenon DEF Covers

(* So does one whose ports are all cached. *)
LEMMA NothingNew ==
  ASSUME PortsFixed, NEW s \in Service, \A k, l \in PortLists[s] : k = l,
         lister[s].st = "live", NewPorts(s) = {}
  PROVE  /\ \A x \in PairsCached(s) : x.pair \in lbCache[s].pairs
         /\ Covers({x.pair : x \in PairsCached(s)}, s)
<1>p. PortsOf(s) = {lister[s].ports[j] : j \in DOMAIN lister[s].ports}
  BY PortsHere, Zenon
<1>1. ASSUME NEW j \in DOMAIN lister[s].ports
      PROVE  LET q == CHOOSE p \in lbCache[s].pairs : p.port = lister[s].ports[j]
             IN  q \in lbCache[s].pairs /\ q.port = lister[s].ports[j]
  BY Zenon DEF NewPorts, HasPort
<1>2. \A x \in PairsCached(s) : x.pair \in lbCache[s].pairs
  BY <1>1 DEF PairsCached, Old
<1>3. ASSUME NEW port \in PortsOf(s) PROVE \E x \in PairsCached(s) : x.pair.port = port
  <2>1. PICK j \in DOMAIN lister[s].ports : port = lister[s].ports[j]
    BY <1>p, Zenon
  <2>2. Old(CHOOSE p \in lbCache[s].pairs : p.port = lister[s].ports[j], j) \in PairsCached(s)
    BY Zenon DEF PairsCached
  <2> QED BY <1>1, <2>1, <2>2, Zenon DEF Old
<1> QED BY <1>2, <1>3, Zenon DEF Covers

LEMMA HeldSync ==
  ASSUME HeldEnv, TypeOK, UniqueInv, HeldInv, NEW s \in Service,
         EnqueueService(s) \/ Resync(s) \/ Sync(s)
  PROVE  HeldInv'
<1>p. PortsFixed /\ OneClaim /\ \A k, l \in PortLists[s] : k = l
  BY Zenon DEF HeldInv, HeldEnv
<1>k. w.pc = "idle" /\ lister[s].ingress # {} => Covers(lbCache[s].pairs, s)
  BY LoadBalancerAssumption DEF HeldInv, Complete, TypeOK
<1>1. CASE EnqueueService(s)
  <2>1. PortsFixed'
    BY <1>p, <1>1, Zenon DEF PortsFixed, EnqueueService, TypeOK
  <2> QED BY <1>1, <2>1, HeldElsewhere, Zenon DEF EnqueueService, TypeOK
<1>2. CASE UNCHANGED <<api, lister, held, lbCache, w, rules>>
  <2>1. PortsFixed'
    BY <1>p, <1>2, Zenon DEF PortsFixed
  <2> QED BY <1>2, <2>1, HeldElsewhere, Zenon
<1>3. ASSUME w.pc = "idle", UNCHANGED <<api, lister, held, lbCache, rules>>,
             NEW then \in {"release", "drain"}, w' = Deleting(s, then, {}, FALSE)
      PROVE  HeldInv'
  <2>1. /\ w'.svc = s /\ w'.list = {} /\ w'.pc = "delete" /\ w'.fresh = FALSE
        /\ w'.then = then
    BY <1>3, Zenon DEF Deleting
  <2>2. w.svc = None /\ \A t \in Service : t # None
    BY <1>3, LoadBalancerAssumption, Zenon DEF TypeOK
  <2>3. \A t \in Service : /\ ListPairs(t)' = {} /\ ListPairs(t) = {}
                           /\ ListIPs(t)' = {} /\ ListIPs(t) = {}
    BY <2>1, <2>2, Zenon DEF ListPairs, ListIPs
  <2>4. \A t \in Service : Entries(t)' = Entries(t) /\ Claims(t)' = Claims(t)
    BY <1>3, <2>3, Zenon DEF Entries, Claims
  <2>5. NoLeak' /\ RulesOwned'
    BY <1>3, <2>4, OwnersKept, Zenon DEF HeldInv
  <2>6. OneClaim' /\ EntriesOK'
    BY <2>4, Zenon DEF HeldInv, OneClaim, EntriesOK
  <2>7. Complete'
    BY <1>3, <2>1, <2>2, Zenon DEF HeldInv, Complete, Covers
  <2>8. FreshClean' /\ PortsFixed'
    BY <1>3, <1>p, <2>1, Zenon DEF FreshClean, PortsFixed
  <2> QED BY <2>5, <2>6, <2>7, <2>8, Zenon DEF HeldInv
<1>4. CASE SyncDeleted(s)
  <2>1. CASE lbCache[s].added
    BY <1>3, <1>4, <2>1, Zenon DEF SyncDeleted, Take
  <2>2. CASE ~lbCache[s].added
    BY <1>2, <1>4, <2>2, Zenon DEF SyncDeleted
  <2> QED BY <2>1, <2>2, Zenon
<1>5. CASE SyncNoEndpoints(s)
  <2>1. CASE lbCache[s].added
    BY <1>3, <1>5, <2>1, Zenon DEF SyncNoEndpoints, Take
  <2>2. CASE ~lbCache[s].added
    BY <1>2, <1>5, <2>2, Zenon DEF SyncNoEndpoints
  <2> QED BY <2>1, <2>2, Zenon
<1>6. SyncService(s) => /\ w.pc = "idle" /\ lister[s].st = "live"
                        /\ UNCHANGED <<api, lister, rules>>
  BY Zenon DEF SyncService, Take
<1>7. CASE SyncIngress(s)
  <2>1. PairsMissing(s, {}, NoIdent) = {}
    BY <1>6, <1>7, <1>k, <1>p, NothingMissing, Zenon DEF SyncIngress, PairsMissing
  <2>2. ApplyPairs(s, PairsKept(s), FALSE)
    <3>1. PairsKept(s) \cup PairsMissing(s, {}, NoIdent) = PairsKept(s)
      BY <2>1, Zenon
    <3> QED BY <1>7, <3>1, Zenon DEF SyncIngress
  <2> QED BY <1>6, <1>7, <1>k, <1>p, <2>2, NothingMissing, HeldKeeps, Zenon DEF SyncIngress
<1>8. ~SyncReserve(s)
  <2> SUFFICES ASSUME SyncReserve(s) PROVE FALSE
    BY Zenon
  <2>1. PICK x : x \in Missing(s)
    BY Zenon DEF SyncReserve, FirstMissing
  <2>2. lister[s].ingress # {}
    BY <2>1, Zenon DEF Missing
  <2> QED BY <1>6, <1>k, <1>p, <2>1, <2>2, NothingMissing, Zenon DEF SyncReserve
<1>9. CASE SyncCached(s)
  BY <1>6, <1>9, <1>p, NothingNew, HeldKeeps, Zenon DEF SyncCached
<1>10. CASE SyncAllocate(s)
  <2>1. PICK ip \in PoolIP, ident \in Ident :
          /\ GetNewIPAddr(lister[s].ports[FirstNew(s)], ip, ident)
          /\ ApplyPairs(s, PairsCached(s) \cup PairsNew(s, ip, ident),
                        lbCache[s].pairs = {})
    BY <1>10, Zenon DEF SyncAllocate
  <2>2. /\ ident = NoIdent /\ held' = held \cup {<<ip, NoIdent>>}
        /\ <<ip, NoIdent>> \notin held
    BY <2>1, Zenon DEF HeldEnv, UniqueEnv, GetNewIPAddr, NewIdent, IPAMIdent, Free, Ident
  <2> QED BY <1>6, <1>10, <2>1, <2>2, HeldAllocates, Zenon DEF SyncAllocate
<1>11. CASE Resync(s) \/ SyncExit(s)
  BY <1>2, <1>11, Zenon DEF Resync, SyncExit
<1> QED BY <1>1, <1>4, <1>5, <1>7, <1>8, <1>9, <1>10, <1>11, Zenon DEF Sync

LEMMA HeldInvariant ==
  ASSUME HeldEnv
  PROVE  Spec => [](UniqueInv /\ HeldInv)
<1>1. Init => HeldInv
  <2> SUFFICES ASSUME Init PROVE HeldInv
    BY Zenon
  <2>1. \A s \in Service : Claims(s) = {} /\ Entries(s) = {} /\ w.svc # s
    BY LoadBalancerAssumption, Zenon
    DEF Init, Claims, ListIPs, Entries, ListPairs, Absent, NotCached, Idle
  <2>2. PortsFixed /\ NoLeak /\ RulesOwned
    BY Zenon DEF Init, PortsFixed, NoLeak, RulesOwned, Absent
  <2>3. Complete /\ FreshClean
    BY <2>1, Zenon DEF Init, Complete, FreshClean, Absent, NotCached, Idle
  <2> QED BY <2>1, <2>2, <2>3, Zenon DEF HeldInv, OneClaim, EntriesOK
<1>2. TypeOK /\ UniqueInv /\ HeldInv /\ [Next]_vars => HeldInv'
  <2>1. CASE UNCHANGED vars
    BY <2>1, HeldElsewhere, Zenon DEF vars, HeldInv, PortsFixed
  <2> QED BY <2>1, HeldEnvironment, HeldSync, HeldWork, Zenon DEF Next
<1>3. UniqueEnv
  BY Zenon DEF HeldEnv
<1> QED BY <1>1, <1>2, <1>3, TypeCorrect, ClaimsAreExclusive, PTL DEF Spec

(* No address leaks: whatever the pool holds, deleteLoadBalancer or the       *)
(* deferred function of the sync under way will hand back.                   *)
THEOREM NothingLeaks ==
  ASSUME HeldEnv
  PROVE  Spec => []NoLeak
<1>1. HeldInv => NoLeak
  BY Zenon DEF HeldInv
<1> QED BY <1>1, HeldInvariant, PTL

(* An address is handed back only when no instance has a rule for it.         *)
THEOREM RulesAreHeld ==
  ASSUME HeldEnv
  PROVE  Spec => []RuleHeld
<1>1. UniqueInv /\ HeldInv => RuleHeld
  <2> SUFFICES ASSUME UniqueInv, HeldInv, NEW c \in Client, NEW r \in rules[c]
               PROVE  <<r[1], IPAMIdent(r[2])>> \in held
    BY Zenon DEF RuleHeld
  <2>1. PICK s \in Service : \E p \in Entries(s) : r = RuleOf(p)
    BY Zenon DEF HeldInv, RulesOwned
  <2>2. r[1] \in Claims(s)
    BY <2>1, EntryIPs DEF RuleOf
  <2>3. IPAMIdent(r[2]) = NoIdent
    BY Zenon DEF HeldEnv, UniqueEnv, IPAMIdent
  <2> QED BY <2>2, <2>3, Zenon DEF UniqueInv, ClaimsHeld
<1> QED BY <1>1, HeldInvariant, PTL

-----------------------------------------------------------------------------
(* A shared pool, without restarts, for services of one port each.  (The pool  *)
(* is asked for the first port of a service only: the others take the address  *)
(* for granted, getIngressSvcPairs.)                                           *)
SharedEnv ==
  /\ AddressEnv /\ Shared /\ MaxRestarts = 0
  /\ \A s \in Service : \A l \in PortLists[s] : Len(l) = 1

(* What a service claims is held for its port ... *)
Reserved ==
  \A s \in Service : \A ip \in Claims(s), port \in PortsOf(s) : <<ip, port>> \in held

(* ... and claimed by no other service with that port. *)
PortsApart ==
  \A s, t \in Service : s # t /\ PortsOf(s) \cap PortsOf(t) # {} => Claims(s) \cap Claims(t) = {}

(* Rules are for the service's port, and so is what they give back. *)
Keyed == \A s \in Service : \A p \in Entries(s) : p.port \in PortsOf(s) /\ p.ident = p.port

(* Nothing is reserved again: a service whose address is in the lister has its *)
(* rules in the cache, and a first attempt is made for one that has none.      *)
CachedIfListed ==
  \A s \in Service :
    /\ (w.svc # s \/ w.pc = "delete") /\ lister[s].ingress # {} => Covers(lbCache[s].pairs, s)
    /\ w.svc = s /\ w.fresh /\ w.pc \in {"delete", "install"} => lister[s].ingress = {}

SharedInv == Reserved /\ PortsApart /\ Keyed /\ CachedIfListed

(* A step that adds no claim and gives back nothing ... *)
LEMMA SharedKept ==
  ASSUME SharedInv, held' = held,
         \A t \in Service : Claims(t)' \subseteq Claims(t) /\ Entries(t)' \subseteq Entries(t)
  PROVE  Reserved' /\ PortsApart' /\ Keyed'
<1>1. Reserved'
  BY Zenon DEF SharedInv, Reserved, PortsOf
<1>2. PortsApart'
  BY Zenon DEF SharedInv, PortsApart, PortsOf
<1>3. Keyed'
  BY Zenon DEF SharedInv, Keyed, PortsOf
<1> QED BY <1>1, <1>2, <1>3, Zenon

(* ... or only what a service had that now claims nothing. *)
LEMMA SharedReturned ==
  ASSUME SharedInv, NEW s \in Service, NEW S,
         \A h \in S : \E p \in Entries(s) : h = Token(p),
         held' = AfterReturn(S), Claims(s)' = {},
         \A t \in Service : Claims(t)' \subseteq Claims(t) /\ Entries(t)' \subseteq Entries(t)
  PROVE  Reserved' /\ PortsApart' /\ Keyed'
<1>1. ASSUME NEW t \in Service, NEW ip \in Claims(t)', NEW port \in PortsOf(t)
      PROVE  <<ip, port>> \in held'
  <2>1. t # s /\ ip \in Claims(t) /\ <<ip, port>> \in held
    BY <1>1, Zenon DEF SharedInv, Reserved
  <2>2. <<ip, port>> \notin S
    <3> SUFFICES ASSUME <<ip, port>> \in S PROVE FALSE
      BY Zenon
    <3>1. PICK p \in Entries(s) : <<ip, port>> = Token(p)
      BY Zenon
    <3>2. p.ip = ip /\ p.ident = port
      BY <3>1, Zenon DEF Token
    <3>3. ip \in Claims(s) /\ port \in PortsOf(s)
      BY <3>2, EntryIPs, Zenon DEF SharedInv, Keyed
    <3>4. port \in PortsOf(s) \cap PortsOf(t) /\ ip \in Claims(s) \cap Claims(t)
      BY <2>1, <3>3, Zenon
    <3> QED BY <2>1, <3>4, Zenon DEF SharedInv, PortsApart
  <2> QED BY <2>1, <2>2, Zenon DEF AfterReturn
<1>2. Reserved'
  BY <1>1, Zenon DEF Reserved, PortsOf
<1>3. PortsApart' /\ Keyed'
  <2>1. PortsApart'
    BY Zenon DEF SharedInv, PortsApart, PortsOf
  <2>2. Keyed'
    BY Zenon DEF SharedInv, Keyed, PortsOf
  <2> QED BY <2>1, <2>2, Zenon
<1> QED BY <1>2, <1>3, Zenon

(* A step of the users or the informer. *)
LEMMA SharedElsewhere ==
  ASSUME AddressInv, SharedInv, UNCHANGED <<held, lbCache, w>>,
         \A s \in Service :
           \/ api'[s].ingress \subseteq api[s].ingress /\ lister'[s].ingress = lister[s].ingress
           \/ api'[s].ingress = api[s].ingress /\ lister'[s].ingress = api[s].ingress
  PROVE  SharedInv'
<1>1. \A s \in Service : ListPairs(s)' = ListPairs(s) /\ ListIPs(s)' = ListIPs(s)
  BY Zenon DEF ListPairs, ListIPs
<1>2. \A s \in Service : Claims(s)' \subseteq Claims(s) /\ Entries(s)' \subseteq Entries(s)
  BY <1>1, Zenon DEF Claims, Entries
<1>3. ASSUME NEW s \in Service
      PROVE  /\ (w.svc # s \/ w.pc = "delete") /\ lister'[s].ingress # {} => Covers(lbCache[s].pairs, s)
             /\ w.svc = s /\ w.fresh /\ w.pc \in {"delete", "install"} => lister'[s].ingress = {}
  BY Zenon DEF AddressInv, Provided, SharedInv, CachedIfListed
<1>4. CachedIfListed'
  BY <1>3, Zenon DEF CachedIfListed, Covers, PortsOf
<1> QED BY <1>2, <1>4, SharedKept, Zenon DEF SharedInv

LEMMA SharedEnvironment ==
  ASSUME SharedEnv, TypeOK, AddressInv, SharedInv, Environment
  PROVE  SharedInv'
<1>1. ASSUME NEW s \in Service, NEW o, api' = [api EXCEPT ![s] = o],
             o.ingress \subseteq api[s].ingress, UNCHANGED <<lister, held, lbCache, w>>
      PROVE  SharedInv'
  <2>1. \A t \in Service : api'[t] = IF t = s THEN o ELSE api[t]
    BY <1>1, Zenon DEF TypeOK
  <2>2. \A t \in Service : api'[t].ingress \subseteq api[t].ingress
    BY <1>1, <2>1, Zenon
  <2> QED BY <1>1, <2>2, SharedElsewhere, Zenon
<1>2. ASSUME NEW s \in Service, CreateService(s)
      PROVE  SharedInv'
  <2>1. PICK ports \in PortLists[s], mode \in Mode :
          api' = [api EXCEPT ![s] = [st |-> "live", ports |-> ports,
                                     mode |-> mode, ingress |-> {}]]
    BY <1>2, Zenon DEF CreateService
  <2> DEFINE o == [st |-> "live", ports |-> ports, mode |-> mode, ingress |-> {}]
  <2>2. o.ingress = {} /\ api' = [api EXCEPT ![s] = o]
    BY <2>1, Zenon
  <2> HIDE DEF o
  <2> QED BY <1>1, <1>2, <2>2, Zenon DEF CreateService
<1>3. ASSUME NEW s \in Service, ChangeService(s)
      PROVE  SharedInv'
  <2>1. PICK ports \in PortLists[s], mode \in Mode :
          api' = [api EXCEPT ![s].ports = ports, ![s].mode = mode]
    BY <1>3, Zenon DEF ChangeService
  <2> DEFINE o == [api[s] EXCEPT !.ports = ports, !.mode = mode]
  <2>2. o.ingress = api[s].ingress /\ api' = [api EXCEPT ![s] = o]
    <3>1. api[s] \in SvcObj
      BY <1>3, Zenon DEF TypeOK
    <3> QED BY <2>1, <3>1, Zenon DEF SvcObj, TypeOK
  <2> HIDE DEF o
  <2> QED BY <1>1, <1>3, <2>2, Zenon DEF ChangeService
<1>4. ASSUME NEW s \in Service, DeleteService(s)
      PROVE  SharedInv'
  <2>1. Absent("gone").ingress = {}
    BY Zenon DEF Absent
  <2> QED BY <1>1, <1>4, <2>1, Zenon DEF DeleteService
<1>5. ASSUME UNCHANGED <<api, lister, held, lbCache, w>>
      PROVE  SharedInv'
  BY <1>5, SharedElsewhere, Zenon
<1>6. ~Restart
  BY DEF Restart, SharedEnv, TypeOK
<1>7. ASSUME NEW s \in Service, ChangeEndpoints(s)
      PROVE  SharedInv'
  BY <1>5, <1>7, Zenon DEF ChangeEndpoints
<1>8. CASE LateDelete
  BY <1>5, <1>8, Zenon DEF LateDelete
<1> QED BY <1>2, <1>3, <1>4, <1>6, <1>7, <1>8, Zenon DEF Environment

(* A sync of a service that has its rules takes them over. *)
LEMMA SharedKeeps ==
  ASSUME TypeOK, SharedInv, NEW s \in Service, NEW list, w.pc = "idle",
         \A x \in list : x.pair \in lbCache[s].pairs,
         ApplyPairs(s, list, FALSE), UNCHANGED <<api, lister, held>>
  PROVE  SharedInv'
<1>i. w.svc = None /\ \A t \in Service : t # None
  BY LoadBalancerAssumption, Zenon DEF TypeOK
<1>1. CASE UNCHANGED <<w, lbCache>>
  <2>1. \A t \in Service : ListPairs(t)' = ListPairs(t) /\ ListIPs(t)' = ListIPs(t)
    BY <1>1, Zenon DEF ListPairs, ListIPs
  <2>2. \A t \in Service : Claims(t)' \subseteq Claims(t) /\ Entries(t)' \subseteq Entries(t)
    BY <1>1, <2>1, Zenon DEF Claims, Entries
  <2>3. CachedIfListed'
    BY <1>1, Zenon DEF SharedInv, CachedIfListed, Covers, PortsOf
  <2> QED BY <2>2, <2>3, SharedKept, Zenon DEF SharedInv
<1>2. CASE ~UNCHANGED <<w, lbCache>>
  <2>1. /\ \A t \in Service \ {s} : lbCache'[t] = lbCache[t]
        /\ w'.svc = s /\ w'.list = list /\ w'.fresh = FALSE
        /\ \/ w'.pc = "delete" /\ lbCache'[s].pairs = lbCache[s].pairs
           \/ w'.pc = "install" /\ lbCache'[s].pairs = {}
    BY <1>2, ApplyOutcome, Zenon
  <2>2. /\ \A t \in Service \ {s} : ListPairs(t)' = {} /\ ListIPs(t)' = {}
        /\ ListPairs(s)' \subseteq lbCache[s].pairs
        /\ ListIPs(s)' \subseteq {p.ip : p \in lbCache[s].pairs}
    BY <2>1, Zenon DEF ListPairs, ListIPs
  <2>3. \A t \in Service : lbCache'[t].pairs \subseteq lbCache[t].pairs
    BY <2>1, Zenon
  <2>4. \A t \in Service : Claims(t)' \subseteq Claims(t) /\ Entries(t)' \subseteq Entries(t)
    BY <2>2, <2>3, Zenon DEF Claims, Entries
  <2>5. \A t \in Service : lister[t].ingress # {} => Covers(lbCache[t].pairs, t)
    BY <1>i, Zenon DEF SharedInv, CachedIfListed
  <2>6. \A t \in Service : /\ w'.svc # t \/ w'.pc = "delete" => lbCache'[t].pairs = lbCache[t].pairs
                           /\ w'.svc = t => ~w'.fresh
    BY <2>1
  <2>7. \A t \in Service : (w'.svc # t \/ w'.pc = "delete") /\ lister'[t].ingress # {}
                            => Covers(lbCache'[t].pairs, t)
    BY <2>5, <2>6, Zenon
  <2>8. CachedIfListed'
    BY <2>6, <2>7, Zenon DEF CachedIfListed, Covers, PortsOf
  <2> QED BY <2>4, <2>8, SharedKept, Zenon DEF SharedInv
<1> QED BY <1>1, <1>2, Zenon

(* The one port of a service. *)
LEMMA OnePort ==
  ASSUME SharedEnv, TypeOK, PortsFixed, NEW s \in Service, lister[s].st = "live", NewPorts(s) # {}
  PROVE  /\ PortsOf(s) = {lister[s].ports[FirstNew(s)]}
         /\ lister[s].ports[FirstNew(s)] \in Port
         /\ \A j \in NewPorts(s) : j = FirstNew(s)
<1>1. lister[s].ports \in Seq(Port) /\ Len(lister[s].ports) = 1
  BY Zenon DEF TypeOK, SvcObj, PortsFixed, SharedEnv
<1>2. DOMAIN lister[s].ports = {1}
  BY <1>1
<1>3. NewPorts(s) = {1}
  BY <1>2, Zenon DEF NewPorts
<1>4. FirstNew(s) = 1
  BY <1>3 DEF FirstNew
<1>5. PortsOf(s) = {lister[s].ports[j] : j \in DOMAIN lister[s].ports}
  BY PortsHere, Zenon DEF SharedEnv, AddressEnv
<1>6. lister[s].ports[1] \in Port
  BY <1>2, PortTypes, Zenon
<1> QED BY <1>2, <1>3, <1>4, <1>5, <1>6, Zenon

(* A shared pool hands an address out under the port it is asked for: the     *)
(* second attempt of GetNewIPAddr, without one, finds no address either.      *)
LEMMA TakenForPort ==
  ASSUME Shared, NEW port \in Port, NEW ip \in PoolIP, NEW ident, GetNewIPAddr(port, ip, ident)
  PROVE  ident = port /\ <<ip, port>> \notin held /\ held' = held \cup {<<ip, port>>}
<1>1. port # NoIdent /\ port \in Ident /\ IPAMIdent(port) = port
  BY IPPoolAssumption, Zenon DEF Ident, IPAMIdent
<1>2. /\ Free(ip, ident) /\ held' = held \cup {<<ip, ident>>}
      /\ ident = IF Exhausted(port) THEN NoIdent ELSE port
  BY <1>1, Zenon DEF GetNewIPAddr, NewIdent
<1>3. ~Exhausted(port)
  <2> SUFFICES ASSUME Exhausted(port) PROVE FALSE
    BY Zenon
  <2>1. ident = NoIdent /\ ~Free(ip, port)
    BY <1>2, Zenon DEF Exhausted
  <2>2. \A i \in Ident : <<ip, i>> \notin held
    BY <1>2, <2>1, Zenon DEF Free
  <2> QED BY <1>1, <2>1, <2>2, Zenon DEF Free, Ident
<1> QED BY <1>1, <1>2, <1>3, Zenon DEF Free

(* A first attempt takes an address under the service's port. *)
LEMMA SharedAllocates ==
  ASSUME SharedEnv, TypeOK, AddressInv, SharedInv, NEW s \in Service, w.pc = "idle",
         lister[s].st = "live", lister[s].ingress = {}, NewPorts(s) # {},
         NEW ip \in PoolIP, NEW ident, GetNewIPAddr(lister[s].ports[FirstNew(s)], ip, ident),
         ApplyPairs(s, PairsCached(s) \cup PairsNew(s, ip, ident), lbCache[s].pairs = {}),
         UNCHANGED <<api, lister>>
  PROVE  SharedInv'
<1> DEFINE port == lister[s].ports[FirstNew(s)]
           list == PairsNew(s, ip, ident)
<1>p. PortsFixed /\ Provided /\ \A k, l \in PortLists[s] : k = l
  BY Zenon DEF AddressInv, SharedEnv, AddressEnv
<1>i. w.svc = None /\ \A t \in Service : t # None
  BY LoadBalancerAssumption, Zenon DEF TypeOK
<1>1. /\ PortsOf(s) = {port} /\ port \in Port
      /\ \A j \in NewPorts(s) : lister[s].ports[j] = port
  BY <1>p, OnePort, Zenon
<1>2. ident = port /\ <<ip, port>> \notin held /\ held' = held \cup {<<ip, port>>}
  BY <1>1, TakenForPort, Zenon DEF SharedEnv
<1>3. lbCache[s].pairs = {} /\ api[s].ingress = {}
  <2>1. PortsOf(s) = {lister[s].ports[j] : j \in DOMAIN lister[s].ports}
    BY <1>p, PortsHere, Zenon
  <2>2. ~Covers(lbCache[s].pairs, s)
    BY <2>1, Zenon DEF NewPorts, HasPort, Covers
  <2> QED BY <1>i, <1>p, <2>2, Zenon DEF Provided
<1>4. \A q : IPAMIdent(q) = q
  BY Zenon DEF IPAMIdent, SharedEnv
<1>5. \A x \in list : x.pair.ip = ip /\ x.pair.port = port /\ x.pair.ident = port
  BY <1>1, <1>2, <1>4 DEF PairsNew
<1>6. /\ \A t \in Service \ {s} : lbCache'[t] = lbCache[t]
      /\ lbCache'[s].pairs = {} /\ w'.svc = s /\ w'.list = list
  <2>1. PairsCached(s) = {}
    BY <1>3, Zenon DEF PairsCached, NewPorts, HasPort
  <2>2. ApplyPairs(s, list, TRUE)
    BY <1>3, <2>1, Zenon
  <2> QED BY <1>3, <2>2, ApplyOutcome, Zenon
<1>7. \A t \in Service : port \in PortsOf(t) => ip \notin Claims(t)
  BY <1>2, Zenon DEF SharedInv, Reserved
<1> HIDE DEF list, port
<1>8. /\ \A t \in Service \ {s} : ListPairs(t)' = {} /\ ListIPs(t)' = {}
      /\ \A p \in ListPairs(s)' : p.ip = ip /\ p.port = port /\ p.ident = port
      /\ ListIPs(s)' \subseteq {ip}
  BY <1>5, <1>6, Zenon DEF ListPairs, ListIPs
<1>9. /\ \A t \in Service \ {s} : Claims(t)' \subseteq Claims(t) /\ Entries(t)' \subseteq Entries(t)
      /\ Claims(s)' \subseteq {ip}
      /\ \A p \in Entries(s)' : p.port = port /\ p.ident = port
  BY <1>3, <1>6, <1>8, Zenon DEF Claims, Entries
<1>10. Reserved'
  BY <1>1, <1>2, <1>9, Zenon DEF SharedInv, Reserved, PortsOf
<1>11. PortsApart'
  <2> SUFFICES ASSUME NEW t \in Service, NEW u \in Service, t # u,
                      PortsOf(t) \cap PortsOf(u) # {}, NEW a, a \in Claims(t)', a \in Claims(u)'
               PROVE  FALSE
    BY Zenon DEF PortsApart, PortsOf
  <2>1. CASE t # s /\ u # s
    BY <1>9, <2>1, Zenon DEF SharedInv, PortsApart
  <2>2. CASE t = s \/ u = s
    BY <1>1, <1>7, <1>9, <2>2, Zenon
  <2> QED BY <2>1, <2>2, Zenon
<1>12. Keyed'
  BY <1>1, <1>9, Zenon DEF SharedInv, Keyed, PortsOf
<1>13. CachedIfListed'
  <2>1. \A t \in Service : lister[t].ingress # {} => Covers(lbCache[t].pairs, t)
    BY <1>i, Zenon DEF SharedInv, CachedIfListed
  <2>2. \A t \in Service : lister'[t].ingress # {} => Covers(lbCache'[t].pairs, t)
    BY <1>6, <2>1, Zenon
  <2> QED BY <1>6, <2>2, Zenon DEF CachedIfListed, Covers, PortsOf
<1> QED BY <1>10, <1>11, <1>12, <1>13, Zenon DEF SharedInv

LEMMA SharedSync ==
  ASSUME SharedEnv, TypeOK, AddressInv, SharedInv, NEW s \in Service,
         EnqueueService(s) \/ Resync(s) \/ Sync(s)
  PROVE  SharedInv'
<1>p. PortsFixed /\ OneClaim /\ \A k, l \in PortLists[s] : k = l
  BY Zenon DEF AddressInv, SharedEnv, AddressEnv
<1>k. w.pc = "idle" => \A t \in Service : lister[t].ingress # {} => Covers(lbCache[t].pairs, t)
  <2>1. (w.pc = "idle" => w.svc = None) /\ \A t \in Service : t # None
    BY LoadBalancerAssumption, Zenon DEF TypeOK
  <2> QED BY <2>1, Zenon DEF SharedInv, CachedIfListed
<1>1. CASE EnqueueService(s)
  <2>1. lister' = [lister EXCEPT ![s] = api[s]] /\ UNCHANGED <<api, held, lbCache, w>>
    BY <1>1, Zenon DEF EnqueueService
  <2>2. \A t \in Service : lister'[t] = IF t = s THEN api[s] ELSE lister[t]
    BY <2>1, Zenon DEF TypeOK
  <2> QED BY <2>1, <2>2, SharedElsewhere
<1>2. CASE UNCHANGED <<api, lister, held, lbCache, w>>
  BY <1>2, SharedElsewhere, Zenon
<1>3. ASSUME w.pc = "idle", UNCHANGED <<api, lister, held, lbCache>>,
             NEW then \in {"release", "drain"}, w' = Deleting(s, then, {}, FALSE)
      PROVE  SharedInv'
  <2>1. w'.svc = s /\ w'.list = {} /\ w'.pc = "delete" /\ w'.fresh = FALSE
    BY <1>3, Zenon DEF Deleting
  <2>2. \A t \in Service : ListPairs(t)' = {} /\ ListIPs(t)' = {}
    BY <2>1, Zenon DEF ListPairs, ListIPs
  <2>3. \A t \in Service : Claims(t)' \subseteq Claims(t) /\ Entries(t)' \subseteq Entries(t)
    BY <1>3, <2>2, Zenon DEF Entries, Claims
  <2>4. \A t \in Service : lister[t].ingress # {} => Covers(lbCache[t].pairs, t)
    BY <1>3, <1>k, Zenon
  <2>5. CachedIfListed'
    BY <1>3, <2>1, <2>4, Zenon DEF CachedIfListed, Covers, PortsOf
  <2> QED BY <1>3, <2>3, <2>5, SharedKept, Zenon DEF SharedInv
<1>4. CASE SyncDeleted(s)
  <2>1. CASE lbCache[s].added
    BY <1>3, <1>4, <2>1, Zenon DEF SyncDeleted, Take
  <2>2. CASE ~lbCache[s].added
    BY <1>2, <1>4, <2>2, Zenon DEF SyncDeleted
  <2> QED BY <2>1, <2>2, Zenon
<1>5. CASE SyncNoEndpoints(s)
  <2>1. CASE lbCache[s].added
    BY <1>3, <1>5, <2>1, Zenon DEF SyncNoEndpoints, Take
  <2>2. CASE ~lbCache[s].added
    BY <1>2, <1>5, <2>2, Zenon DEF SyncNoEndpoints
  <2> QED BY <2>1, <2>2, Zenon
<1>6. SyncService(s) => w.pc = "idle" /\ lister[s].st = "live" /\ UNCHANGED <<api, lister>>
  BY Zenon DEF SyncService, Take
<1>7. CASE SyncIngress(s)
  <2>1. PairsMissing(s, {}, NoIdent) = {}
    BY <1>6, <1>7, <1>k, <1>p, NothingMissing, Zenon DEF SyncIngress, PairsMissing
  <2>2. ApplyPairs(s, PairsKept(s), FALSE)
    <3>1. PairsKept(s) \cup PairsMissing(s, {}, NoIdent) = PairsKept(s)
      BY <2>1, Zenon
    <3> QED BY <1>7, <3>1, Zenon DEF SyncIngress
  <2> QED BY <1>6, <1>7, <1>k, <1>p, <2>2, NothingMissing, SharedKeeps, Zenon DEF SyncIngress
<1>8. ~SyncReserve(s)
  <2> SUFFICES ASSUME SyncReserve(s) PROVE FALSE
    BY Zenon
  <2>1. PICK x : x \in Missing(s)
    BY Zenon DEF SyncReserve, FirstMissing
  <2>2. lister[s].ingress # {}
    BY <2>1, Zenon DEF Missing
  <2> QED BY <1>6, <1>k, <1>p, <2>1, <2>2, NothingMissing, Zenon DEF SyncReserve
<1>9. CASE SyncCached(s)
  BY <1>6, <1>9, <1>p, NothingNew, SharedKeeps, Zenon DEF SyncCached
<1>10. CASE SyncAllocate(s)
  <2>1. PICK ip \in PoolIP, ident \in Ident :
          /\ GetNewIPAddr(lister[s].ports[FirstNew(s)], ip, ident)
          /\ ApplyPairs(s, PairsCached(s) \cup PairsNew(s, ip, ident),
                        lbCache[s].pairs = {})
    BY <1>10, Zenon DEF SyncAllocate
  <2> QED BY <1>6, <1>10, <2>1, SharedAllocates, Zenon DEF SyncAllocate
<1>11. CASE Resync(s) \/ SyncExit(s)
  BY <1>2, <1>11, Zenon DEF Resync, SyncExit
<1> QED BY <1>1, <1>4, <1>5, <1>7, <1>8, <1>9, <1>10, <1>11, Zenon DEF Sync

(* The end of a sync that leaves its service with its rules or without addresses. *)
LEMMA SharedIdle ==
  ASSUME SharedInv, NEW s \in Service, s = w.svc, w' = Idle, lister' = lister,
         \A t \in Service \ {s} : lbCache'[t].pairs = lbCache[t].pairs,
         lister[s].ingress # {} => Covers(lbCache'[s].pairs, s)
  PROVE  CachedIfListed'
<1>1. w'.svc = None /\ w'.pc = "idle" /\ \A t \in Service : t # None
  BY LoadBalancerAssumption, Zenon DEF Idle
<1>2. \A t \in Service : lister'[t].ingress # {} => Covers(lbCache'[t].pairs, t)
  BY Zenon DEF SharedInv, CachedIfListed
<1> QED BY <1>1, <1>2, Zenon DEF CachedIfListed, Covers, PortsOf

LEMMA SharedDeleted ==
  ASSUME TypeOK, AddressInv, SharedInv, w.pc = "delete", Deleted(w.svc), UNCHANGED <<api, lister>>
  PROVE  SharedInv'
<1>s. PICK s \in Service : s = w.svc
  BY Zenon DEF TypeOK, Worker
<1>0. lbCache[s] \in LbCacheEntry /\ (lister[s].ingress # {} => Covers(lbCache[s].pairs, s))
  BY Zenon DEF TypeOK, SharedInv, CachedIfListed
<1>d. ASSUME w' = Idle PROVE \A t \in Service : ListPairs(t)' = {} /\ ListIPs(t)' = {}
  <2>1. w'.list = {}
    BY <1>d, Zenon DEF Idle
  <2> QED BY <2>1, Zenon DEF ListPairs, ListIPs
<1>1. CASE w.then = "release"
  <2> DEFINE T == {Token(p) : p \in {q \in lbCache[s].pairs : q.inRange}}
  <2>1. held' = AfterReturn(T) /\ lbCache' = [lbCache EXCEPT ![s] = NotCached] /\ w' = Idle
    BY <1>s, <1>1, Zenon DEF Deleted
  <2>2. lister[s].ingress = {} /\ api[s].ingress = {}
    BY <1>s, <1>1, Zenon DEF AddressInv, Provided, LifeCycle
  <2>3. /\ lbCache'[s].pairs = {}
        /\ \A t \in Service \ {s} : lbCache'[t].pairs = lbCache[t].pairs
    BY <2>1, Zenon DEF TypeOK, NotCached
  <2>4. \A h \in T : \E p \in Entries(s) : h = Token(p)
    BY Zenon DEF Entries
  <2> HIDE DEF T
  <2>5. /\ Claims(s)' = {}
        /\ \A t \in Service : Claims(t)' \subseteq Claims(t) /\ Entries(t)' \subseteq Entries(t)
    BY <1>d, <2>1, <2>2, <2>3, Zenon DEF Claims, Entries
  <2>6. Reserved' /\ PortsApart' /\ Keyed'
    BY <2>1, <2>4, <2>5, SharedReturned, Zenon
  <2>7. CachedIfListed'
    BY <1>s, <2>1, <2>2, <2>3, SharedIdle, Zenon
  <2> QED BY <2>6, <2>7, Zenon DEF SharedInv
<1>2. CASE w.then = "drain"
  <2>1. /\ lbCache' = [lbCache EXCEPT ![s] = [lbCache[s] EXCEPT !.eps = None]]
        /\ w' = Idle /\ held' = held
    BY <1>s, <1>2, Zenon DEF Deleted
  <2>2. \A t \in Service : lbCache'[t].pairs = lbCache[t].pairs
    BY <1>0, <2>1, Zenon DEF TypeOK, LbCacheEntry
  <2>3. \A t \in Service : Claims(t)' \subseteq Claims(t) /\ Entries(t)' \subseteq Entries(t)
    BY <1>d, <2>1, <2>2, Zenon DEF Claims, Entries
  <2> QED BY <1>s, <1>0, <2>1, <2>2, <2>3, SharedKept, SharedIdle, Zenon DEF SharedInv
<1>3. CASE w.then = "install"
  <2>1. /\ lbCache' = [lbCache EXCEPT ![s] = ClearPairs(lbCache[s])]
        /\ w' = Installing(s, w.list, w.eps, w.fresh) /\ held' = held
    BY <1>s, <1>3, Zenon DEF Deleted
  <2>2. ClearPairs(lbCache[s]).pairs = {}
    BY <1>0, Zenon DEF ClearPairs, LbCacheEntry
  <2>3. /\ lbCache'[s].pairs = {}
        /\ \A t \in Service \ {s} : lbCache'[t].pairs = lbCache[t].pairs
    BY <2>1, <2>2, Zenon DEF TypeOK
  <2>4. w'.svc = s /\ w'.list = w.list /\ w'.fresh = w.fresh /\ w'.pc = "install"
    BY <2>1, Zenon DEF Installing
  <2>5. \A t \in Service : ListPairs(t)' = ListPairs(t) /\ ListIPs(t)' = ListIPs(t)
    BY <1>s, <2>4, Zenon DEF ListPairs, ListIPs
  <2>6. \A t \in Service : Claims(t)' \subseteq Claims(t) /\ Entries(t)' \subseteq Entries(t)
    BY <2>3, <2>5, Zenon DEF Claims, Entries
  <2>7. /\ \A t \in Service \ {s} : lister'[t].ingress # {} => Covers(lbCache'[t].pairs, t)
        /\ w'.fresh => lister'[s].ingress = {}
    BY <1>s, <2>3, <2>4, Zenon DEF SharedInv, CachedIfListed
  <2>8. CachedIfListed'
    BY <2>4, <2>7, Zenon DEF CachedIfListed, Covers, PortsOf
  <2> QED BY <2>1, <2>6, <2>8, SharedKept, Zenon DEF SharedInv
<1> QED BY <1>1, <1>2, <1>3, Zenon DEF TypeOK, Worker

LEMMA SharedWork ==
  ASSUME SharedEnv, TypeOK, AddressInv, SharedInv,
         \/ DeleteOK      \/ DeleteError
         \/ InstallLB     \/ InstallError
         \/ UpdateService \/ UpdateServiceError
  PROVE  SharedInv'
<1>s. PICK s \in Service : s = w.svc
  <2>1. w.pc # "idle"
    BY Zenon DEF DeleteOK, DeleteError, InstallLB, InstallError, UpdateService, UpdateServiceError
  <2> QED BY <2>1, Zenon DEF TypeOK, Worker
<1>d. ASSUME w' = Idle PROVE \A t \in Service : ListPairs(t)' = {} /\ ListIPs(t)' = {}
  <2>1. w'.list = {}
    BY <1>d, Zenon DEF Idle
  <2> QED BY <2>1, Zenon DEF ListPairs, ListIPs
<1>1. CASE DeleteOK
  BY <1>1, SharedDeleted, Zenon DEF DeleteOK
<1>2. CASE DeleteError
  <2>1. CASE w.then = "install"
    BY <1>2, <2>1, SharedDeleted, Zenon DEF DeleteError
  <2>2. CASE w.then # "install"
    <3>1. w.pc = "delete" /\ w' = Idle /\ UNCHANGED <<api, lister, lbCache, held>>
      BY <1>2, <2>2, Zenon DEF DeleteError
    <3>2. \A t \in Service : Claims(t)' \subseteq Claims(t) /\ Entries(t)' \subseteq Entries(t)
      BY <1>d, <3>1, Zenon DEF Claims, Entries
    <3>3. lister[s].ingress # {} => Covers(lbCache[s].pairs, s)
      BY <3>1, Zenon DEF SharedInv, CachedIfListed
    <3> QED BY <1>s, <3>1, <3>2, <3>3, SharedKept, SharedIdle, Zenon DEF SharedInv
  <2> QED BY <2>1, <2>2, Zenon
<1>3. CASE InstallLB
  <2>1. PICK x \in NextPair :
          /\ lbCache' = [lbCache EXCEPT ![w.svc].pairs = @ \cup {x.pair},
                                        ![w.svc].eps = w.eps]
          /\ w' = [w EXCEPT !.todo = @ \ {x},
                            !.pc = IF w.todo = {x} THEN "status" ELSE "install"]
    BY <1>3, Zenon DEF InstallLB
  <2>2. x \in w.list /\ x.pair \in ListPairs(s) /\ x.pair.ip \in ListIPs(s)
    BY <1>s, Zenon DEF NextPair, AddressInv, Provided, ListPairs, ListIPs
  <2>3. /\ w'.svc = w.svc /\ w'.list = w.list /\ w'.fresh = w.fresh
        /\ w'.pc \in {"status", "install"}
    BY <2>1, Zenon DEF TypeOK, Worker
  <2>4. /\ \A t \in Service \ {s} : lbCache'[t].pairs = lbCache[t].pairs
        /\ lbCache'[s].pairs = lbCache[s].pairs \cup {x.pair}
    BY <1>s, <2>1 DEF TypeOK, LbCacheEntry
  <2>5. w.pc = "install" /\ UNCHANGED <<api, lister, held>>
    BY <1>3, Zenon DEF InstallLB
  <2>6. \A t \in Service : ListPairs(t)' = ListPairs(t) /\ ListIPs(t)' = ListIPs(t)
    BY <2>3, Zenon DEF ListPairs, ListIPs
  <2>7. \A t \in Service : Claims(t)' \subseteq Claims(t) /\ Entries(t)' \subseteq Entries(t)
    BY <2>2, <2>4, <2>5, <2>6 DEF Claims, Entries
  <2>8. /\ \A t \in Service \ {s} : lister'[t].ingress # {} => Covers(lbCache'[t].pairs, t)
        /\ w'.fresh => lister'[s].ingress = {}
    BY <1>s, <2>3, <2>4, <2>5, Zenon DEF SharedInv, CachedIfListed
  <2>9. CachedIfListed'
    BY <1>s, <2>3, <2>8, Zenon DEF CachedIfListed, Covers, PortsOf
  <2> QED BY <2>5, <2>7, <2>9, SharedKept, Zenon DEF SharedInv
<1>4. CASE InstallError
  <2>1. w.fresh /\ w.todo = w.list /\ w.pc = "install"
    BY <1>4, Zenon DEF InstallError, Stage, SharedEnv, AddressEnv
  <2> DEFINE T == {Token(x.pair) : x \in {y \in w.list : y.pair.inRange /\ y.allocd}}
  <2>2. held' = AfterReturn(T) /\ w' = Idle /\ UNCHANGED <<api, lister, lbCache>>
    BY <1>4, Zenon DEF InstallError
  <2>3. lbCache[s].pairs = {} /\ api[s].ingress = {} /\ lister[s].ingress = {}
    BY <1>s, <2>1, Zenon DEF AddressInv, Provided, SharedInv, CachedIfListed
  <2>4. \A h \in T : \E p \in Entries(s) : h = Token(p)
    BY <1>s, Zenon DEF Entries, ListPairs
  <2> HIDE DEF T
  <2>5. /\ Claims(s)' = {}
        /\ \A t \in Service : Claims(t)' \subseteq Claims(t) /\ Entries(t)' \subseteq Entries(t)
    BY <1>d, <2>2, <2>3, Zenon DEF Claims, Entries
  <2> QED BY <1>s, <2>2, <2>3, <2>4, <2>5, SharedReturned, SharedIdle, Zenon DEF SharedInv
<1>5. CASE UpdateService \/ UpdateServiceError
  <2>1. w.pc = "status" /\ w' = Idle /\ UNCHANGED <<lister, held, lbCache>>
    BY <1>5, Zenon DEF UpdateService, UpdateServiceError
  <2>2. /\ \A t \in Service \ {s} : api'[t].ingress = api[t].ingress
        /\ api'[s].ingress \subseteq api[s].ingress \cup ListIPs(s)
    <3>1. CASE UpdateServiceError
      BY <3>1, Zenon DEF UpdateServiceError
    <3>2. CASE UpdateService
      <4>1. api' = [api EXCEPT ![s] = [api[s] EXCEPT !.ingress = @ \cup ListIPs(s)]]
        BY <1>s, <3>2, Zenon DEF UpdateService, ListIPs
      <4>2. api[s] \in SvcObj
        BY Zenon DEF TypeOK
      <4> QED BY <4>1, <4>2, Zenon DEF TypeOK, SvcObj
    <3> QED BY <1>5, <3>1, <3>2, Zenon
  <2>3. \A t \in Service : Claims(t)' \subseteq Claims(t) /\ Entries(t)' \subseteq Entries(t)
    BY <1>d, <2>1, <2>2, Zenon DEF Claims, Entries
  <2>4. Covers(ListPairs(s), s) /\ ListPairs(s) \subseteq lbCache[s].pairs
    <3>1. /\ Covers(ListPairs(s), s) /\ w.todo = {}
          /\ \A x \in w.list \ w.todo : x.pair \in lbCache[s].pairs
      BY <1>s, <2>1, Zenon DEF AddressInv, Provided
    <3> QED BY <1>s, <3>1, Zenon DEF ListPairs
  <2>5. Covers(lbCache[s].pairs, s)
    BY <2>4, Zenon DEF Covers
  <2> QED BY <1>s, <2>1, <2>3, <2>5, SharedKept, SharedIdle, Zenon DEF SharedInv
<1> QED BY <1>1, <1>2, <1>3, <1>4, <1>5, Zenon

LEMMA SharedInvariant ==
  ASSUME SharedEnv
  PROVE  Spec => [](AddressInv /\ SharedInv)
<1>e. AddressEnv
  BY Zenon DEF SharedEnv
<1>1. Init => SharedInv
  <2> SUFFICES ASSUME Init PROVE SharedInv
    BY Zenon
  <2>1. \A s \in Service : Claims(s) = {} /\ Entries(s) = {} /\ lister[s].ingress = {}
    BY DEF Init, Claims, ListIPs, Entries, ListPairs, Absent, NotCached, Idle
  <2>2. Reserved /\ PortsApart /\ Keyed
    BY <2>1, Zenon DEF Reserved, PortsApart, Keyed
  <2>3. CachedIfListed
    BY <2>1, Zenon DEF CachedIfListed
  <2> QED BY <2>2, <2>3, Zenon DEF SharedInv
<1>2. TypeOK /\ AddressInv /\ SharedInv /\ [Next]_vars => SharedInv'
  <2> SUFFICES ASSUME TypeOK, AddressInv, SharedInv, [Next]_vars PROVE SharedInv'
    BY Zenon
  <2>1. CASE UNCHANGED vars
    <3>1. UNCHANGED <<api, lister, held, lbCache, w>>
      BY <2>1, Zenon DEF vars
    <3> QED BY <3>1, SharedElsewhere, Zenon
  <2> QED BY <2>1, SharedEnvironment, SharedSync, SharedWork, Zenon DEF Next
<1>3. Spec => []AddressInv
  BY <1>e, AddressInvariant, Zenon
<1> QED BY <1>1, <1>2, <1>3, TypeCorrect, PTL DEF Spec

(* On a shared pool, services that have an address in common never have a rule or an   *)
(* advertised address for the same port: what the pool keeps is the pair of both, from  *)
(* before the first rule until after the last delete (GetNewIPAddr, ReturnIPAddr).      *)
THEOREM SharedPortsApart ==
  ASSUME SharedEnv
  PROVE  Spec => []NoRuleConflict
<1>1. AddressInv /\ SharedInv => NoRuleConflict
  <2> SUFFICES ASSUME AddressInv, SharedInv, NEW s \in Service, NEW t \in Service, s # t,
                      NEW r \in Served(s) \cap Served(t)
               PROVE  FALSE
    BY Zenon DEF NoRuleConflict
  <2>1. ASSUME NEW u \in Service, r \in Served(u)
        PROVE  r[1] \in Claims(u) /\ r[2] \in PortsOf(u)
    <3>1. CASE r \in RulesOf(lbCache[u].pairs)
      <4>1. PICK p \in lbCache[u].pairs : r = RuleOf(p)
        BY <3>1, Zenon DEF RulesOf
      <4>2. p \in Entries(u) /\ r[1] = p.ip /\ r[2] = p.port
        BY <4>1, Zenon DEF Entries, RuleOf
      <4> QED BY <4>2, EntryIPs, Zenon DEF SharedInv, Keyed
    <3>2. CASE r \in api[u].ingress \X {api[u].ports[j] : j \in DOMAIN api[u].ports}
      <4>1. PICK ip \in api[u].ingress, j \in DOMAIN api[u].ports : r = <<ip, api[u].ports[j]>>
        BY <3>2
      <4>2. api[u].ports \in PortLists[u]
        BY <4>1, Zenon DEF AddressInv, LifeCycle, PortsFixed
      <4>3. r[1] = ip /\ r[2] = api[u].ports[j]
        BY <4>1
      <4>4. api[u].ports[j] \in PortsOf(u)
        <5>1. api[u].ports[j] \in {api[u].ports[i] : i \in DOMAIN api[u].ports}
          BY <4>1, Zenon
        <5> QED BY <4>2, <5>1 DEF PortsOf
      <4>5. ip \in Claims(u)
        BY Zenon DEF Claims
      <4> QED BY <4>3, <4>4, <4>5
    <3> QED BY <2>1, <3>1, <3>2, Zenon DEF Served
  <2>2. r[1] \in Claims(s) \cap Claims(t) /\ r[2] \in PortsOf(s) \cap PortsOf(t)
    BY <2>1, Zenon
  <2> QED BY <2>2, Zenon DEF SharedInv, PortsApart
<1> QED BY <1>1, SharedInvariant, PTL

=============================================================================
