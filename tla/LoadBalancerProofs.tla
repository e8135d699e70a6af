-------------------------- MODULE LoadBalancerProofs --------------------------
(* Proofs about the load-balancer manager, for any services, instances,     *)
(* addresses, ports and bounds.                                             *)
EXTENDS LoadBalancer, TLAPS

(* The constant objects have their types. *)
LEMMA ConstantTypes ==
  /\ Idle \in Worker /\ Idle.svc = None /\ Idle.pc = "idle"
  /\ NotCached \in LbCacheEntry
  /\ \A st \in {"unborn", "gone"} : Absent(st) \in SvcObj
<1>1. Idle \in Worker /\ Idle.svc = None /\ Idle.pc = "idle"
  BY Zenon DEF Idle, Worker
<1>2. NotCached \in LbCacheEntry
  BY Zenon DEF NotCached, LbCacheEntry
<1>3. \A st \in {"unborn", "gone"} : Absent(st) \in SvcObj
  <2>1. <<>> \in Seq(Port)
    OBVIOUS
  <2> QED BY <2>1, Zenon DEF Absent, SvcObj
<1> QED BY <1>1, <1>2, <1>3, Zenon

(* The ports of a service in the lister are ports, at natural positions. *)
LEMMA PortTypes ==
  ASSUME TypeOK, NEW s \in Service, NEW j \in DOMAIN lister[s].ports
  PROVE  lister[s].ports[j] \in Port /\ j \in Nat
<1>1. lister[s].ports \in Seq(Port)
  BY Zenon DEF TypeOK, SvcObj
<1> QED BY <1>1

LEMMA OldType ==
  ASSUME NEW p \in Pair, NEW j \in Nat
  PROVE  Old(p, j) \in SvcPair
BY Zenon DEF Old, SvcPair

(* What getIngressSvcPairs puts together are service pairs. *)
LEMMA KeptTypes ==
  ASSUME TypeOK, NEW s \in Service
  PROVE  PairsKept(s) \subseteq SvcPair /\ PairsCached(s) \subseteq SvcPair
<1>0. lbCache[s].pairs \subseteq Pair
  BY Zenon DEF TypeOK, LbCacheEntry
<1>1. ASSUME NEW x \in (lister[s].ingress \X DOMAIN lister[s].ports) \ Missing(s)
      PROVE  Old(CHOOSE p \in lbCache[s].pairs :
                   p.ip = x[1] /\ p.port = lister[s].ports[x[2]], x[2]) \in SvcPair
  <2>1. \E p \in lbCache[s].pairs : p.ip = x[1] /\ p.port = lister[s].ports[x[2]]
    BY Zenon DEF Missing, HasPair
  <2>2. x[2] \in Nat
    BY PortTypes, Zenon
  <2> QED BY <1>0, <2>1, <2>2, OldType, Zenon
<1>2. ASSUME NEW j \in DOMAIN lister[s].ports \ NewPorts(s)
      PROVE  Old(CHOOSE p \in lbCache[s].pairs : p.port = lister[s].ports[j], j)
               \in SvcPair
  <2>1. \E p \in lbCache[s].pairs : p.port = lister[s].ports[j]
    BY Zenon DEF NewPorts, HasPort
  <2> QED BY <1>0, <2>1, OldType, PortTypes, Zenon
<1> QED BY <1>1, <1>2, Zenon DEF PairsKept, PairsCached

LEMMA AddedTypes ==
  ASSUME TypeOK, NEW s \in Service, NEW ident \in Ident
  PROVE  /\ \A first : PairsMissing(s, first, ident) \subseteq SvcPair
         /\ \A ip \in IP : PairsNew(s, ip, ident) \subseteq SvcPair
<1>0. \A port \in Port : IPAMIdent(port) \in Ident
  BY Zenon DEF IPAMIdent, Ident
<1>1. lister[s].ingress \subseteq IP
  BY Zenon DEF TypeOK, SvcObj
<1>2. ASSUME NEW first, NEW x \in Missing(s)
      PROVE  [pair |-> [ip |-> x[1], port |-> lister[s].ports[x[2]],
                        inRange |-> x \in first,
                        ident |-> IF x \in first THEN ident
                                    ELSE IPAMIdent(lister[s].ports[x[2]])],
              idx |-> x[2], allocd |-> x \in first] \in SvcPair
  <2>1. x[1] \in IP /\ x[2] \in DOMAIN lister[s].ports
    BY <1>1, Zenon DEF Missing
  <2> QED BY <1>0, <2>1, PortTypes DEF SvcPair, Pair
<1>3. ASSUME NEW ip \in IP, NEW j \in NewPorts(s)
      PROVE  [pair |-> [ip |-> ip, port |-> lister[s].ports[j], inRange |-> TRUE,
                        ident |-> IF j = FirstNew(s) THEN ident
                                    ELSE IPAMIdent(lister[s].ports[j])],
              idx |-> j, allocd |-> j = FirstNew(s)] \in SvcPair
  <2>1. j \in DOMAIN lister[s].ports
    BY Zenon DEF NewPorts
  <2> QED BY <1>0, <2>1, PortTypes, Zenon DEF SvcPair, Pair
<1>4. \A first : PairsMissing(s, first, ident) \subseteq SvcPair
  BY <1>2 DEF PairsMissing
<1>5. \A ip \in IP : PairsNew(s, ip, ident) \subseteq SvcPair
  BY <1>3, Zenon DEF PairsNew
<1> QED BY <1>4, <1>5, Zenon

(* The worker states a sync starts with. *)
LEMMA DeletingType ==
  ASSUME TypeOK, NEW s \in Service, NEW list \in SUBSET SvcPair,
         NEW fresh \in BOOLEAN, NEW then \in {"release", "drain", "install"}
  PROVE  /\ Deleting(s, then, list, fresh) \in Worker
         /\ Deleting(s, then, list, fresh).svc = s
         /\ Deleting(s, then, list, fresh).pc = "delete"
<1>1. eps[s] \in Endpoint \cup {None}
  BY Zenon DEF TypeOK
<1> QED BY <1>1, Zenon DEF Deleting, Worker

LEMMA InstallingType ==
  ASSUME NEW s \in Service, NEW list \in SUBSET SvcPair,
         NEW fresh \in BOOLEAN, NEW e \in Endpoint \cup {None}
  PROVE  /\ Installing(s, list, e, fresh) \in Worker
         /\ Installing(s, list, e, fresh).svc = s
         /\ Installing(s, list, e, fresh).pc = "install"
BY Zenon DEF Installing, Worker

LEMMA ApplyTypes ==
  ASSUME TypeOK, NEW s \in Service, NEW list \in SUBSET SvcPair,
         NEW fresh \in BOOLEAN, ApplyPairs(s, list, fresh)
  PROVE  /\ w' \in Worker /\ (w'.svc = None <=> w'.pc = "idle")
         /\ lbCache' \in [Service -> LbCacheEntry]
<1> DEFINE entry == [lbCache[s] EXCEPT !.added = TRUE, !.mode = lister[s].mode]
<1>1. entry \in LbCacheEntry /\ ClearPairs(entry) \in LbCacheEntry
  <2>1. lbCache[s] \in LbCacheEntry /\ lister[s].mode \in Mode \cup {None}
    BY Zenon DEF TypeOK, SvcObj
  <2> QED BY <2>1, Zenon DEF LbCacheEntry, ClearPairs
<1>2. eps[s] \in Endpoint \cup {None} /\ s # None
  BY LoadBalancerAssumption DEF TypeOK
<1>3. CASE ~NeedUpdate(s, list)
  BY <1>3, Zenon DEF ApplyPairs, TypeOK
<1>4. CASE NeedUpdate(s, list) /\ NeedDelete(s)
  <2>1. /\ w' = Deleting(s, "install", list, fresh)
        /\ lbCache' = [lbCache EXCEPT ![s] = entry]
    BY <1>4, Zenon DEF ApplyPairs
  <2> HIDE DEF entry
  <2> QED BY <1>1, <2>1, DeletingType, <1>2 DEF TypeOK
<1>5. CASE NeedUpdate(s, list) /\ ~NeedDelete(s)
  <2>1. /\ w' = Installing(s, list, eps[s], fresh)
        /\ lbCache' = [lbCache EXCEPT ![s] = ClearPairs(entry)]
    BY <1>5, Zenon DEF ApplyPairs
  <2> HIDE DEF entry
  <2> QED BY <1>1, <2>1, InstallingType, <1>2 DEF TypeOK
<1> QED BY <1>3, <1>4, <1>5, Zenon

(* The pool's methods keep its type. *)
LEMMA PoolTypes ==
  ASSUME PoolTypeOK
  PROVE  /\ \A S : AfterReturn(S) \subseteq PoolIP \X Ident
         /\ \A port \in Port, ip \in IP, ident \in Ident :
              CheckAndReserveIP(ip, port, ident) => PoolTypeOK'
         /\ \A port \in Port, ip \in IP, ident \in Ident :
              GetNewIPAddr(port, ip, ident) => PoolTypeOK'
BY DEF PoolTypeOK, AfterReturn, CheckAndReserveIP, GetNewIPAddr, Contains

LEMMA EnvironmentTypes ==
  ASSUME TypeOK, Environment
  PROVE  TypeOK'
<1>1. ASSUME NEW s \in Service, CreateService(s)
      PROVE  TypeOK'
  <2>1. PICK ports \in PortLists[s], mode \in Mode :
          api' = [api EXCEPT ![s] = [st |-> "live", ports |-> ports,
                                     mode |-> mode, ingress |-> {}]]
    BY <1>1, Zenon DEF CreateService
  <2>2. ports \in Seq(Port)
    BY LoadBalancerAssumption, Zenon
  <2>3. api' \in [Service -> SvcObj]
    BY <2>1, <2>2, Zenon DEF TypeOK, SvcObj
  <2> QED BY <1>1, <2>3, Zenon DEF CreateService, TypeOK, PoolTypeOK
<1>2. ASSUME NEW s \in Service, ChangeService(s)
      PROVE  TypeOK'
  <2>1. PICK ports \in PortLists[s], mode \in Mode :
          api' = [api EXCEPT ![s].ports = ports, ![s].mode = mode]
    BY <1>2, Zenon DEF ChangeService
  <2>2. ports \in Seq(Port)
    BY LoadBalancerAssumption, Zenon
  <2>3. api[s] \in SvcObj
    BY Zenon DEF TypeOK
  <2>4. [api[s] EXCEPT !.ports = ports, !.mode = mode] \in SvcObj
    BY <2>2, <2>3, Zenon DEF SvcObj
  <2>5. api' = [api EXCEPT ![s] = [api[s] EXCEPT !.ports = ports, !.mode = mode]]
    BY <2>1, Zenon DEF TypeOK
  <2>6. api' \in [Service -> SvcObj]
    BY <2>4, <2>5, Zenon DEF TypeOK
  <2> QED BY <1>2, <2>6, Zenon DEF ChangeService, TypeOK, PoolTypeOK
<1>3. ASSUME NEW s \in Service, DeleteService(s)
      PROVE  TypeOK'
  BY <1>3, ConstantTypes, Zenon DEF DeleteService, TypeOK, PoolTypeOK
<1>4. ASSUME NEW s \in Service, ChangeEndpoints(s)
      PROVE  TypeOK'
  BY <1>4, Zenon DEF ChangeEndpoints, TypeOK, PoolTypeOK
<1>5. CASE LateDelete
  BY <1>5 DEF LateDelete, TypeOK, PoolTypeOK
<1>6. CASE Restart
  BY <1>6, ConstantTypes, LoadBalancerAssumption DEF Restart, TypeOK, PoolTypeOK
<1> QED BY <1>1, <1>2, <1>3, <1>4, <1>5, <1>6, Zenon DEF Environment

LEMMA SyncTypes ==
  ASSUME TypeOK, NEW s \in Service,
         EnqueueService(s) \/ Resync(s) \/ Sync(s)
  PROVE  TypeOK'
<1>0. s # None /\ {} \in SUBSET SvcPair
  BY LoadBalancerAssumption, Zenon
<1>1. CASE EnqueueService(s) \/ Resync(s)
  BY <1>1, Zenon DEF EnqueueService, Resync, TypeOK, PoolTypeOK
<1>2. CASE SyncDeleted(s)
  <2>1. w' \in Worker /\ (w'.svc = None <=> w'.pc = "idle")
    <3>1. w' = w \/ w' = Deleting(s, "release", {}, FALSE)
      BY <1>2, Zenon DEF SyncDeleted
    <3>2. /\ Deleting(s, "release", {}, FALSE) \in Worker
          /\ Deleting(s, "release", {}, FALSE).svc = s
          /\ Deleting(s, "release", {}, FALSE).pc = "delete"
      BY <1>0, DeletingType, Zenon
    <3> QED BY <1>0, <3>1, <3>2, Zenon DEF TypeOK
  <2> QED BY <1>2, <2>1, Zenon DEF SyncDeleted, TypeOK, PoolTypeOK
<1>3. CASE SyncNoEndpoints(s)
  <2>1. w' \in Worker /\ (w'.svc = None <=> w'.pc = "idle")
    <3>1. w' = w \/ w' = Deleting(s, "drain", {}, FALSE)
      BY <1>3, Zenon DEF SyncNoEndpoints
    <3>2. /\ Deleting(s, "drain", {}, FALSE) \in Worker
          /\ Deleting(s, "drain", {}, FALSE).svc = s
          /\ Deleting(s, "drain", {}, FALSE).pc = "delete"
      BY <1>0, DeletingType, Zenon
    <3> QED BY <1>0, <3>1, <3>2, Zenon DEF TypeOK
  <2> QED BY <1>3, <2>1, Zenon DEF SyncNoEndpoints, TypeOK, PoolTypeOK
<1>4. ASSUME SyncService(s), PoolTypeOK',
             NEW list \in SUBSET SvcPair, NEW fresh \in BOOLEAN,
             ApplyPairs(s, list, fresh)
      PROVE  TypeOK'
  BY <1>4, ApplyTypes, Zenon DEF SyncService, TypeOK
<1>5. NoIdent \in Ident
  BY Zenon DEF Ident
<1>6. CASE SyncIngress(s)
  <2>1. PairsKept(s) \cup PairsMissing(s, {}, NoIdent) \in SUBSET SvcPair
    BY <1>5, KeptTypes, AddedTypes, Zenon
  <2>2. PoolTypeOK'
    BY <1>6, Zenon DEF SyncIngress, TypeOK, PoolTypeOK
  <2> QED BY <1>4, <1>6, <2>1, <2>2, Zenon DEF SyncIngress
<1>7. CASE SyncReserve(s)
  <2>1. PICK first \in FirstMissing(s), ident \in Ident :
          /\ CheckAndReserveIP(first[1], lister[s].ports[first[2]], ident)
          /\ ApplyPairs(s, PairsKept(s) \cup PairsMissing(s, {first}, ident), FALSE)
    BY <1>7, Zenon DEF SyncReserve
  <2>2. PairsKept(s) \cup PairsMissing(s, {first}, ident) \in SUBSET SvcPair
    BY KeptTypes, AddedTypes, Zenon
  <2>3. first[1] \in IP /\ lister[s].ports[first[2]] \in Port
    <3>1. first[1] \in lister[s].ingress /\ first[2] \in DOMAIN lister[s].ports
      BY Zenon DEF FirstMissing, Missing
    <3>2. lister[s].ingress \subseteq IP
      BY Zenon DEF TypeOK, SvcObj
    <3> QED BY <3>1, <3>2, PortTypes, Zenon
  <2>4. PoolTypeOK'
    BY <2>1, <2>3, PoolTypes, Zenon DEF TypeOK
  <2> QED BY <1>4, <1>7, <2>1, <2>2, <2>4, Zenon DEF SyncReserve
<1>8. CASE SyncCached(s)
  <2>1. PoolTypeOK'
    BY <1>8, Zenon DEF SyncCached, TypeOK, PoolTypeOK
  <2> QED BY <1>4, <1>8, <2>1, KeptTypes, Zenon DEF SyncCached
<1>9. CASE SyncAllocate(s)
  <2>1. PICK ip \in PoolIP, ident \in Ident :
          /\ GetNewIPAddr(lister[s].ports[FirstNew(s)], ip, ident)
          /\ ApplyPairs(s, PairsCached(s) \cup PairsNew(s, ip, ident),
                        lbCache[s].pairs = {})
    BY <1>9, Zenon DEF SyncAllocate
  <2>2. PairsCached(s) \cup PairsNew(s, ip, ident) \in SUBSET SvcPair
    BY KeptTypes, AddedTypes, IPPoolAssumption, Zenon
  <2>3. PoolTypeOK'
    BY <2>1 DEF TypeOK, PoolTypeOK, GetNewIPAddr
  <2>4. (lbCache[s].pairs = {}) \in BOOLEAN
    BY Zenon
  <2> QED BY <1>4, <1>9, <2>1, <2>2, <2>3, <2>4, Zenon DEF SyncAllocate
<1>10. CASE SyncExit(s)
  BY <1>10, Zenon DEF SyncExit, TypeOK, PoolTypeOK
<1> QED BY <1>1, <1>2, <1>3, <1>6, <1>7, <1>8, <1>9, <1>10, Zenon DEF Sync

(* The steps of a sync that is under way. *)
LEMMA DeletedTypes ==
  ASSUME TypeOK, w.pc = "delete", Deleted(w.svc)
  PROVE  /\ w' \in Worker /\ (w'.svc = None <=> w'.pc = "idle")
         /\ lbCache' \in [Service -> LbCacheEntry]
         /\ PoolTypeOK'
<1>0. /\ w.svc \in Service /\ w.svc # None
      /\ w.list \in SUBSET SvcPair /\ w.fresh \in BOOLEAN
      /\ w.eps \in Endpoint \cup {None}
      /\ lbCache[w.svc] \in LbCacheEntry
      /\ w.then \in {"release", "drain", "install"}
  BY Zenon DEF TypeOK, Worker
<1>1. CASE w.then = "release"
  BY <1>1, ConstantTypes, PoolTypes DEF Deleted, TypeOK, PoolTypeOK
<1>2. CASE w.then = "drain"
  <2>1. lbCache' = [lbCache EXCEPT ![w.svc] = [lbCache[w.svc] EXCEPT !.eps = None]]
    BY <1>2, Zenon DEF Deleted
  <2>2. [lbCache[w.svc] EXCEPT !.eps = None] \in LbCacheEntry
    BY <1>0, Zenon DEF LbCacheEntry
  <2> QED BY <1>2, <2>1, <2>2, ConstantTypes, Zenon DEF Deleted, TypeOK, PoolTypeOK
<1>3. CASE w.then = "install"
  <2>1. /\ lbCache' = [lbCache EXCEPT ![w.svc] = ClearPairs(lbCache[w.svc])]
        /\ w' = Installing(w.svc, w.list, w.eps, w.fresh)
        /\ held' = held
    BY <1>3, Zenon DEF Deleted
  <2>2. ClearPairs(lbCache[w.svc]) \in LbCacheEntry
    BY <1>0, Zenon DEF ClearPairs, LbCacheEntry
  <2> QED BY <1>0, <2>1, <2>2, InstallingType DEF TypeOK, PoolTypeOK
<1> QED BY <1>0, <1>1, <1>2, <1>3, Zenon DEF Deleted

LEMMA AddRuleType ==
  ASSUME TypeOK, NEW x \in SvcPair, NEW accepted, AddRule(accepted, x.pair)
  PROVE  rules' \in [Client -> SUBSET (IP \X Port)]
<1>1. RuleOf(x.pair) \in IP \X Port
  BY Zenon DEF SvcPair, Pair, RuleOf
<1> QED BY <1>1, Zenon DEF AddRule, TypeOK

LEMMA WorkTypes ==
  ASSUME TypeOK,
         \/ DeleteOK      \/ DeleteError
         \/ InstallLB     \/ InstallError
         \/ UpdateService \/ UpdateServiceError
  PROVE  TypeOK'
<1>0. w.pc # "idle" => w.svc \in Service /\ w.svc # None
  BY Zenon DEF TypeOK, Worker
<1>1. CASE DeleteOK
  <2>1. rules' \in [Client -> SUBSET (IP \X Port)]
    BY <1>1, Zenon DEF DeleteOK, TypeOK
  <2> QED BY <1>1, <2>1, DeletedTypes, Zenon DEF DeleteOK, TypeOK
<1>2. CASE DeleteError
  <2> DEFINE gone == RulesOf(lbCache[w.svc].pairs)
  <2>1. gone \subseteq IP \X Port
    <3>1. lbCache[w.svc].pairs \subseteq Pair
      BY <1>0, <1>2, Zenon DEF DeleteError, TypeOK, LbCacheEntry
    <3> QED BY <3>1 DEF RulesOf, RuleOf, Pair
  <2>2. PICK done \in SUBSET (Client \X gone) :
          \E left \in SUBSET ((Client \X gone) \ done) :
            /\ rules' = [c \in Client |-> {r \in rules[c] : <<c, r>> \notin done}]
            /\ late' = late \cup left
    BY <1>2, Zenon DEF DeleteError
  <2> HIDE DEF gone
  <2>3. /\ rules' \in [Client -> SUBSET (IP \X Port)]
        /\ late' \subseteq Client \X (IP \X Port)
    BY <2>1, <2>2, Zenon DEF TypeOK
  <2>4. CASE w.then = "install"
    BY <1>2, <2>3, <2>4, DeletedTypes, Zenon DEF DeleteError, TypeOK
  <2>5. CASE w.then # "install"
    BY <1>0, <1>2, <2>3, <2>5, ConstantTypes DEF DeleteError, TypeOK, PoolTypeOK
  <2> QED BY <2>4, <2>5, Zenon
<1>3. CASE InstallLB
  <2>1. PICK x \in NextPair, accepted \in SUBSET Client \ {{}} :
          /\ AddRule(accepted, x.pair)
          /\ lbCache' = [lbCache EXCEPT ![w.svc].pairs = @ \cup {x.pair},
                                        ![w.svc].eps = w.eps]
          /\ w' = [w EXCEPT !.todo = @ \ {x},
                            !.pc = IF w.todo = {x} THEN "status" ELSE "install"]
    BY <1>3, Zenon DEF InstallLB
  <2>2. x \in SvcPair /\ x.pair \in Pair
    BY Zenon DEF TypeOK, Worker, NextPair, SvcPair
  <2>3. w' \in Worker /\ w'.svc = w.svc /\ w'.pc # "idle"
    BY <2>1, Zenon DEF TypeOK, Worker
  <2>4. lbCache' = [lbCache EXCEPT ![w.svc] =
                      [lbCache[w.svc] EXCEPT !.pairs = @ \cup {x.pair}, !.eps = w.eps]]
    BY <1>0, <1>3, <2>1, Zenon DEF InstallLB, TypeOK
  <2>5. [lbCache[w.svc] EXCEPT !.pairs = @ \cup {x.pair}, !.eps = w.eps] \in LbCacheEntry
    <3>1. lbCache[w.svc] \in LbCacheEntry /\ w.eps \in Endpoint \cup {None}
      BY <1>0, <1>3, Zenon DEF InstallLB, TypeOK, Worker
    <3> QED BY <2>2, <3>1, Zenon DEF LbCacheEntry
  <2>6. lbCache' \in [Service -> LbCacheEntry]
    BY <2>4, <2>5, Zenon DEF TypeOK
  <2>7. w'.svc # None
    BY <1>0, <1>3, <2>3, Zenon DEF InstallLB
  <2> QED BY <1>3, <2>1, <2>2, <2>3, <2>6, <2>7, AddRuleType, Zenon
            DEF InstallLB, TypeOK, PoolTypeOK
<1>4. CASE InstallError
  <2>1. rules' \in [Client -> SUBSET (IP \X Port)]
    <3>1. \A x \in NextPair : x \in SvcPair
      BY Zenon DEF TypeOK, Worker, NextPair
    <3> QED BY <1>4, <3>1, AddRuleType, Zenon DEF InstallError
  <2>2. PoolTypeOK'
    BY <1>4, PoolTypes, Zenon DEF InstallError, TypeOK, PoolTypeOK
  <2> QED BY <1>0, <1>4, <2>1, <2>2, ConstantTypes, Zenon DEF InstallError, TypeOK
<1>5. CASE UpdateService
  <2>1. {x.pair.ip : x \in w.list} \subseteq IP
    BY DEF TypeOK, Worker, SvcPair, Pair
  <2>2. api[w.svc] \in SvcObj
    BY <1>0, <1>5, Zenon DEF UpdateService, TypeOK
  <2>3. [api[w.svc] EXCEPT !.ingress = @ \cup {x.pair.ip : x \in w.list}] \in SvcObj
    BY <2>1, <2>2, Zenon DEF SvcObj
  <2>4. api' = [api EXCEPT ![w.svc] =
                  [api[w.svc] EXCEPT !.ingress = @ \cup {x.pair.ip : x \in w.list}]]
    BY <1>5, Zenon DEF UpdateService
  <2>5. api' \in [Service -> SvcObj]
    BY <2>3, <2>4, Zenon DEF TypeOK
  <2> QED BY <1>5, <2>5, ConstantTypes, Zenon DEF UpdateService, TypeOK, PoolTypeOK
<1>6. CASE UpdateServiceError
  BY <1>6, ConstantTypes, Zenon DEF UpdateServiceError, TypeOK, PoolTypeOK
<1> QED BY <1>1, <1>2, <1>3, <1>4, <1>5, <1>6, Zenon

(* Every variable keeps its type, in every environment. *)
THEOREM TypeCorrect == Spec => []TypeOK
<1>1. Init => TypeOK
  BY ConstantTypes, LoadBalancerAssumption DEF Init, TypeOK, PoolTypeOK
<1>2. TypeOK /\ [Next]_vars => TypeOK'
  <2>1. CASE UNCHANGED vars
    BY <2>1, Zenon DEF vars, TypeOK, PoolTypeOK
  <2> QED BY <2>1, EnvironmentTypes, SyncTypes, WorkTypes, Zenon DEF Next
<1> QED BY <1>1, <1>2, PTL DEF Spec

-----------------------------------------------------------------------------
(* An address of a pool that is not shared belongs to one service.          *)

(* A step that gives nothing back and adds no claim keeps the claims apart. *)
LEMMA NoNewClaim ==
  ASSUME ClaimsHeld, ClaimsDisjoint, held \subseteq held',
         \A s \in Service : Claims(s)' \subseteq Claims(s)
  PROVE  ClaimsHeld' /\ ClaimsDisjoint'
<1>1. ClaimsHeld'
  BY Zenon DEF ClaimsHeld
<1>2. ClaimsDisjoint'
  BY Zenon DEF ClaimsDisjoint
<1> QED BY <1>1, <1>2, Zenon

(* A step that returns addresses of one service, none of which it claims    *)
(* afterwards, keeps the claims apart.                                      *)
LEMMA ReturnOwn ==
  ASSUME ClaimsHeld, ClaimsDisjoint, NEW s \in Service, NEW S,
         \A h \in S : h[1] \in Claims(s) /\ h[1] \notin Claims(s)',
         held' = AfterReturn(S),
         \A t \in Service : Claims(t)' \subseteq Claims(t)
  PROVE  ClaimsHeld' /\ ClaimsDisjoint'
<1>1. ClaimsDisjoint'
  BY Zenon DEF ClaimsDisjoint
<1>2. ASSUME NEW t \in Service, NEW ip \in Claims(t)'
      PROVE  <<ip, NoIdent>> \in held'
  <2>1. <<ip, NoIdent>> \in held /\ ip \in Claims(t)
    BY Zenon DEF ClaimsHeld
  <2>2. <<ip, NoIdent>> \notin S
    <3> SUFFICES ASSUME <<ip, NoIdent>> \in S PROVE FALSE
      BY Zenon
    <3>1. ip \in Claims(s) /\ ip \notin Claims(s)'
      BY Zenon
    <3>2. CASE t = s
      BY <3>1, <3>2, <1>2, Zenon
    <3>3. CASE t # s
      BY <3>1, <3>3, <2>1, Zenon DEF ClaimsDisjoint
    <3> QED BY <3>2, <3>3, Zenon
  <2> QED BY <2>1, <2>2, Zenon DEF AfterReturn
<1>3. ClaimsHeld'
  BY <1>2, Zenon DEF ClaimsHeld
<1> QED BY <1>1, <1>3, Zenon

(* The addresses of the rules that need no new one are claimed already. *)
LEMMA OldIPs ==
  ASSUME TypeOK, NEW s \in Service
  PROVE  /\ \A x \in PairsKept(s) : x.pair.ip \in Claims(s)
         /\ \A x \in PairsCached(s) : x.pair.ip \in Claims(s)
         /\ \A first, ident : \A x \in PairsMissing(s, first, ident) :
              x.pair.ip \in Claims(s)
<1>1. ASSUME NEW x \in PairsKept(s)
      PROVE  x.pair.ip \in Claims(s)
  <2>1. PICK y \in (lister[s].ingress \X DOMAIN lister[s].ports) \ Missing(s) :
          x = Old(CHOOSE p \in lbCache[s].pairs :
                    p.ip = y[1] /\ p.port = lister[s].ports[y[2]], y[2])
    BY Zenon DEF PairsKept
  <2>2. \E p \in lbCache[s].pairs : p.ip = y[1] /\ p.port = lister[s].ports[y[2]]
    BY Zenon DEF Missing, HasPair
  <2>3. x.pair \in lbCache[s].pairs
    BY <2>1, <2>2, Zenon DEF Old
  <2> QED BY <2>3, Zenon DEF Claims
<1>2. ASSUME NEW x \in PairsCached(s)
      PROVE  x.pair.ip \in Claims(s)
  <2>1. PICK j \in DOMAIN lister[s].ports \ NewPorts(s) :
          x = Old(CHOOSE p \in lbCache[s].pairs : p.port = lister[s].ports[j], j)
    BY Zenon DEF PairsCached
  <2>2. \E p \in lbCache[s].pairs : p.port = lister[s].ports[j]
    BY Zenon DEF NewPorts, HasPort
  <2>3. x.pair \in lbCache[s].pairs
    BY <2>1, <2>2, Zenon DEF Old
  <2> QED BY <2>3, Zenon DEF Claims
<1>3. ASSUME NEW first, NEW ident, NEW x \in PairsMissing(s, first, ident)
      PROVE  x.pair.ip \in Claims(s)
  <2>1. \E y \in Missing(s) : x.pair.ip = y[1]
    BY DEF PairsMissing
  <2> QED BY <2>1, Zenon DEF Missing, Claims
<1> QED BY <1>1, <1>2, <1>3, Zenon

(* What the end of a sync's first step does to the cache and the worker. *)
LEMMA ApplyEffect ==
  ASSUME TypeOK, NEW s \in Service, NEW list, NEW fresh,
         ApplyPairs(s, list, fresh)
  PROVE  /\ \A t \in Service \ {s} : lbCache'[t] = lbCache[t]
         /\ lbCache'[s].pairs \subseteq lbCache[s].pairs
         /\ lbCache[s].added => lbCache'[s].added
         /\ \/ w' = w
            \/ /\ lbCache'[s].added
               /\ w'.svc = s /\ w'.list = list /\ w'.todo = list
               /\ w'.fresh = fresh /\ w'.then = "install"
               /\ w'.pc \in {"delete", "install"}
<1> DEFINE entry == [lbCache[s] EXCEPT !.added = TRUE, !.mode = lister[s].mode]
<1>0. /\ lbCache[s] \in LbCacheEntry
      /\ entry.pairs = lbCache[s].pairs /\ entry.added
      /\ ClearPairs(entry).pairs = {} /\ ClearPairs(entry).added
  <2>1. lbCache[s] \in LbCacheEntry
    BY Zenon DEF TypeOK
  <2> QED BY <2>1, Zenon DEF LbCacheEntry, ClearPairs
<1>1. CASE ~NeedUpdate(s, list)
  BY <1>1, Zenon DEF ApplyPairs
<1>2. CASE NeedUpdate(s, list) /\ NeedDelete(s)
  <2>1. /\ w' = Deleting(s, "install", list, fresh)
        /\ lbCache' = [lbCache EXCEPT ![s] = entry]
    BY <1>2, Zenon DEF ApplyPairs
  <2> HIDE DEF entry
  <2> QED BY <1>0, <2>1, Zenon DEF Deleting, TypeOK
<1>3. CASE NeedUpdate(s, list) /\ ~NeedDelete(s)
  <2>1. /\ w' = Installing(s, list, eps[s], fresh)
        /\ lbCache' = [lbCache EXCEPT ![s] = ClearPairs(entry)]
    BY <1>3, Zenon DEF ApplyPairs
  <2> HIDE DEF entry
  <2> QED BY <1>0, <2>1, Zenon DEF Installing, TypeOK
<1> QED BY <1>1, <1>2, <1>3, Zenon

(* The first step of a sync adds to the claims what its list adds. *)
LEMMA ApplyClaims ==
  ASSUME TypeOK, NEW s \in Service, NEW list, NEW fresh, w.pc = "idle",
         ApplyPairs(s, list, fresh), UNCHANGED <<api, lister>>
  PROVE  /\ \A t \in Service \ {s} : Claims(t)' \subseteq Claims(t)
         /\ Claims(s)' \subseteq Claims(s) \cup {x.pair.ip : x \in list}
<1>1. w.svc = None /\ \A t \in Service : t # None
  BY LoadBalancerAssumption, Zenon DEF TypeOK
<1>2. \A t \in Service \ {s} : ListIPs(t)' = {}
  BY <1>1, ApplyEffect, Zenon DEF ListIPs
<1>3. ListIPs(s)' \subseteq {x.pair.ip : x \in list}
  BY <1>1, ApplyEffect, Zenon DEF ListIPs
<1>4. \A t \in Service \ {s} : Claims(t)' \subseteq Claims(t)
  BY <1>2, ApplyEffect DEF Claims
<1>5. Claims(s)' \subseteq Claims(s) \cup {x.pair.ip : x \in list}
  BY <1>3, ApplyEffect DEF Claims
<1> QED BY <1>4, <1>5, Zenon

(* The parts of the invariant that do not speak of the pool. *)
LEMMA ApplyRest ==
  ASSUME TypeOK, LifeCycle, MayReturn, NEW s \in Service, NEW list,
         NEW fresh \in BOOLEAN, w.pc = "idle", lister[s].st = "live",
         ApplyPairs(s, list, fresh), UNCHANGED <<api, lister>>,
         fresh => /\ lbCache[s].pairs = {}
                  /\ \A x \in list :
                       x.pair.ip \notin api[s].ingress \cup lister[s].ingress
  PROVE  LifeCycle' /\ MayReturn'
<1>1. w.svc = None /\ \A t \in Service : t # None
  BY LoadBalancerAssumption, Zenon DEF TypeOK
<1>2. LifeCycle'
  BY <1>1, ApplyEffect DEF LifeCycle
<1>3. CASE w' = w
  <2>1. (w.todo)' \subseteq (w.list)' /\ (w.pc)' = "idle"
    BY <1>3, Zenon DEF MayReturn
  <2> QED BY <1>2, <2>1, Zenon DEF MayReturn
<1>4. CASE w' # w
  <2>1. /\ w'.svc = s /\ w'.list = list /\ w'.todo = list /\ w'.fresh = fresh
        /\ w'.then = "install"
        /\ lbCache'[s].pairs \subseteq lbCache[s].pairs
    BY <1>4, ApplyEffect, Zenon
  <2>2. ListIPs(w.svc)' = {x.pair.ip : x \in list}
    BY <2>1, Zenon DEF ListIPs
  <2>3. fresh => /\ (lbCache[w.svc].pairs)' = {}
                 /\ (ListIPs(w.svc) \cap (api[w.svc].ingress \cup lister[w.svc].ingress))' = {}
    <3>1. (api[w.svc].ingress \cup lister[w.svc].ingress)'
            = api[s].ingress \cup lister[s].ingress
      BY <2>1, Zenon
    <3> QED BY <2>1, <2>2, <3>1
  <2> QED BY <1>2, <2>1, <2>3, Zenon DEF MayReturn
<1> QED BY <1>3, <1>4, Zenon

(* A step that leaves all this alone. *)
LEMMA UniqueUnchanged ==
  ASSUME UniqueInv, UNCHANGED <<api, lister, held, lbCache, w>>
  PROVE  UniqueInv'
<1>1. \A s : ListIPs(s)' = ListIPs(s)
  BY Zenon DEF ListIPs
<1>2. \A s : Claims(s)' = Claims(s)
  BY <1>1, Zenon DEF Claims
<1>3. ClaimsHeld' /\ ClaimsDisjoint'
  BY <1>2, Zenon DEF UniqueInv, ClaimsHeld, ClaimsDisjoint
<1>4. LifeCycle'
  BY Zenon DEF UniqueInv, LifeCycle
<1>5. MayReturn'
  <2>1. ListIPs(w.svc)' = ListIPs(w.svc)
    BY Zenon DEF ListIPs
  <2> QED BY <2>1, Zenon DEF UniqueInv, MayReturn
<1> QED BY <1>3, <1>4, <1>5, Zenon DEF UniqueInv

LEMMA UniqueSync ==
  ASSUME UniqueEnv, TypeOK, UniqueInv, NEW s \in Service,
         EnqueueService(s) \/ Resync(s) \/ Sync(s)
  PROVE  UniqueInv'
<1> USE DEF UniqueInv
<1>0. w.pc = "idle" => w.svc = None /\ \A t \in Service : t # None
  BY LoadBalancerAssumption, Zenon DEF TypeOK
<1>1. CASE EnqueueService(s)
  <2>1. /\ lister' = [lister EXCEPT ![s] = api[s]]
        /\ UNCHANGED <<api, held, lbCache, w>>
    BY <1>1, Zenon DEF EnqueueService
  <2>2. \A t \in Service : Claims(t)' \subseteq Claims(t)
    BY <2>1, Zenon DEF Claims, ListIPs, TypeOK
  <2>3. LifeCycle'
    BY <2>1 DEF LifeCycle, TypeOK, SvcObj
  <2>4. MayReturn'
    <3>1. w.pc = "delete" /\ w.then = "release" => (lister[w.svc].st)' = "gone"
      <4> SUFFICES ASSUME w.pc = "delete", w.then = "release"
                   PROVE  (lister[w.svc].st)' = "gone"
        BY Zenon
      <4>1. w.svc \in Service /\ lister[w.svc].st = "gone"
        BY Zenon DEF TypeOK, Worker, MayReturn
      <4>2. api[w.svc].st = "gone"
        BY <4>1, Zenon DEF LifeCycle
      <4> QED BY <2>1, <4>1, <4>2, Zenon DEF TypeOK
    <3>2. ASSUME w.pc \in {"delete", "install"}, w.fresh, w.todo = w.list
          PROVE  (ListIPs(w.svc) \cap (api[w.svc].ingress \cup lister[w.svc].ingress))' = {}
      <4>1. ListIPs(w.svc) \cap (api[w.svc].ingress \cup lister[w.svc].ingress) = {}
        BY <3>2, Zenon DEF MayReturn
      <4>2. (lister[w.svc].ingress)' \in {api[w.svc].ingress, lister[w.svc].ingress}
        BY <2>1, <3>2, Zenon DEF TypeOK, Worker
      <4>3. ListIPs(w.svc)' = ListIPs(w.svc) /\ (api[w.svc].ingress)' = api[w.svc].ingress
        BY <2>1, Zenon DEF ListIPs
      <4> QED BY <4>1, <4>2, <4>3, Zenon
    <3> QED BY <2>1, <3>1, <3>2, Zenon DEF MayReturn
  <2> QED BY <2>1, <2>2, <2>3, <2>4, NoNewClaim, Zenon
<1>2. CASE Resync(s) \/ SyncExit(s)
  BY <1>2, UniqueUnchanged, Zenon DEF Resync, SyncExit
<1>3. ASSUME w.pc = "idle", UNCHANGED <<api, lister, held, lbCache>>,
             lbCache[s].added, NEW then \in {"release", "drain"},
             then = "release" => lister[s].st = "gone",
             w' = Deleting(s, then, {}, FALSE)
      PROVE  UniqueInv'
  <2>1. /\ w'.svc = s /\ w'.list = {} /\ w'.todo = {} /\ w'.fresh = FALSE
        /\ w'.then = then
    BY <1>3, Zenon DEF Deleting
  <2>2. \A t \in Service : ListIPs(t)' = {}
    BY <2>1, Zenon DEF ListIPs
  <2>3. \A t \in Service : Claims(t)' \subseteq Claims(t)
    BY <1>3, <2>2, Zenon DEF Claims
  <2>4. LifeCycle'
    BY <1>3, <2>1, Zenon DEF LifeCycle
  <2>5. MayReturn'
    BY <1>3, <2>1, Zenon DEF MayReturn
  <2> QED BY <1>3, <2>3, <2>4, <2>5, NoNewClaim, Zenon
<1>4. CASE SyncDeleted(s)
  <2>1. lbCache[s].added => lister[s].st = "gone"
    BY <1>4, Zenon DEF SyncDeleted, LifeCycle, TypeOK, SvcObj
  <2>2. CASE lbCache[s].added
    BY <1>3, <1>4, <2>1, <2>2, Zenon DEF SyncDeleted, Take
  <2>3. CASE ~lbCache[s].added
    BY <1>4, <2>3, UniqueUnchanged, Zenon DEF SyncDeleted
  <2> QED BY <2>2, <2>3, Zenon
<1>5. CASE SyncNoEndpoints(s)
  <2>1. CASE lbCache[s].added
    BY <1>3, <1>5, <2>1, Zenon DEF SyncNoEndpoints, Take
  <2>2. CASE ~lbCache[s].added
    BY <1>5, <2>2, UniqueUnchanged, Zenon DEF SyncNoEndpoints
  <2> QED BY <2>1, <2>2, Zenon
<1>6. ASSUME SyncService(s), held \subseteq held', NEW list,
             \A x \in list : x.pair.ip \in Claims(s),
             ApplyPairs(s, list, FALSE)
      PROVE  UniqueInv'
  <2>1. w.pc = "idle" /\ lister[s].st = "live" /\ UNCHANGED <<api, lister>>
    BY <1>6, Zenon DEF SyncService, Take
  <2>2. \A t \in Service : Claims(t)' \subseteq Claims(t)
    <3>1. {x.pair.ip : x \in list} \subseteq Claims(s)
      BY <1>6, Zenon
    <3> QED BY <1>6, <2>1, <3>1, ApplyClaims, Zenon
  <2>3. LifeCycle' /\ MayReturn'
    BY <1>6, <2>1, ApplyRest, Zenon
  <2> QED BY <1>6, <2>2, <2>3, NoNewClaim, Zenon
<1>7. CASE SyncIngress(s)
  <2>1. \A x \in PairsKept(s) \cup PairsMissing(s, {}, NoIdent) : x.pair.ip \in Claims(s)
    BY OldIPs, Zenon
  <2> QED BY <1>6, <1>7, <2>1, Zenon DEF SyncIngress
<1>8. CASE SyncReserve(s)
  <2>1. PICK first \in FirstMissing(s), ident \in Ident :
          /\ CheckAndReserveIP(first[1], lister[s].ports[first[2]], ident)
          /\ ApplyPairs(s, PairsKept(s) \cup PairsMissing(s, {first}, ident), FALSE)
    BY <1>8, Zenon DEF SyncReserve
  <2>2. \A x \in PairsKept(s) \cup PairsMissing(s, {first}, ident) : x.pair.ip \in Claims(s)
    BY OldIPs, Zenon
  <2>3. held \subseteq held'
    BY <2>1, Zenon DEF CheckAndReserveIP
  <2> QED BY <1>6, <1>8, <2>1, <2>2, <2>3, Zenon DEF SyncReserve
<1>9. CASE SyncCached(s)
  BY <1>6, <1>9, OldIPs, Zenon DEF SyncCached
<1>10. CASE SyncAllocate(s)
  <2>1. PICK ip \in PoolIP, ident \in Ident :
          /\ GetNewIPAddr(lister[s].ports[FirstNew(s)], ip, ident)
          /\ ApplyPairs(s, PairsCached(s) \cup PairsNew(s, ip, ident),
                        lbCache[s].pairs = {})
    BY <1>10, Zenon DEF SyncAllocate
  <2>2. /\ ident = NoIdent /\ held' = held \cup {<<ip, NoIdent>>}
        /\ <<ip, NoIdent>> \notin held
    BY <2>1, Zenon DEF UniqueEnv, GetNewIPAddr, NewIdent, IPAMIdent, Free, Ident
  <2>3. \A t \in Service : ip \notin Claims(t)
    BY <2>2, Zenon DEF ClaimsHeld
  <2>4. w.pc = "idle" /\ lister[s].st = "live" /\ UNCHANGED <<api, lister>>
    BY <1>10, Zenon DEF SyncAllocate, SyncService, Take
  <2>5. \A x \in PairsNew(s, ip, ident) : x.pair.ip = ip
    BY DEF PairsNew
  <2>6. /\ \A t \in Service \ {s} : Claims(t)' \subseteq Claims(t)
        /\ Claims(s)' \subseteq Claims(s) \cup {ip}
    <3>1. \A x \in PairsCached(s) \cup PairsNew(s, ip, ident) :
            x.pair.ip \in Claims(s) \cup {ip}
      BY <2>5, OldIPs, Zenon
    <3> QED BY <2>1, <2>4, <3>1, ApplyClaims
  <2>7. ClaimsHeld'
    BY <2>2, <2>6, Zenon DEF ClaimsHeld
  <2>8. ClaimsDisjoint'
    BY <2>3, <2>6 DEF ClaimsDisjoint
  <2>9. ASSUME lbCache[s].pairs = {}, NEW x \in PairsCached(s) \cup PairsNew(s, ip, ident)
        PROVE  x.pair.ip \notin api[s].ingress \cup lister[s].ingress
    <3>1. PairsCached(s) = {}
      BY <2>9, Zenon DEF PairsCached, NewPorts, HasPort
    <3>2. x.pair.ip = ip
      BY <2>5, <3>1, Zenon
    <3> QED BY <2>3, <3>2, Zenon DEF Claims
  <2>10. (lbCache[s].pairs = {}) \in BOOLEAN
    BY Zenon
  <2>11. LifeCycle' /\ MayReturn'
    BY <2>1, <2>4, <2>9, <2>10, ApplyRest, Zenon
  <2> QED BY <2>7, <2>8, <2>11, Zenon
<1> QED BY <1>1, <1>2, <1>4, <1>5, <1>7, <1>8, <1>9, <1>10, Zenon DEF Sync

LEMMA UniqueEnvironment ==
  ASSUME UniqueEnv, TypeOK, UniqueInv, Environment
  PROVE  UniqueInv'
<1> USE DEF UniqueInv
<1>1. ASSUME NEW s \in Service, NEW o \in SvcObj,
             api' = [api EXCEPT ![s] = o],
             o.ingress \subseteq api[s].ingress,
             o.st # "live" => o.ingress = {},
             o.st # "unborn",
             lister[s].st = "gone" => o.st = "gone",
             UNCHANGED <<lister, held, lbCache, w>>
      PROVE  UniqueInv'
  <2>1. \A t \in Service : Claims(t)' \subseteq Claims(t)
    BY <1>1, Zenon DEF Claims, ListIPs, TypeOK
  <2>2. LifeCycle'
    BY <1>1, Zenon DEF LifeCycle, TypeOK
  <2>3. MayReturn'
    <3>1. w.pc # "idle" => (api[w.svc].ingress)' \subseteq api[w.svc].ingress
      BY <1>1, Zenon DEF TypeOK, Worker
    <3>2. ListIPs(w.svc)' = ListIPs(w.svc)
      BY <1>1, Zenon DEF ListIPs
    <3>3. ASSUME w.pc \in {"delete", "install"}, w.fresh, w.todo = w.list
          PROVE  (ListIPs(w.svc) \cap (api[w.svc].ingress \cup lister[w.svc].ingress))' = {}
      <4>1. ListIPs(w.svc) \cap (api[w.svc].ingress \cup lister[w.svc].ingress) = {}
        BY <3>3, Zenon DEF MayReturn
      <4> QED BY <1>1, <3>1, <3>2, <3>3, <4>1, Zenon
    <3> QED BY <1>1, <3>3, Zenon DEF MayReturn
  <2> QED BY <1>1, <2>1, <2>2, <2>3, NoNewClaim, Zenon
<1>2. ASSUME NEW s \in Service, CreateService(s)
      PROVE  UniqueInv'
  <2>1. PICK ports \in PortLists[s], mode \in Mode :
          api' = [api EXCEPT ![s] = [st |-> "live", ports |-> ports,
                                     mode |-> mode, ingress |-> {}]]
    BY <1>2, Zenon DEF CreateService
  <2>2. [st |-> "live", ports |-> ports, mode |-> mode, ingress |-> {}] \in SvcObj
    BY LoadBalancerAssumption, Zenon DEF SvcObj
  <2>3. lister[s].st # "gone"
    BY <1>2, Zenon DEF CreateService, UniqueEnv, LifeCycle
  <2> QED BY <1>1, <1>2, <2>1, <2>2, <2>3, Zenon DEF CreateService
<1>3. ASSUME NEW s \in Service, ChangeService(s)
      PROVE  UniqueInv'
  <2>1. PICK ports \in PortLists[s], mode \in Mode :
          api' = [api EXCEPT ![s].ports = ports, ![s].mode = mode]
    BY <1>3, Zenon DEF ChangeService
  <2> DEFINE o == [api[s] EXCEPT !.ports = ports, !.mode = mode]
  <2>2. /\ o \in SvcObj /\ o.ingress = api[s].ingress /\ o.st = "live"
        /\ api' = [api EXCEPT ![s] = o]
    <3>1. ports \in Seq(Port) /\ api[s] \in SvcObj /\ api[s].st = "live"
      BY <1>3, LoadBalancerAssumption, Zenon DEF ChangeService, TypeOK
    <3> QED BY <2>1, <3>1, Zenon DEF SvcObj, TypeOK
  <2>3. lister[s].st # "gone"
    BY <1>3, Zenon DEF ChangeService, LifeCycle
  <2> HIDE DEF o
  <2> QED BY <1>1, <1>3, <2>2, <2>3, Zenon DEF ChangeService
<1>4. ASSUME NEW s \in Service, DeleteService(s)
      PROVE  UniqueInv'
  <2>1. Absent("gone") \in SvcObj /\ Absent("gone").ingress = {} /\ Absent("gone").st = "gone"
    BY ConstantTypes, Zenon DEF Absent
  <2> QED BY <1>1, <1>4, <2>1, Zenon DEF DeleteService
<1>5. ASSUME NEW s \in Service, ChangeEndpoints(s)
      PROVE  UniqueInv'
  BY <1>5, UniqueUnchanged, Zenon DEF ChangeEndpoints
<1>6. CASE LateDelete
  BY <1>6, UniqueUnchanged, Zenon DEF LateDelete
<1>7. ~Restart
  BY DEF Restart, UniqueEnv, TypeOK
<1> QED BY <1>2, <1>3, <1>4, <1>5, <1>6, <1>7, Zenon DEF Environment

(* The worker goes idle: what it had listed is claimed no more. *)
LEMMA UniqueIdle ==
  ASSUME TypeOK, w' = Idle, NEW s \in Service
  PROVE  ListIPs(s)' = {} /\ MayReturn'
BY LoadBalancerAssumption, Zenon DEF Idle, ListIPs, MayReturn

LEMMA UniqueDeleted ==
  ASSUME UniqueEnv, TypeOK, UniqueInv, w.pc = "delete", Deleted(w.svc),
         UNCHANGED <<api, lister>>
  PROVE  UniqueInv'
<1> USE DEF UniqueInv
<1>s. PICK s \in Service : s = w.svc
  BY Zenon DEF TypeOK, Worker
<1>0. s = w.svc /\ s # None /\ lbCache[s] \in LbCacheEntry
  BY <1>s, LoadBalancerAssumption, Zenon DEF TypeOK
<1>1. CASE w.then = "release"
  <2>1. /\ held' = AfterReturn({Token(p) : p \in {q \in lbCache[s].pairs : q.inRange}})
        /\ lbCache' = [lbCache EXCEPT ![s] = NotCached]
        /\ w' = Idle
    BY <1>0, <1>1, Zenon DEF Deleted
  <2>2. /\ lister[s].st = "gone" /\ api[s].st = "gone"
        /\ lister[s].ingress = {} /\ api[s].ingress = {}
    BY <1>0, <1>1, Zenon DEF MayReturn, LifeCycle
  <2>3. \A t \in Service : ListIPs(t)' = {}
    BY <2>1, UniqueIdle, Zenon
  <2>4. Claims(s)' = {}
    BY <1>0, <2>1, <2>2, <2>3, Zenon DEF Claims, NotCached, TypeOK
  <2>5. \A t \in Service : Claims(t)' \subseteq Claims(t)
    BY <1>0, <2>1, <2>3, <2>4, Zenon DEF Claims, TypeOK
  <2>6. \A h \in {Token(p) : p \in {q \in lbCache[s].pairs : q.inRange}} : h[1] \in Claims(s)
    BY DEF Token, Claims
  <2>7. ClaimsHeld' /\ ClaimsDisjoint'
    BY <1>0, <2>1, <2>4, <2>5, <2>6, ReturnOwn, Zenon
  <2>8. LifeCycle'
    BY <1>0, <2>1, <2>2, LoadBalancerAssumption, Zenon DEF LifeCycle, Idle, NotCached, TypeOK
  <2> QED BY <1>0, <2>1, <2>7, <2>8, UniqueIdle, Zenon
<1>2. CASE w.then = "drain"
  <2>1. /\ lbCache' = [lbCache EXCEPT ![s] = [lbCache[s] EXCEPT !.eps = None]]
        /\ w' = Idle /\ held' = held
    BY <1>0, <1>2, Zenon DEF Deleted
  <2>2. \A t \in Service : /\ lbCache'[t].pairs = lbCache[t].pairs
                          /\ lbCache'[t].added = lbCache[t].added
    BY <1>0, <2>1, Zenon DEF TypeOK, LbCacheEntry
  <2>3. \A t \in Service : Claims(t)' \subseteq Claims(t)
    BY <2>1, <2>2, UniqueIdle, Zenon DEF Claims
  <2>4. LifeCycle'
    BY <2>1, <2>2, LoadBalancerAssumption DEF LifeCycle, Idle
  <2> QED BY <1>0, <2>1, <2>3, <2>4, NoNewClaim, UniqueIdle, Zenon
<1>3. CASE w.then = "install"
  <2>1. /\ lbCache' = [lbCache EXCEPT ![s] = ClearPairs(lbCache[s])]
        /\ w' = Installing(s, w.list, w.eps, w.fresh)
        /\ held' = held
    BY <1>0, <1>3, Zenon DEF Deleted
  <2>2. /\ ClearPairs(lbCache[s]).pairs = {}
        /\ ClearPairs(lbCache[s]).added = lbCache[s].added
    BY <1>0, Zenon DEF ClearPairs, LbCacheEntry
  <2>3. \A t \in Service : /\ lbCache'[t].pairs \subseteq lbCache[t].pairs
                          /\ lbCache'[t].added = lbCache[t].added
    BY <1>0, <2>1, <2>2, Zenon DEF TypeOK
  <2>4. /\ w'.svc = w.svc /\ w'.list = w.list /\ w'.todo = w.list
        /\ w'.fresh = w.fresh /\ w'.pc = "install"
    BY <1>0, <2>1, Zenon DEF Installing
  <2>5. \A t \in Service : ListIPs(t)' = ListIPs(t)
    BY <2>4, Zenon DEF ListIPs
  <2>6. \A t \in Service : Claims(t)' \subseteq Claims(t)
    BY <2>3, <2>5, Zenon DEF Claims
  <2>7. LifeCycle'
    BY <2>3, <2>4 DEF LifeCycle
  <2>8. MayReturn'
    <3>1. ASSUME w.fresh
          PROVE  /\ (lbCache[w.svc].pairs)' = {}
                 /\ (ListIPs(w.svc) \cap (api[w.svc].ingress \cup lister[w.svc].ingress))' = {}
      <4>1. ListIPs(w.svc) \cap (api[w.svc].ingress \cup lister[w.svc].ingress) = {}
        BY <3>1, Zenon DEF MayReturn
      <4>2. ListIPs(w.svc)' = ListIPs(w.svc)
        BY <2>4, Zenon DEF ListIPs
      <4>3. (lbCache[w.svc].pairs)' = {}
        BY <1>0, <2>1, <2>2, <2>4, Zenon DEF TypeOK
      <4> QED BY <2>4, <4>1, <4>2, <4>3, Zenon
    <3> QED BY <2>4, <3>1, Zenon DEF MayReturn
  <2> QED BY <2>1, <2>6, <2>7, <2>8, NoNewClaim, Zenon
<1> QED BY <1>1, <1>2, <1>3, Zenon DEF TypeOK, Worker

LEMMA UniqueWork ==
  ASSUME UniqueEnv, TypeOK, TypeOK', UniqueInv,
         \/ DeleteOK      \/ DeleteError
         \/ InstallLB     \/ InstallError
         \/ UpdateService \/ UpdateServiceError
  PROVE  UniqueInv'
<1> USE DEF UniqueInv
<1>0. PICK s \in Service : s = w.svc
  <2>1. w.pc # "idle"
    BY Zenon DEF DeleteOK, DeleteError, InstallLB, InstallError, UpdateService,
           UpdateServiceError
  <2> QED BY <2>1, Zenon DEF TypeOK, Worker
<1>i. s # None /\ lbCache[s].added
  BY <1>0, LoadBalancerAssumption DEF LifeCycle
<1>1. CASE DeleteOK
  BY <1>1, UniqueDeleted, Zenon DEF DeleteOK
<1>2. ASSUME w' = Idle, UNCHANGED <<lister, held, lbCache>>,
             \/ api' = api
             \/ /\ api[s].st = "live"
                /\ api' = [api EXCEPT ![s].ingress = @ \cup {x.pair.ip : x \in w.list}]
      PROVE  UniqueInv'
  <2>1. /\ \A t \in Service : api'[t].st = api[t].st
        /\ \A t \in Service \ {s} : api'[t].ingress = api[t].ingress
        /\ api'[s].ingress \subseteq api[s].ingress \cup ListIPs(s)
        /\ api[s].st # "live" => api'[s].ingress = api[s].ingress
    <3>1. CASE api' = api
      BY <3>1, Zenon
    <3>2. CASE api[s].st = "live" /\ api' # api
      <4>1. api' = [api EXCEPT ![s] = [api[s] EXCEPT !.ingress = @ \cup ListIPs(s)]]
        BY <1>0, <1>2, <3>2, Zenon DEF ListIPs
      <4>2. api[s] \in SvcObj
        BY Zenon DEF TypeOK
      <4> QED BY <3>2, <4>1, <4>2, Zenon DEF TypeOK, SvcObj
    <3> QED BY <1>2, <3>1, <3>2, Zenon
  <2>2. \A t \in Service : Claims(t)' \subseteq Claims(t)
    BY <1>2, <2>1, UniqueIdle, Zenon DEF Claims
  <2>3. LifeCycle'
    BY <1>2, <2>1, LoadBalancerAssumption DEF LifeCycle, Idle
  <2> QED BY <1>2, <2>2, <2>3, NoNewClaim, UniqueIdle, Zenon
<1>3. CASE DeleteError
  <2>1. CASE w.then = "install"
    BY <1>3, <2>1, UniqueDeleted, Zenon DEF DeleteError
  <2>2. CASE w.then # "install"
    BY <1>2, <1>3, <2>2, Zenon DEF DeleteError
  <2> QED BY <2>1, <2>2, Zenon
<1>4. CASE InstallLB
  <2>1. PICK x \in NextPair :
          /\ lbCache' = [lbCache EXCEPT ![w.svc].pairs = @ \cup {x.pair},
                                        ![w.svc].eps = w.eps]
          /\ w' = [w EXCEPT !.todo = @ \ {x},
                            !.pc = IF w.todo = {x} THEN "status" ELSE "install"]
    BY <1>4, Zenon DEF InstallLB
  <2>2. /\ x \in w.todo /\ x \in w.list /\ x.pair.ip \in ListIPs(s)
    BY <1>0, Zenon DEF NextPair, MayReturn, ListIPs
  <2>3. /\ w'.svc = w.svc /\ w'.list = w.list /\ w'.todo = w.todo \ {x}
        /\ w'.pc \in {"status", "install"}
    BY <2>1, Zenon DEF TypeOK, Worker
  <2>4. /\ \A t \in Service \ {s} : lbCache'[t] = lbCache[t]
        /\ lbCache'[s].pairs = lbCache[s].pairs \cup {x.pair}
        /\ lbCache'[s].added = lbCache[s].added
    BY <1>0, <2>1 DEF TypeOK, LbCacheEntry
  <2>5. \A t \in Service : ListIPs(t)' = ListIPs(t)
    BY <2>3, Zenon DEF ListIPs
  <2>6. UNCHANGED <<api, lister, held>>
    BY <1>4, Zenon DEF InstallLB
  <2>7. \A t \in Service : Claims(t)' \subseteq Claims(t)
    BY <2>2, <2>4, <2>5, <2>6, Zenon DEF Claims
  <2>8. LifeCycle'
    BY <2>3, <2>4, <2>6, Zenon DEF LifeCycle
  <2>9. MayReturn'
    BY <2>2, <2>3, Zenon DEF MayReturn
  <2> QED BY <2>6, <2>7, <2>8, <2>9, NoNewClaim, Zenon
<1>5. CASE InstallError
  <2>1. w.fresh /\ w.todo = w.list /\ w.pc = "install"
    BY <1>5, Zenon DEF InstallError, Stage, UniqueEnv
  <2>2. /\ lbCache[s].pairs = {}
        /\ ListIPs(s) \cap (api[s].ingress \cup lister[s].ingress) = {}
    BY <1>0, <2>1, Zenon DEF MayReturn
  <2> DEFINE S == {Token(x.pair) : x \in {y \in w.list : y.pair.inRange /\ y.allocd}}
  <2>3. PICK T : T = S
    BY Zenon
  <2>4. held' = AfterReturn(T) /\ w' = Idle /\ UNCHANGED <<api, lister, lbCache>>
    BY <1>5, <2>3, Zenon DEF InstallError
  <2>5. \A h \in T : h[1] \in ListIPs(s)
    BY <1>0, <2>3 DEF Token, ListIPs
  <2>6. \A t \in Service : ListIPs(t)' = {}
    BY <2>4, UniqueIdle, Zenon
  <2>7. \A t \in Service : Claims(t)' \subseteq Claims(t)
    BY <2>4, <2>6, Zenon DEF Claims
  <2>8. \A h \in T : h[1] \in Claims(s) /\ h[1] \notin Claims(s)'
    BY <2>2, <2>4, <2>5, <2>6, Zenon DEF Claims
  <2> HIDE DEF S
  <2>9. ClaimsHeld' /\ ClaimsDisjoint'
    BY <2>4, <2>7, <2>8, ReturnOwn, Zenon
  <2>10. LifeCycle'
    BY <2>4, LoadBalancerAssumption DEF LifeCycle, Idle
  <2> QED BY <2>4, <2>9, <2>10, UniqueIdle, Zenon
<1>6. CASE UpdateService
  BY <1>0, <1>2, <1>6, Zenon DEF UpdateService
<1>7. CASE UpdateServiceError
  BY <1>2, <1>7, Zenon DEF UpdateServiceError
<1> QED BY <1>1, <1>3, <1>4, <1>5, <1>6, <1>7, Zenon

(* What a service claims (in the cache, in a sync under way, in its status)   *)
(* the pool holds for it alone, and no step of a sync hands back what is     *)
(* still claimed.                                                           *)
THEOREM ClaimsAreExclusive ==
  ASSUME UniqueEnv
  PROVE  Spec => []UniqueInv
<1>1. Init => UniqueInv
  <2> SUFFICES ASSUME Init PROVE UniqueInv
    BY Zenon
  <2>1. \A s \in Service : Claims(s) = {}
    BY Zenon DEF Init, Claims, ListIPs, Absent, NotCached, Idle
  <2>2. LifeCycle
    BY LoadBalancerAssumption, Zenon DEF Init, LifeCycle, Absent, NotCached, Idle
  <2>3. MayReturn
    BY Zenon DEF Init, MayReturn, Idle
  <2> QED BY <2>1, <2>2, <2>3, Zenon DEF UniqueInv, ClaimsHeld, ClaimsDisjoint
<1>2. TypeOK /\ TypeOK' /\ UniqueInv /\ [Next]_vars => UniqueInv'
  <2>1. CASE UNCHANGED vars
    BY <2>1, UniqueUnchanged, Zenon DEF vars
  <2> QED BY <2>1, UniqueEnvironment, UniqueSync, UniqueWork, Zenon DEF Next
<1> QED BY <1>1, <1>2, TypeCorrect, PTL DEF Spec

(* An IP of a pool that is not shared is cached for and advertised by one   *)
(* service only, however the syncs interleave with the users, the informer, *)
(* the endpoints, failing and late deletes, refused and lost calls.         *)
THEOREM ServiceIPsAreUnique ==
  ASSUME UniqueEnv
  PROVE  Spec => []UniqueServiceIP
<1>1. UniqueInv => UniqueServiceIP
  BY Zenon DEF UniqueInv, UniqueServiceIP, ClaimsDisjoint, Claims, Addresses
<1> QED BY <1>1, ClaimsAreExclusive, PTL

=============================================================================
