----------------------------- MODULE Endpoints -----------------------------
(***************************************************************************)
(* The endpoints of a load-balancer rule: which addresses and ports        *)
(* getEndpoints and makeLoxiLoadBalancerModel take from the cluster, and   *)
(* whether checkUpdateEndpoints notices that the cluster has changed.      *)
(*                                                                         *)
(* One service, one rule.  The nodes and the endpoint slices are read from *)
(* the informers' caches, the pods from the API server.  The node cache is *)
(* the cluster's state here (a late node event is a later edit); the slice *)
(* cache lags behind the pods, which it is compared with.                  *)
(*                                                                         *)
(* An address is <<family, owner>>.  The instance replaces a rule's        *)
(* endpoints by the ones of a new request.  Failing instances and the      *)
(* allocation of the address are in LoadBalancer.                          *)
(***************************************************************************)
EXTENDS Naturals, Sequences, FiniteSets, SequencesExt

CONSTANTS
  Node, Pod,
  NodeAddrs,    \* node -> its status addresses, in order: [type, ip]
  PodAddrs,     \* pod -> the set of its addresses
  Hosted,       \* a pod may be in its node's network: a subset of BOOLEAN
  Networks,     \* the network annotations a pod may have: [form, list]
  Statuses,     \* the network-status annotations a pod may get: "good", "bad" (no JSON)
  Services,     \* [mode, fam, label, named, nets]
  PodPort,      \* the container ports the pods' port name may stand for
  None,
  ApiErrors,    \* a List call to the API server may fail
  MaxEdits

VARIABLES
  node,    \* node -> [ready, label, excl]
  pod,     \* pod -> None or [on, host, ready, port, nets, status]
  slices,  \* what the lister has: pod -> None or [ready, port, ips]
  svc,     \* the service, [mode, fam, label, named, nets]
  cached,  \* endpoints of the model in lbCache; None without service pairs
  added,   \* the service is in lbCache
  rule,    \* the endpoints the instance has, <<>> without the rule
  todo,    \* what getEndpoints returned to a sync under way, or None
  settled, \* the last sync saw the cluster as it is
  edits

vars == <<node, pod, slices, svc, cached, added, rule, todo, settled, edits>>

InFamily(fam, ip) == ip[1] = IF fam = "ipv6" THEN "v6" ELSE "v4"

SelectIn(fam, S) == {ip \in S : InFamily(fam, ip)}

-----------------------------------------------------------------------------
(* Addresses of nodes. *)

(* At most one address: none of a node that is not ready or has none of the *)
(* family.                                                                  *)
GetNodeAddress(n, fam) ==
  LET addrs    == NodeAddrs[n]
      internal == SelectSeq(addrs, LAMBDA a : a.type = "InternalIP" /\ InFamily(fam, a.ip))
  IN  CASE ~node[n].ready \/ addrs = <<>> -> {}
        [] node[n].ready /\ internal # <<>> -> {internal[1].ip}
        [] OTHER -> SelectIn(fam, {addrs[1].ip})

AddressesOf(N, fam) == UNION {GetNodeAddress(n, fam) : n \in N}

GetNodeEndpointsWithLabel(fam) == AddressesOf({n \in Node : node[n].label}, fam)

Deadbeef == <<"xdeadbeefx", None>>

(* The empty list stands for no restriction, so that a label no node has is *)
(* a list with an address that no node has.                                 *)
MatchList(s) ==
  LET labelled == GetNodeEndpointsWithLabel(s.fam)
  IN  CASE ~s.label -> {}
        [] s.label /\ labelled = {} -> {Deadbeef}
        [] OTHER -> labelled

MatchNodeInNodeList(ip, list) == list = {} \/ ip \in list

GetNodeEndpoints(s) ==
  {ip \in AddressesOf({n \in Node : ~node[n].excl}, s.fam) :
     MatchNodeInNodeList(ip, MatchList(s))}

-----------------------------------------------------------------------------
(* Addresses of pods. *)

Listed == {p \in Pod : pod[p] # None}

(* status.hostIPs of a pod on n: the internal addresses of the node. *)
HostIPs(n) == SelectSeq(NodeAddrs[n], LAMBDA a : a.type = "InternalIP")

(* An IPv6 service looks for a v6 host address; any other one takes         *)
(* hostIP, the first, whatever its family is.                               *)
HostIP(n, fam) ==
  LET wanted == IF fam = "ipv6" THEN SelectSeq(HostIPs(n), LAMBDA a : InFamily(fam, a.ip))
                                ELSE HostIPs(n)
  IN  IF wanted = <<>> THEN {} ELSE {wanted[1].ip}

GetServiceLocalEndpoints(s) ==
  {ip \in UNION {HostIP(pod[p].on, s.fam) : p \in Listed} :
     MatchNodeInNodeList(ip, MatchList(s))}

SliceReady(p) == slices[p] # None /\ slices[p].ready

(* The node list is not looked at: slices have addresses of pods. *)
GetServiceEndPointsWithLister(s) ==
  SelectIn(s.fam, UNION {slices[p].ips : p \in {q \in Pod : SliceReady(q)}})

GetServiceEndPointsPortsWithLister ==
  {slices[p].port : p \in {q \in Pod : slices[q] # None}}

-----------------------------------------------------------------------------
(* Addresses of pods in secondary (Multus) networks.  An entry of a network *)
(* annotation is [ns, pre, name]: the JSON field "namespace", the part of   *)
(* the name before a slash, the rest ("" if missing).  The service and its  *)
(* pods live in the namespace "default".                                    *)

SvcNs == "default"

NoNetwork == [ns |-> "", pre |-> "", name |-> "unparsable"]

PlainNames(list) == SelectSeq(list, LAMBDA e : e.name # "")

(* What can be read neither as JSON nor as a list of names counts as one    *)
(* name.                                                                    *)
UnmarshalNetworkList(a) ==
  CASE a.form = "json" -> a.list
    [] a.form = "plain" /\ PlainNames(a.list) # <<>> -> PlainNames(a.list)
    [] OTHER -> <<NoNetwork>>

PodMultusNetName(e) ==
  <<CASE e.ns # "" -> e.ns
      [] e.ns = "" /\ e.pre # "" -> e.pre
      [] OTHER -> SvcNs, e.name>>

InNetList(nets, name) ==
  \E i \in DOMAIN nets : name = <<IF nets[i].pre = "" THEN SvcNs ELSE nets[i].pre, nets[i].name>>

(* External: Multus attaches the pod to the networks of its annotation, one *)
(* interface per entry, and reports the addresses in network-status.        *)
NetworkStatus(p) ==
  LET a    == pod[p].nets
      list == IF a.form = "broken" THEN <<>> ELSE PlainNames(a.list)
  IN  [i \in DOMAIN list |->
         [name |-> <<CASE list[i].ns # "" -> list[i].ns
                       [] list[i].ns = "" /\ list[i].pre # "" -> list[i].pre
                       [] OTHER -> SvcNs, list[i].name>>,
          ip   |-> <<"v4", <<p, i>>>>]]

StatusIPs(p, name, fam) ==
  LET found == SelectSeq(NetworkStatus(p), LAMBDA e : e.name = name /\ InFamily(fam, e.ip))
  IN  [i \in DOMAIN found |-> found[i].ip]

PodMultusEndpoints(p, s) ==
  LET nets == UnmarshalNetworkList(pod[p].nets)
      each == [i \in DOMAIN nets |->
                 IF InNetList(s.nets, PodMultusNetName(nets[i]))
                   THEN StatusIPs(p, PodMultusNetName(nets[i]), s.fam) ELSE <<>>]
  IN  FlattenSeq(each)

(* Pods in their node's network, without annotation or whose network-status *)
(* is not written yet are passed over.                                      *)
InspectedPods ==
  SelectSeq(SetToSeq(Pod), LAMBDA p : /\ p \in Listed /\ ~pod[p].host
                                      /\ pod[p].nets # None /\ pod[p].status # None)

(* A network-status that cannot be parsed ends the loop with an error.      *)
Malformed == \E i \in DOMAIN InspectedPods : pod[InspectedPods[i]].status = "bad"

(* What is found before it is returned with the error. *)
GetMultusEndpoints(s) ==
  LET bad  == SelectInSeq(InspectedPods, LAMBDA p : pod[p].status = "bad")
      pods == IF bad = 0 THEN InspectedPods ELSE SubSeq(InspectedPods, 1, bad - 1)
  IN  FlattenSeq([i \in DOMAIN pods |-> PodMultusEndpoints(pods[i], s)])

-----------------------------------------------------------------------------
(* getEndpoints, and the ports makeLoxiLoadBalancerModel adds. *)

GetEndpoints(s) ==
  CASE s.mode = "multus"        -> GetMultusEndpoints(s)
    [] s.mode \in {"pod", "ext"} -> SetToSeq(GetServiceEndPointsWithLister(s))
    [] s.mode = "local"         -> SetToSeq(GetServiceLocalEndpoints(s))
    [] s.mode = "node"          -> SetToSeq(GetNodeEndpoints(s))

ListsPods(s) == s.mode \in {"multus", "local"}

(* The pod whose port a name stands for: the first one the API server lists *)
(* (by name), ready or not.                                                 *)
FirstListed == SelectSeq(SetToSeq(Pod), LAMBDA p : p \in Listed)

(* The service's numeric target port and its node port are ports of their   *)
(* own; no port at all is the error "not found port name".                  *)
GetServicePortIntValue(s) ==
  CASE ~s.named -> {"target"}
    [] s.named /\ Listed # {} -> {pod[FirstListed[1]].port}
    [] OTHER -> {}

TargetPorts(s) ==
  CASE s.mode \in {"multus", "pod"} -> GetServicePortIntValue(s)
    [] s.mode = "ext"  -> GetServiceEndPointsPortsWithLister
    [] OTHER -> {"node"}

EndpointModels(s, ips) ==
  LET ports == SetToSeq(TargetPorts(s))
  IN  FlattenSeq([i \in DOMAIN ips |->
        [j \in DOMAIN ports |-> [ip |-> ips[i], port |-> ports[j]]]])

CheckUpdateLength(ips) ==
  IF svc.mode = "ext" THEN Len(EndpointModels(svc, ips)) # Len(cached)
                      ELSE Len(ips) # Len(cached)

(* Has the list changed?  Ports are compared for external endpoints only.   *)
CheckUpdateEndpoints(ips) ==
  \/ CheckUpdateLength(ips)
  \/ IF svc.mode = "ext"
       THEN \E e \in ToSet(EndpointModels(svc, ips)) : e \notin ToSet(cached)
       ELSE \E i \in DOMAIN ips : \A k \in DOMAIN cached : ips[i] # cached[k].ip

-----------------------------------------------------------------------------
(* A sync of the service. *)

Unchanged == UNCHANGED <<node, pod, slices, svc, edits>>

(* External: a pod in its node's network has the node's internal addresses. *)
IPsOf(p, d) ==
  IF d.host THEN {a.ip : a \in {b \in ToSet(NodeAddrs[d.on]) : b.type = "InternalIP"}} ELSE PodAddrs[p]

SlicesOf(pods) ==
  [p \in Pod |-> IF pods[p] = None THEN None
                 ELSE [ready |-> pods[p].ready, port |-> pods[p].port, ips |-> IPsOf(p, pods[p])]]

NoActiveEndpointsCached(ok) ==
  /\ rule' = IF added /\ cached # None THEN <<>> ELSE rule
  /\ settled' = (ok /\ slices = SlicesOf(pod))
  /\ UNCHANGED <<added, cached, todo>>

(* No endpoints, or no answer: the rules of the service's pairs are deleted *)
(* and their models lose their endpoints; one not added is tried again.     *)
NoActiveEndpoints(ok) ==
  /\ rule' = IF added /\ cached # None THEN <<>> ELSE rule
  /\ cached' = IF added /\ cached # None THEN <<>> ELSE cached
  /\ settled' = (ok /\ slices = SlicesOf(pod))
  /\ UNCHANGED <<added, todo>>

(* A service that is in the cache goes on with what came with an error. *)
SyncRead ==
  /\ todo = None
  /\ LET ok  == svc.mode = "multus" => ~Malformed
         ips == GetEndpoints(svc)
     IN  IF ips = <<>> \/ (~ok /\ ~added)
           THEN NoActiveEndpoints(ok)
           ELSE /\ todo' = ips
                /\ added' = TRUE
                /\ settled' = (ok /\ slices = SlicesOf(pod))
                /\ UNCHANGED <<cached, rule>>
  /\ Unchanged

SyncReadError ==
  /\ ApiErrors
  /\ todo = None
  /\ ListsPods(svc)
  /\ NoActiveEndpoints(FALSE)
  /\ Unchanged

(* Nothing has changed, or the model is made anew and installed. *)
SyncApply ==
  /\ todo # None
  /\ IF cached # None /\ ~CheckUpdateEndpoints(todo)
       THEN UNCHANGED <<cached, rule>>
       ELSE /\ TargetPorts(svc) # {}
            /\ cached' = EndpointModels(svc, todo)
            /\ rule' = cached'
  /\ todo' = None
  /\ UNCHANGED <<added, settled>>
  /\ Unchanged

(* The model cannot be made: the pairs are gone already, the rule stays.    *)
SyncApplyError ==
  /\ todo # None
  /\ cached # None => CheckUpdateEndpoints(todo)
  /\ \/ TargetPorts(svc) = {}
     \/ ApiErrors /\ svc.named /\ svc.mode \in {"multus", "pod"}
  /\ cached' = None
  /\ todo' = None
  /\ settled' = FALSE
  /\ UNCHANGED <<added, rule>>
  /\ Unchanged

-----------------------------------------------------------------------------
(* The cluster. *)

Edit ==
  /\ edits < MaxEdits
  /\ edits' = edits + 1
  /\ settled' = FALSE
  /\ UNCHANGED <<svc, cached, added, rule, todo>>

EditNode ==
  /\ Edit
  /\ \E n \in Node, ready, label, excl \in BOOLEAN :
       node' = [node EXCEPT ![n] = [ready |-> ready, label |-> label, excl |-> excl]]
  /\ UNCHANGED <<pod, slices>>

(* A pod starts on a node; its network-status comes with its readiness. *)
StartPod ==
  /\ Edit
  /\ \E p \in Pod, n \in Node, h \in Hosted, port \in PodPort, a \in Networks :
       /\ pod[p] = None
       /\ pod' = [pod EXCEPT ![p] = [on |-> n, host |-> h, ready |-> FALSE, port |-> port,
                                     nets |-> a, status |-> None]]
  /\ UNCHANGED <<node, slices>>

(* It becomes ready, stops being so (or starts to terminate), goes away. *)
ChangePod ==
  /\ Edit
  /\ \E p \in Listed :
       \/ \E st \in Statuses : pod' = [pod EXCEPT ![p].ready = ~@, ![p].status = st]
       \/ pod' = [pod EXCEPT ![p] = None]
  /\ UNCHANGED <<node, slices>>

SlicesEvent ==
  /\ slices # SlicesOf(pod)
  /\ slices' = SlicesOf(pod)
  /\ settled' = FALSE
  /\ UNCHANGED <<node, pod, svc, cached, added, rule, todo, edits>>

Init ==
  /\ node = [n \in Node |-> [ready |-> TRUE, label |-> TRUE, excl |-> FALSE]]
  /\ pod = [p \in Pod |-> None]
  /\ slices = SlicesOf(pod)
  /\ svc \in Services
  /\ cached = None
  /\ added = FALSE
  /\ rule = <<>>
  /\ todo = None
  /\ settled = FALSE
  /\ edits = 0

Next ==
  \/ SyncRead \/ SyncReadError \/ SyncApply \/ SyncApplyError
  \/ EditNode \/ StartPod \/ ChangePod \/ SlicesEvent

Spec == Init /\ [][Next]_vars

-----------------------------------------------------------------------------
(* What the rule should send traffic to, from the cluster's state alone.    *)

(* One address of the family for each node: an internal one if it has any,  *)
(* else its first address.                                                  *)
Usable(n, fam) ==
  LET A == NodeAddrs[n]
      I == {i \in DOMAIN A : A[i].type = "InternalIP" /\ InFamily(fam, A[i].ip)}
      F == {i \in DOMAIN A : i = 1 /\ InFamily(fam, A[i].ip)}
      first(S) == {A[i].ip : i \in {k \in S : \A l \in S : k <= l}}
  IN  IF I # {} THEN first(I) ELSE first(F)

LabelAllows(n) == svc.label => node[n].label /\ node[n].ready

Attached(p, i) ==
  \E k \in DOMAIN svc.nets :
    LET e == PlainNames(pod[p].nets.list)[i]
        in == IF e.ns # "" THEN e.ns ELSE IF e.pre # "" THEN e.pre ELSE "default"
    IN  /\ svc.nets[k].name = e.name
        /\ svc.nets[k].pre = in \/ (svc.nets[k].pre = "" /\ in = "default")

Expected ==
  CASE svc.mode = "node" ->
         UNION {Usable(n, svc.fam) : n \in {m \in Node : node[m].ready /\ ~node[m].excl /\ LabelAllows(m)}}
    [] svc.mode = "local" ->
         UNION {Usable(n, svc.fam) : n \in {m \in Node : LabelAllows(m) /\ \E p \in Listed : pod[p].on = m}}
    [] svc.mode \in {"pod", "ext"} ->
         UNION {SelectIn(svc.fam, IPsOf(p, pod[p])) : p \in {q \in Listed : pod[q].ready}}
    [] svc.mode = "multus" ->
         {<<"v4", x>> : x \in UNION {{<<p, i>> : i \in {k \in DOMAIN PlainNames(pod[p].nets.list) : Attached(p, k)}}
            : p \in {q \in Listed : /\ ~pod[q].host /\ pod[q].status # None
                                    /\ pod[q].nets # None /\ pod[q].nets.form # "broken"}}}

RuleIPs == {rule[i].ip : i \in DOMAIN rule}

(* A failed update forgets the pairs first: the cache lists the rule no more. *)
Forgotten == cached = None /\ rule # <<>>

(* After a sync that saw the cluster as it is, the instance's rule sends    *)
(* traffic to exactly the addresses it should: usable and not excluded      *)
(* nodes, hosts of the service's pods under the Local policy, ready pods,   *)
(* or the pods' interfaces in the service's networks - and, with a node     *)
(* label, to labelled nodes only, to none if no node has the label.         *)
(* getEndpoints and checkUpdateEndpoints, loadbalancer.go.  A rule that an  *)
(* update forgot and did not make anew (L:1007-1021, 1072-1076) is excepted: *)
(* it stays as it is while there are no endpoints.                           *)
RuleTracksCluster == (settled /\ todo = None /\ ~Forgotten) => RuleIPs = Expected
=============================================================================
