------------------------------- MODULE MCRules -------------------------------
(* What rules the instances have, for TLC: their end points (Endpoints), their options  *)
(* (ServiceOptions) and the rules of an instance that restarts (Reinstall).  A behaviour is  *)
(* one of one component in one environment, its part; the variables of the other components  *)
(* are Off or in their initial states.  In part "again" the worker and the life cycle         *)
(* goroutine of Reinstall overlap.                                                        *)
EXTENDS Integers, Reinstall, ServiceOptions

CONSTANTS s1, Off

VARIABLES
  part,
  node, pod, slices, svc, cached, added, rule, todo, synced, changes       \* of Endpoints

endVars == <<node, pod, slices, svc, cached, added, rule, todo, synced, changes>>
reVars == <<want, queue, lbCache, rules, up, isAlive, aliveCh, w, r, late, exited, crashes, refusals>>
allVars == <<part, endVars, optionsVars, reVars>>

-----------------------------------------------------------------------------
(* Two nodes and two pods. *)
Address(t, f, n) == [type |-> t, ip |-> <<f, n>>]

(* n1 has two internal addresses, n2 an external one and no v6 address. *)
NodeAddresses ==
  [n \in {"n1", "n2"} |->
     IF n = "n1" THEN <<Address("InternalIP", "v4", n), Address("InternalIP", "v6", n)>>
     ELSE <<Address("ExternalIP", "v4", <<n, "ext">>), Address("InternalIP", "v4", n)>>]

(* n1 has an external address before its internal ones, n2 nothing else. *)
OuterAddresses ==
  [n \in {"n1", "n2"} |->
     IF n = "n1" THEN <<Address("ExternalIP", "v4", <<n, "ext">>), Address("InternalIP", "v4", n),
                        Address("InternalIP", "v6", n)>>
     ELSE <<Address("ExternalIP", "v4", n)>>]

PodAddresses == [p \in {"p1", "p2"} |-> {<<"v4", p>>, <<"v6", p>>}]

ServiceOf(mode, fam, label) ==
  [mode |-> mode, fam |-> fam, label |-> label, named |-> FALSE, nets |-> <<>>]

(* The service sends to nodes. *)
Nodes == INSTANCE Endpoints WITH
  Node <- {"n1", "n2"}, Pod <- {"p1", "p2"}, NodeAddrs <- OuterAddresses, PodAddrs <- PodAddresses,
  Hosted <- {FALSE}, Statuses <- {"good"}, Networks <- {None}, Services <- {ServiceOf("node", f, l) : f \in {"ipv4", "ipv6"}, l \in BOOLEAN},
  PodPort <- {80}, ApiErrors <- FALSE, MaxEdits <- 3,
  settled <- synced, edits <- changes

(* To the nodes of its pods. *)
Local == INSTANCE Endpoints WITH
  Node <- {"n1", "n2"}, Pod <- {"p1", "p2"}, NodeAddrs <- NodeAddresses, PodAddrs <- PodAddresses,
  Hosted <- {FALSE}, Statuses <- {"good"}, Networks <- {None}, Services <- {ServiceOf("local", f, l) : f \in {"ipv4", "ipv6"}, l \in BOOLEAN},
  PodPort <- {80}, ApiErrors <- TRUE, MaxEdits <- 4,
  settled <- synced, edits <- changes

(* To its pods, by their addresses or by the slices. *)
Pods == INSTANCE Endpoints WITH
  Node <- {"n1", "n2"}, Pod <- {"p1", "p2"}, NodeAddrs <- NodeAddresses, PodAddrs <- PodAddresses,
  Hosted <- {FALSE}, Statuses <- {"good"}, Networks <- {None},
  Services <- {ServiceOf(m, f, FALSE) : m \in {"pod", "ext"}, f \in {"ipv4", "ipv6"}}
              \cup {[ServiceOf("pod", "ipv4", FALSE) EXCEPT !.named = TRUE]},
  PodPort <- {80, 81}, ApiErrors <- FALSE, MaxEdits <- 4,
  settled <- synced, edits <- changes

(* To its pods by the name of their port, which is looked up with calls that fail. *)
Named == INSTANCE Endpoints WITH
  Node <- {"n1"}, Pod <- {"p1", "p2"}, NodeAddrs <- NodeAddresses, PodAddrs <- PodAddresses,
  Hosted <- BOOLEAN, Statuses <- {"good"}, Networks <- {None},
  Services <- {[ServiceOf("pod", "ipv4", FALSE) EXCEPT !.named = TRUE]},
  PodPort <- {80}, ApiErrors <- TRUE, MaxEdits <- 6,
  settled <- synced, edits <- changes

(* To its pods' interfaces in networks of Multus. *)
Net(pre, name) == [pre |-> pre, name |-> name]
Entry(ns, pre, name) == [ns |-> ns, pre |-> pre, name |-> name]
Multus == INSTANCE Endpoints WITH
  Node <- {"n1", "n2"}, Pod <- {"p1", "p2"}, NodeAddrs <- NodeAddresses, PodAddrs <- PodAddresses,
  Hosted <- BOOLEAN, Statuses <- {"good", "bad"}, Networks <-
    {None, [form |-> "broken", list |-> <<>>]}
    \cup {[form |-> "json", list |-> l] :
            l \in {<<Entry("", "", "a")>>, <<Entry("other", "", "a"), Entry("", "", "b")>>}}
    \cup {[form |-> "plain", list |-> l] :
            l \in {<<Entry("", "", "b"), Entry("", "", "")>>, <<Entry("", "other", "a")>>}},
  Services <- {[ServiceOf("multus", "ipv4", FALSE) EXCEPT !.nets = l, !.named = n] :
                 l \in {<<Net("", "a")>>, <<Net("other", "a"), Net("default", "b")>>}, n \in BOOLEAN},
  PodPort <- {80}, ApiErrors <- TRUE, MaxEdits <- 3,
  settled <- synced, edits <- changes

-----------------------------------------------------------------------------
(* Instances refuse rules of a service whose annotations change. *)
NoTls == [front |-> None, secret |-> FALSE, cn |-> None, verify |-> FALSE, client |-> FALSE]
Untold == {NoTls}
NoSecrets == {{}}
Few == [timeout : {None, Bad}, live : {None}, mode : {None, "fullnat"}, probe : {None, "tcp"},
        port : {None, 80}, msg : {None}, retries : {None}, sel : {None}, egress : {None, "yes"}]

(* Any two sets of annotations, one after the other, of a service with two ports. *)
TwoPorts == INSTANCE ServiceOptions WITH
  NPorts <- 2, Refuses <- FALSE,
  Annotations <- [timeout : {None, 60}, live : {None, "yes"}, mode : {None, Bad, "fullnat"},
                  probe : {None, Bad, "none", "ping", "tcp"}, port : {None, Bad, 300}, msg : {None, "m"},
                  retries : {None, 3}, sel : {None, "lc"}, egress : {None, "yes"}],
  MaxEdits <- 1

(* Mutual TLS and its Secrets; instances refuse rules. *)
WithTls == INSTANCE ServiceOptions WITH
  Annotations <- {x \in Few : x.mode = None /\ x.probe = None /\ x.port = None /\ x.timeout = None},
  FirstTls <- [front : {None, "disabled", Bad, "required"}, secret : BOOLEAN,
               cn : {None, "no pattern", "pattern"}, verify : BOOLEAN, client : BOOLEAN],
  Secrets <- {{}, {"client-ca.crt", "server.crt"}, {"server.crt", "server.key"},
              {"backend-ca.crt", "tls.crt"}, {"client-ca.crt", "backend-ca.crt", "tls.crt", "tls.key"}},
  MaxEdits <- 2

(* An instance goes on refusing a rule. *)
Refusing == INSTANCE Reinstall WITH
  Service <- {s1}, Stable <- {s1}, MaxVersion <- 1, MaxRefusals <- 3

-----------------------------------------------------------------------------
EndsOff ==
  /\ node = Off /\ pod = Off /\ slices = Off /\ svc = Off /\ cached = Off /\ added = Off
  /\ rule = Off /\ todo = Off /\ synced = Off /\ changes = Off

OptionsOff ==
  /\ ann = Off /\ tls = Off /\ secret = Off /\ entry = Off /\ pairs = Off /\ ruleOf = Off
  /\ asked = Off /\ listed = Off /\ settled = FALSE /\ edits = Off

AllInit ==
  /\ part \in {"nodes", "local", "pods", "named", "multus", "options", "tls", "refused", "again", "refusing"}
  /\ CASE part = "nodes" -> Nodes!Init [] part = "local" -> Local!Init [] part = "pods" -> Pods!Init
       [] part = "named" -> Named!Init [] part = "multus" -> Multus!Init [] OTHER -> EndsOff
  /\ CASE part = "options" -> TwoPorts!OptionsInit [] part = "tls" -> WithTls!OptionsInit
       [] part = "refused" -> OptionsInit [] OTHER -> OptionsOff
  /\ IF part = "refusing" THEN Refusing!Init ELSE Init

AllNext ==
  \/ /\ \/ part = "nodes" /\ Nodes!Next
        \/ part = "local" /\ Local!Next
        \/ part = "pods" /\ Pods!Next
        \/ part = "named" /\ Named!Next
        \/ part = "multus" /\ Multus!Next
     /\ UNCHANGED <<part, optionsVars, reVars>>
  \/ /\ \/ part = "options" /\ TwoPorts!OptionsNext
        \/ part = "tls" /\ WithTls!OptionsNext
        \/ part = "refused" /\ OptionsNext
     /\ UNCHANGED <<part, endVars, reVars>>
  \/ /\ \/ part = "again" /\ Next
        \/ part = "refusing" /\ Refusing!Next
     /\ UNCHANGED <<part, endVars, optionsVars>>

AllSpec == AllInit /\ [][AllNext]_allVars

-----------------------------------------------------------------------------
(* After a sync that saw the cluster as it is the rule sends to exactly the addresses it    *)
(* should: usable nodes, the nodes of the service's pods, its ready pods or their           *)
(* interfaces, with a node label those nodes only (getEndpoints, checkUpdateEndpoints) -      *)
(* unless an update that failed has forgotten the rule.                                     *)
RuleTracksCluster ==
  /\ part = "nodes" => Nodes!RuleTracksCluster
  /\ part = "local" => Local!RuleTracksCluster
  /\ part = "pods" => Pods!RuleTracksCluster
  /\ part = "named" => Named!RuleTracksCluster
  /\ part = "multus" => Multus!RuleTracksCluster

=============================================================================
