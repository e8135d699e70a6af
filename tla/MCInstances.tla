---------------------------- MODULE MCInstances ----------------------------
(* LoxiURL in five environments, BGPMesh, Metadata and AgentLoop, whose constants *)
(* and variables this module has, for TLC.  A behaviour belongs to one of these    *)
(* parts; a component that is not its part stays in its initial state.            *)
EXTENDS AgentLoop

CONSTANTS n1, n2, u1, u2, u3,  \* LoxiURL objects and URLs
          h1, h2, p, x,        \* hosts, the last an external peer
          None

VARIABLES
  part,
  crd, edits, queue, worker, urlClients, crdControlOn, ipPoolTbl, loxiInstAddrMap, urlLife, status,
  hostUp, hostDowns, hostAlive, pool, gone, alive, purged, hostBGPCfg, neigh,
  services, pods, nodes, reachable, meta, w, moves, crashes

urlVars ==
  <<crd, edits, queue, worker, urlClients, crdControlOn, ipPoolTbl, loxiInstAddrMap, urlLife, status>>
meshVars == <<hostUp, hostDowns, hostAlive, pool, gone, alive, purged, hostBGPCfg, neigh>>
metaVars == <<services, pods, nodes, reachable, meta, w, moves, crashes>>
allVars == <<part, urlVars, meshVars, metaVars, vars>>

(* Objects with lists of URLs are updated, one edit at a time. *)
Changes == INSTANCE LoxiURL WITH
  Name <- {n1, n2}, PoolName <- {}, HostName <- {}, OtherZone <- {}, URL <- {u1, u2, u3}, Bad <- {},
  Configured <- {u1}, ZeroCIDR <- FALSE, Lists <- {{u1, u2}, {u3}}, Updates <- TRUE,
  Overlap <- FALSE, Paced <- TRUE, MaxEdits <- 5,
  clients <- urlClients, life <- urlLife

(* Lists grow, shrink and overlap, also while earlier edits are handled. *)
Grows == INSTANCE LoxiURL WITH
  Name <- {n1, n2}, PoolName <- {}, HostName <- {}, OtherZone <- {}, URL <- {u1, u2, u3}, Bad <- {},
  Configured <- {u1}, ZeroCIDR <- FALSE, Lists <- {{u1}, {u1, u2}, {u2, u3}}, Updates <- TRUE,
  Overlap <- TRUE, Paced <- FALSE, MaxEdits <- 3,
  clients <- urlClients, life <- urlLife

(* Two objects list one URL. *)
Overlaps == INSTANCE LoxiURL WITH
  Name <- {n1, n2}, PoolName <- {}, HostName <- {}, OtherZone <- {}, URL <- {u1, u2, u3}, Bad <- {},
  Configured <- {u1}, ZeroCIDR <- FALSE, Lists <- {{u1, u2}, {u3}}, Updates <- FALSE,
  Overlap <- TRUE, Paced <- TRUE, MaxEdits <- 5,
  clients <- urlClients, life <- urlLife

(* Objects of type cidrpool, with a CIDR that does not parse and another zone. *)
Pools == INSTANCE LoxiURL WITH
  Name <- {n1, n2}, PoolName <- {n1, n2}, HostName <- {}, OtherZone <- {n2}, URL <- {u1, u2, u3},
  Bad <- {u2}, Configured <- {}, ZeroCIDR <- FALSE, Lists <- {}, Updates <- FALSE,
  Overlap <- TRUE, Paced <- TRUE, MaxEdits <- 4,
  clients <- urlClients, life <- urlLife

(* Objects of type hostcidr, while services show their addresses. *)
HostCIDRs == INSTANCE LoxiURL WITH
  Name <- {n1, n2}, PoolName <- {}, HostName <- {n1, n2}, OtherZone <- {}, URL <- {u1, u2, u3},
  Bad <- {u3}, Configured <- {u1}, ZeroCIDR <- TRUE, Lists <- {}, Updates <- FALSE,
  Overlap <- TRUE, Paced <- TRUE, MaxEdits <- 4,
  clients <- urlClients, life <- urlLife

Mesh == INSTANCE BGPMesh WITH
  Host <- {h1, h2, p}, Peer <- {p}, ExtPeer <- {x}, Overtake <- FALSE, MaxDown <- 1,
  up <- hostUp, downs <- hostDowns, isAlive <- hostAlive, doBGPCfg <- hostBGPCfg

Service(n, ours, sel, ingress) == [name |-> n, ours |-> ours, selector |-> sel, ingress |-> ingress]
OneNode == {[name |-> "n1", bare |-> FALSE]}
OurServices == {Service("s1", TRUE, "app", "ip"), Service("s3", TRUE, "db", "ip")}

(* Two instances, of which the second does not answer. *)
Meta == INSTANCE Metadata WITH
  Clients <- <<"i1", "i2">>, Hanging <- {"i2"}, MaxEdits <- 2, MaxCrashes <- 1,
  ServiceSets <- {OurServices, {Service("s1", TRUE, "app", "none"), Service("s2", FALSE, None, "none")}},
  PodSets <- {{[name |-> "p1", label |-> "app"], [name |-> "p2", label |-> "db"]},
              {[name |-> "p2", label |-> "app"]}, {}},
  NodeSets <- {OneNode, OneNode \cup {[name |-> "n2", bare |-> FALSE]}},
  alive <- reachable, edits <- moves

AllInit ==
  /\ part \in {"changes", "grows", "overlaps", "pools", "hosts", "mesh", "meta", "finds"}
  /\ IF part = "pools" THEN Pools!Init ELSE HostCIDRs!Init
  /\ Mesh!Init
  /\ Meta!Init
  /\ Init
  /\ part # "meta" => services = OurServices /\ pods = {} /\ nodes = OneNode

AllNext ==
  \/ part = "changes" /\ Changes!Next /\ UNCHANGED <<part, meshVars, metaVars, vars>>
  \/ part = "grows" /\ Grows!Next /\ UNCHANGED <<part, meshVars, metaVars, vars>>
  \/ part = "overlaps" /\ Overlaps!Next /\ UNCHANGED <<part, meshVars, metaVars, vars>>
  \/ part = "pools" /\ Pools!Next /\ UNCHANGED <<part, meshVars, metaVars, vars>>
  \/ part = "hosts" /\ HostCIDRs!Next /\ UNCHANGED <<part, meshVars, metaVars, vars>>
  \/ part = "mesh" /\ Mesh!Next /\ UNCHANGED <<part, urlVars, metaVars, vars>>
  \/ part = "meta" /\ Meta!Next /\ UNCHANGED <<part, urlVars, meshVars, vars>>
  \/ part = "finds" /\ Next /\ UNCHANGED <<part, urlVars, meshVars, metaVars>>

(* The behaviour is one of the part, which never changes. *)
Of(name) == []<>(part = name)

(* The fairness of the part that moves.  That of LoxiURL does not depend on the  *)
(* environment, and without objects it asks for nothing.                       *)
AllFairness ==
  /\ Changes!Fairness
  /\ \/ Of("mesh") /\ Mesh!Fairness
     \/ Of("meta") /\ Meta!Fairness
     \/ ~Of("mesh") /\ ~Of("meta")

AllSpec == AllInit /\ [][AllNext]_allVars /\ AllFairness

(* The agent follows the LoxiURL objects.  Every URL that is listed gets a client  *)
(* again and again, however lists are edited.  When objects are edited one by one,  *)
(* each to a list with nothing or everything of the one before, the clients are in  *)
(* the end those of the URLs listed, although addLoxiLBURL and deleteLoxiLBURL each  *)
(* look at one object only and two may list one URL; the pools are those of the     *)
(* objects of type cidrpool, retried or not; and services on a 0.0.0.0 pool show    *)
(* the addresses of the objects of type hostcidr, so the worker and the life-cycle   *)
(* goroutine do not block each other.                                              *)
ObjectsFollowed ==
  /\ Of("grows") => Grows!ListedGetClients
  /\ Of("changes") \/ Of("overlaps") => Changes!ClientsFollowCRDs
  /\ Of("pools") => Pools!PoolsFollowCRDs
  /\ Of("hosts") => HostCIDRs!HostsShown

(* Two instances that stay up and in the pools, not both peering only, are in    *)
(* the end neighbours of each other, although either may have been down while    *)
(* the other was configured.                                                   *)
MeshForms == Of("mesh") => Mesh!MeshForms

(* Every instance that answers is in the end told what the cluster is, although  *)
(* the worker reads the caches at different moments and instances crash.         *)
MetadataArrives == Of("meta") => Meta!MetadataArrives
=============================================================================
