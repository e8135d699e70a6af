------------------------------- MODULE BGPMesh -------------------------------
(***************************************************************************)
(* The iBGP mesh that manageLoxiLbLifeCycle keeps among the loxilb instances  *)
(* (--setBGP, in-cluster discovery): the handler of an alive event configures  *)
(* the instance and every other one as neighbours of each other, the handler  *)
(* of a purge removes the neighbour from the others.  The two kinds of event   *)
(* come from different channels, so the goroutine's select may take them in    *)
(* either order.                                                             *)
(*                                                                          *)
(* A request to an instance that does not answer is refused, one to an         *)
(* instance that does succeeds.  An outage lasts until a health check sees it. *)
(***************************************************************************)
EXTENDS FiniteSets, Naturals

CONSTANTS
  Host,      \* hosts of loxilb instances
  Peer,      \* those of loxilb-peer-service (PeeringOnly)
  ExtPeer,   \* --extBGPPeers
  Overtake,  \* a purge may be handled while an alive event of the client is pending
  MaxDown    \* bound: outages

VARIABLES
  up,        \* the instances that answer
  downs,     \* outages so far
  isAlive,   \* IsAlive of the clients
  pool,      \* LoxiClients.Clients and LoxiPeerClients.Clients
  gone,      \* hosts whose client was removed
  alive,     \* alive[h]: alive events of h that are pending
  purged,    \* purge events that are pending
  doBGPCfg,  \* the clients with DoBGPCfg
  neigh      \* neigh[h]: the neighbours configured at instance h

vars == <<up, downs, isAlive, pool, gone, alive, purged, doBGPCfg, neigh>>

TypeOK ==
  /\ up \subseteq Host /\ isAlive \subseteq Host /\ doBGPCfg \subseteq Host
  /\ pool \subseteq Host /\ gone \subseteq Host /\ pool \cap gone = {}
  /\ alive \in [Host -> 0..(MaxDown + 2)] /\ purged \subseteq gone
  /\ neigh \in [Host -> SUBSET (Host \cup ExtPeer)]
  /\ \A h \in Host : h \notin neigh[h]
  /\ downs \in 0..MaxDown

Init ==
  /\ up = {} /\ downs = 0 /\ isAlive = {} /\ pool = {} /\ gone = {} /\ purged = {}
  /\ alive = [h \in Host |-> 0]
  /\ doBGPCfg = {} /\ neigh = [h \in Host |-> {}]

-----------------------------------------------------------------------------
InstanceUp(h) ==
  /\ h \notin up /\ h \notin isAlive /\ up' = up \cup {h}
  /\ UNCHANGED <<downs, isAlive, pool, gone, alive, purged, doBGPCfg, neigh>>

(* An instance stops and forgets its neighbours. *)
InstanceDown(h) ==
  /\ h \in up /\ h \in isAlive /\ downs < MaxDown
  /\ up' = up \ {h} /\ downs' = downs + 1 /\ neigh' = [neigh EXCEPT ![h] = {}]
  /\ UNCHANGED <<isAlive, pool, gone, alive, purged, doBGPCfg>>

(* The health check of a client (StartLoxiHealthCheckChan) and the forwarding  *)
(* of its event to ClientAliveCh.                                            *)
HealthCheck(h) ==
  /\ h \in pool /\ (h \in up) # (h \in isAlive)
  /\ IF h \in up THEN isAlive' = isAlive \cup {h} /\ alive' = [alive EXCEPT ![h] = @ + 1]
                 ELSE isAlive' = isAlive \ {h} /\ UNCHANGED alive
  /\ UNCHANGED <<up, downs, pool, gone, purged, doBGPCfg, neigh>>

(* Discovery adds the client of a host, or stops one and reports it purged.   *)
Discovered(h) ==
  /\ h \notin pool \cup gone /\ pool' = pool \cup {h}
  /\ UNCHANGED <<up, downs, isAlive, gone, alive, purged, doBGPCfg, neigh>>

Purged(h) ==
  /\ h \in pool /\ (Overtake \/ alive[h] = 0)
  /\ pool' = pool \ {h} /\ gone' = gone \cup {h} /\ purged' = purged \cup {h}
  /\ UNCHANGED <<up, downs, isAlive, alive, doBGPCfg, neigh>>

LoxiClients == pool \ Peer
LoxiPeerClients == pool \cap Peer

BgpPeersWithSelf(h) == IF h \in Peer THEN LoxiClients ELSE pool

(* The instances an alive one is to be connected with. *)
BgpPeers(h) == (IF h \in Peer THEN LoxiClients ELSE pool) \ {h}

(* BGP().CreateNeigh and DeleteNeigh at the instances of S that answer. *)
CreateNeigh(f, S, N) == [i \in Host |-> IF i \in S \cap up THEN f[i] \cup N ELSE f[i]]
DeleteNeigh(f, S, h) == [i \in Host |-> IF i \in S \cap up THEN f[i] \ {h} ELSE f[i]]

(* The clients checkHandleBGPCfgErrors requeues. *)
Requeued(h) == ({h} \cup BgpPeers(h)) \ (up \cup (doBGPCfg \ {h}))

ClientAliveOneWay(h) ==
  /\ alive[h] > 0
  /\ neigh' = CreateNeigh(neigh, {h}, BgpPeers(h) \cup (IF h \in Peer THEN {} ELSE ExtPeer))
  /\ doBGPCfg' = (doBGPCfg \ {h}) \cup Requeued(h)
  /\ alive' = [i \in Host |-> alive[i] - (IF i = h THEN 1 ELSE 0)
                                      + (IF i \in Requeued(h) THEN 1 ELSE 0)]
  /\ UNCHANGED <<up, downs, isAlive, pool, gone, purged>>

(* case aliveClient := <-m.ClientAliveCh *)
ClientAlive(h) ==
  /\ alive[h] > 0
  /\ neigh' = CreateNeigh(
                CreateNeigh(neigh, {h}, BgpPeers(h) \cup (IF h \in Peer THEN {} ELSE ExtPeer)),
                BgpPeers(h), {h})
  /\ doBGPCfg' = (doBGPCfg \ {h}) \cup Requeued(h)
  /\ alive' = [i \in Host |-> alive[i] - (IF i = h THEN 1 ELSE 0)
                                      + (IF i \in Requeued(h) THEN 1 ELSE 0)]
  /\ UNCHANGED <<up, downs, isAlive, pool, gone, purged>>

ClientPurgeKeepsNeigh(h) ==
  /\ h \in purged /\ purged' = purged \ {h}
  /\ UNCHANGED <<up, downs, isAlive, pool, gone, alive, doBGPCfg, neigh>>

(* case purgedClient := <-m.ClientPurgeCh: only LoxiClients are visited. *)
ClientPurge(h) ==
  /\ h \in purged /\ purged' = purged \ {h}
  /\ neigh' = DeleteNeigh(neigh, LoxiClients \ {h}, h)
  /\ UNCHANGED <<up, downs, isAlive, pool, gone, alive, doBGPCfg>>

Handle(h) == ClientAlive(h) \/ ClientPurge(h)

Next ==
  \E h \in Host : \/ InstanceUp(h) \/ InstanceDown(h) \/ HealthCheck(h)
                  \/ Discovered(h) \/ Purged(h) \/ Handle(h)

Spec == Init /\ [][Next]_vars

(* The health checks and the life cycle goroutine run, and its select passes   *)
(* over no event for ever.                                                   *)
Fairness == \A h \in Host : /\ WF_vars(HealthCheck(h)) /\ WF_vars(ClientAlive(h))
                            /\ WF_vars(ClientPurge(h))

FairSpec == Spec /\ Fairness

-----------------------------------------------------------------------------
(* The mesh forms: two instances that stay up and in the pools, not both       *)
(* peering only, are in the end neighbours of each other, although either may  *)
(* have been down while the other was configured.                            *)
MeshForms ==
  \A a, b \in Host : a # b /\ ~(a \in Peer /\ b \in Peer) =>
    (<>[](a \in up \cap pool /\ b \in up \cap pool) => <>[](b \in neigh[a]))

(* No ghosts: when no event is pending, no instance of loxilb-lb-service has a *)
(* neighbour that was purged.  Holds unless an alive event of the purged client *)
(* was still pending (Overtake).                                             *)
NoGhost ==
  (purged = {} /\ \A h \in Host : alive[h] = 0) =>
    \A a \in LoxiClients \cap up : neigh[a] \cap gone = {}

=============================================================================
