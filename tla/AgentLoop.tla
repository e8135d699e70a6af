------------------------------ MODULE AgentLoop ------------------------------
(***************************************************************************)
(* The goroutines of the agent that watch the loxilb instances and the Go     *)
(* channels between them: the health check of every client (StartLoxiHealth-  *)
(* CheckChan), the select loop of cmd/loxilb-agent/agent.go, the life cycle   *)
(* goroutines of the load balancer manager (manageLoxiLbLifeCycle) and of the *)
(* egress manager (manageLoxilbEgressLifeCycle).                             *)
(*                                                                          *)
(* A client is a LoxiClient object; a host whose client was purged does not   *)
(* come back.  An election is one step here (RoleElection has its steps) and  *)
(* there is one zone instance.  The BGP configuration of an instance appears  *)
(* here only through the events that checkHandleBGPCfgErrors requeues.        *)
(***************************************************************************)
EXTENDS Naturals, Sequences, SequencesExt, FiniteSets

CONSTANTS
  Client,       \* the LoxiClient objects
  Peer,         \* those with PeeringOnly (loxilb-peer-service)
  Configured,   \* the clients the agent starts with
  Discovery,    \* no --loxiURL: DiscoverLoxiLBServices runs
  SetRoles,     \* --setRoles is given
  SetBGP,       \* --setBGP is given
  LiveCap, DeadCap, PurgeCap,                  \* channels of agent.go
  AliveCap, ClientDeadCap, ClientPurgeCap,     \* channels of the LB manager
  EgressCap,                                   \* channel of the egress manager
  MaxDown,      \* bound: how often health checks may find an instance down
  FastRestart   \* an instance may restart between two health checks

VARIABLES
  up,        \* the instances that answer
  role,      \* role[c]: what instance c was last told (CIStatus), or "none"
  isAlive,   \* IsAlive
  downs,     \* health checks that found an instance down
  hc,        \* hc[c]: where the health check goroutine of c stands
  clients,   \* LoxiClients.Clients
  peers,     \* LoxiPeerClients.Clients
  master,    \* the clients with MasterLB
  runOnce,   \* ElectionRunOnce
  live, dead, purge,            \* the channels of agent.go
  agent,     \* where the select loop stands
  aliveCh, deadCh, purgeCh,     \* the channels of the LB manager
  life,      \* where manageLoxiLbLifeCycle stands
  doBGPCfg,  \* the clients with DoBGPCfg
  egressCh   \* ClientAliveCh of the egress manager

world == <<up, role, downs>>
health == <<isAlive, hc>>
pools == <<clients, peers>>
election == <<master, runOnce>>
agentChs == <<live, dead, purge>>
lbChs == <<aliveCh, deadCh, purgeCh>>
lifeVars == <<life, doBGPCfg>>
vars == <<world, health, pools, election, agentChs, agent, lbChs, lifeVars, egressCh>>

Select == [at |-> "select"]

(* What a goroutine holds while it is at a blocking step. *)
AgentState ==
  {Select} \cup [at : {"fwdAlive", "fwdEgress", "fwdPurge"}, c : Client]
  \cup [at : {"fwdDead", "elect", "signal", "discover", "discoverPeer"}]
  \cup [at : {"stop", "purging"}, pool : {"clients", "peers"}, doomed : Seq(Client)]
LifeState ==
  {Select} \cup [at : {"post", "bgp"}, c : Client] \cup [at : {"tell"}, todo : Seq(Client)]
  \cup [at : {"requeue"}, todo : Seq(Client)]

TypeOK ==
  /\ up \subseteq Client /\ isAlive \subseteq Client /\ master \subseteq Client
  /\ doBGPCfg \subseteq Client
  /\ role \in [Client -> {"none", "MASTER", "BACKUP"}]
  /\ hc \in [Client -> {"none", "wait", "sendAlive", "sendDead", "stopped"}]
  /\ {clients, peers, live, purge, aliveCh, purgeCh, egressCh} \subseteq Seq(Client)
  /\ IsInjective(clients) /\ IsInjective(peers)
  /\ Len(live) <= LiveCap /\ Len(purge) <= PurgeCap /\ dead \in 0..DeadCap
  /\ Len(aliveCh) <= AliveCap /\ Len(purgeCh) <= ClientPurgeCap
  /\ deadCh \in 0..ClientDeadCap /\ Len(egressCh) <= EgressCap
  /\ agent \in AgentState /\ life \in LifeState
  /\ runOnce \in BOOLEAN /\ downs \in 0..MaxDown

Init ==
  /\ up = {}
  /\ role = [c \in Client |-> "none"] /\ isAlive = {} /\ downs = 0
  /\ hc = [c \in Client |-> IF c \in Configured THEN "wait" ELSE "none"]
  /\ clients = SetToSeq(Configured) /\ peers = <<>>
  /\ master = {} /\ runOnce = FALSE
  /\ live = <<>> /\ dead = 0 /\ purge = <<>> /\ agent = Select
  /\ aliveCh = <<>> /\ deadCh = 0 /\ purgeCh = <<>> /\ life = Select
  /\ doBGPCfg = {} /\ egressCh = <<>>

-----------------------------------------------------------------------------
(* An instance stops, losing the role it was told, or starts.                *)
InstanceDown(c) ==
  /\ c \in up /\ downs < MaxDown
  /\ FastRestart \/ c \in isAlive
  /\ up' = up \ {c} /\ role' = [role EXCEPT ![c] = "none"]
  /\ downs' = downs + 1
  /\ UNCHANGED <<health, pools, election, agentChs, agent, lbChs, lifeVars, egressCh>>

InstanceUp(c) ==
  /\ c \notin up
  /\ FastRestart \/ (c \notin isAlive /\ hc[c] # "sendDead")
  /\ up' = up \cup {c}
  /\ UNCHANGED <<role, downs, health, pools, election, agentChs, agent, lbChs,
                 lifeVars, egressCh>>

(* StartLoxiHealthCheckChan: one health check.  A master that goes down is    *)
(* reported unless the last report was less than three seconds ago.  The send *)
(* it ends with waits while the channel is full.                             *)
SendAlive(c) ==
  IF Len(live) < LiveCap THEN live' = Append(live, c) /\ hc' = [hc EXCEPT ![c] = "wait"]
  ELSE UNCHANGED live /\ hc' = [hc EXCEPT ![c] = "sendAlive"]

SendDead(c) ==
  IF dead < DeadCap THEN dead' = dead + 1 /\ hc' = [hc EXCEPT ![c] = "wait"]
  ELSE UNCHANGED dead /\ hc' = [hc EXCEPT ![c] = "sendDead"]

HealthDown(c) ==
  /\ hc[c] = "wait" /\ c \notin up /\ c \in isAlive
  /\ isAlive' = isAlive \ {c}
  /\ \/ UNCHANGED <<hc, dead>>
     \/ c \in master /\ SendDead(c)
  /\ UNCHANGED <<world, pools, election, live, purge, agent, lbChs, lifeVars, egressCh>>

HealthUp(c) ==
  /\ hc[c] = "wait" /\ c \in up /\ c \notin isAlive
  /\ isAlive' = isAlive \cup {c} /\ SendAlive(c)
  /\ UNCHANGED <<world, pools, election, dead, purge, agent, lbChs, lifeVars, egressCh>>

HealthSend(c) ==
  /\ \/ hc[c] = "sendAlive" /\ Len(live) < LiveCap /\ SendAlive(c) /\ UNCHANGED dead
     \/ hc[c] = "sendDead" /\ dead < DeadCap /\ SendDead(c) /\ UNCHANGED live
  /\ UNCHANGED <<world, isAlive, pools, election, purge, agent, lbChs, lifeVars, egressCh>>

HealthCheckChan(c) == HealthDown(c) \/ HealthUp(c) \/ HealthSend(c)

-----------------------------------------------------------------------------
(* The cases of the select loop. *)
CaseDeadElects ==
  /\ agent = Select /\ dead > 0 /\ dead' = dead - 1
  /\ agent' = IF SetRoles THEN [at |-> "elect"] ELSE Select
  /\ UNCHANGED <<world, health, pools, election, live, purge, lbChs, lifeVars, egressCh>>

CaseAlive ==
  /\ agent = Select /\ live # <<>> /\ live' = Tail(live)
  /\ agent' = [at |-> "fwdAlive", c |-> Head(live)]
  /\ UNCHANGED <<world, health, pools, election, dead, purge, lbChs, lifeVars, egressCh>>

CaseDeadForwards ==
  /\ agent = Select /\ dead > 0 /\ dead' = dead - 1
  /\ agent' = [at |-> "fwdDead"]
  /\ UNCHANGED <<world, health, pools, election, live, purge, lbChs, lifeVars, egressCh>>

CasePurge ==
  /\ agent = Select /\ purge # <<>> /\ purge' = Tail(purge)
  /\ agent' = [at |-> "fwdPurge", c |-> Head(purge)]
  /\ UNCHANGED <<world, health, pools, election, live, dead, lbChs, lifeVars, egressCh>>

CaseTicker ==
  /\ agent = Select
  /\ agent' = [at |-> IF Discovery THEN "discover" ELSE "discoverPeer"]
  /\ UNCHANGED <<world, health, pools, election, agentChs, lbChs, lifeVars, egressCh>>

(* The sends inside the cases.  Nothing receives from deadCh. *)
Forward ==
  /\ \/ /\ agent.at = "fwdAlive" /\ Len(aliveCh) < AliveCap
        /\ aliveCh' = Append(aliveCh, agent.c) /\ agent' = [at |-> "fwdEgress", c |-> agent.c]
        /\ UNCHANGED <<deadCh, purgeCh, egressCh>>
     \/ /\ agent.at = "fwdEgress" /\ Len(egressCh) < EgressCap
        /\ egressCh' = Append(egressCh, agent.c) /\ agent' = Select
        /\ UNCHANGED <<aliveCh, deadCh, purgeCh>>
     \/ /\ agent.at = "fwdDead" /\ deadCh < ClientDeadCap
        /\ deadCh' = deadCh + 1 /\ agent' = Select
        /\ UNCHANGED <<aliveCh, purgeCh, egressCh>>
     \/ /\ agent.at = "fwdPurge" /\ Len(purgeCh) < ClientPurgeCap
        /\ purgeCh' = Append(purgeCh, agent.c) /\ agent' = Select
        /\ UNCHANGED <<aliveCh, deadCh, egressCh>>
  /\ UNCHANGED <<world, health, pools, election, agentChs, lifeVars>>

(* The clients of the list s that are in S, in the order of the list: the list  *)
(* has each client once, so there is one such sequence.                         *)
Filtered(s, S) ==
  {t \in SetToSeqs(ToSet(s) \cap S) :
     \A i, j \in DOMAIN t : i < j =>
       \E k, l \in DOMAIN s : k < l /\ s[k] = t[i] /\ s[l] = t[j]}

Pool(pool) == IF pool = "peers" THEN peers ELSE clients
Hosts(pool) == IF pool = "peers" THEN Peer ELSE Client \ Peer
AfterDiscovery(pool) ==
  IF pool = "clients" THEN [at |-> "discoverPeer"]
  ELSE IF SetRoles THEN [at |-> "elect"] ELSE Select

(* The addresses of the ready end points in the slices of the service with     *)
(* loxilb's name can be any; a host that has left does not come back.          *)
GetLoxilbServiceEndPoints(pool) == SUBSET {c \in Hosts(pool) : hc[c] # "stopped"}

DiscoverDuplicates(pool) ==
  /\ agent.at = (IF pool = "peers" THEN "discoverPeer" ELSE "discover")
  /\ \E E \in GetLoxilbServiceEndPoints(pool) : \E s \in SetToSeqs(E) :
       /\ hc' = [c \in Client |-> IF c \in E THEN "wait" ELSE hc[c]]
       /\ IF pool = "peers" THEN peers' = peers \o s /\ UNCHANGED clients
                           ELSE clients' = clients \o s /\ UNCHANGED peers
       /\ agent' = AfterDiscovery(pool)
  /\ UNCHANGED <<world, isAlive, election, agentChs, lbChs, lifeVars, egressCh>>

(* The service's end points are now E: clients for new hosts are appended to  *)
(* the pool and their health checks start; the others will be purged.         *)
Discover(pool) ==
  /\ agent.at = (IF pool = "peers" THEN "discoverPeer" ELSE "discover")
  /\ \E E \in GetLoxilbServiceEndPoints(pool) :
       LET new == {c \in E : hc[c] = "none"} IN
       \E s \in SetToSeqs(new), doomed \in Filtered(Pool(pool), Client \ E) :
         /\ hc' = [c \in Client |-> IF c \in new THEN "wait" ELSE hc[c]]
         /\ IF pool = "peers" THEN peers' = peers \o s /\ UNCHANGED clients
                             ELSE clients' = clients \o s /\ UNCHANGED peers
         /\ agent' = IF doomed = <<>> THEN AfterDiscovery(pool)
                     ELSE [at |-> "stop", pool |-> pool, doomed |-> doomed]
  /\ UNCHANGED <<world, isAlive, election, agentChs, lbChs, lifeVars, egressCh>>

DiscoverLoxiLBServices == Discover("clients")
DiscoverLoxiLBPeerServices == Discover("peers")

(* StopLoxiHealthCheckChan: Stop is unbuffered, so the health check must be    *)
(* waiting for its next turn.                                                *)
StopLoxiHealthCheckChan ==
  /\ agent.at = "stop"
  /\ LET c == Head(agent.doomed) IN
       /\ hc[c] = "wait" /\ hc' = [hc EXCEPT ![c] = "stopped"]
  /\ agent' = [agent EXCEPT !.at = "purging"]
  /\ UNCHANGED <<world, isAlive, pools, election, agentChs, lbChs, lifeVars, egressCh>>

(* loxiLBPurgeCh <- v: this very loop is the channel's only reader.  The pool *)
(* is shortened when all are sent.                                           *)
SendPurged ==
  /\ agent.at = "purging" /\ Len(purge) < PurgeCap
  /\ purge' = Append(purge, Head(agent.doomed))
  /\ LET rest == Tail(agent.doomed)  kept == {c \in Client : hc[c] # "stopped"} IN
     IF rest # <<>>
       THEN /\ agent' = [agent EXCEPT !.at = "stop", !.doomed = rest]
            /\ UNCHANGED pools
       ELSE /\ agent' = AfterDiscovery(agent.pool)
            /\ IF agent.pool = "peers"
                 THEN peers' \in Filtered(peers, kept) /\ UNCHANGED clients
                 ELSE clients' \in Filtered(clients, kept) /\ UNCHANGED peers
  /\ UNCHANGED <<world, health, election, live, dead, lbChs, lifeVars, egressCh>>

(* SelectLoxiLBRoles for the one zone instance: a dead master loses the role;  *)
(* without a master, the first client of the pool that is alive gets it.      *)
Masters == ToSet(clients) \cap master
Alive == SelectSeq(clients, LAMBDA c : c \in isAlive)
ElectsOnlyOnce == ~runOnce /\ Alive # <<>>
Elects == Masters \cap isAlive = {} /\ Alive # <<>>
Elected == (master \ {c \in Masters : c \notin isAlive})
           \cup (IF Elects THEN {Head(Alive)} ELSE {})

SelectLoxiLBRoles ==
  /\ agent.at = "elect"
  /\ master' = Elected /\ runOnce' = (runOnce \/ Elects)
  /\ agent' = IF Elects THEN [at |-> "signal"] ELSE Select
  /\ UNCHANGED <<world, health, pools, agentChs, lbChs, lifeVars, egressCh>>

AgentStep ==
  \/ CaseDeadElects \/ CaseAlive \/ CaseDeadForwards \/ CasePurge \/ CaseTicker
  \/ Forward \/ DiscoverLoxiLBServices \/ DiscoverLoxiLBPeerServices
  \/ StopLoxiHealthCheckChan \/ SendPurged \/ SelectLoxiLBRoles

-----------------------------------------------------------------------------
(* ClientSelMasterCh is unbuffered: the agent's election and the life cycle    *)
(* goroutine, back at its select, meet.                                      *)
CaseSelMaster ==
  /\ agent.at = "signal" /\ life = Select
  /\ agent' = Select /\ life' = [at |-> "tell", todo |-> clients]
  /\ UNCHANGED <<world, health, pools, election, agentChs, lbChs, doBGPCfg, egressCh>>

(* CIStatus().Create with its retries: the instance learns its role if it     *)
(* answers.                                                                  *)
Told(c) ==
  IF c \in up THEN [role EXCEPT ![c] = IF c \in master THEN "MASTER" ELSE "BACKUP"]
  ELSE role

TellRoleWaitsForAlive ==
  /\ life.at = "tell"
  /\ IF life.todo = <<>> THEN life' = Select /\ UNCHANGED role
     ELSE LET c == Head(life.todo) IN
          IF c \in isAlive THEN /\ life' = [life EXCEPT !.todo = Tail(life.todo)]
                                /\ role' = Told(c)
          ELSE UNCHANGED <<life, role>>
  /\ UNCHANGED <<up, downs, health, pools, election, agentChs, agent, lbChs, doBGPCfg,
                 egressCh>>

TellRole ==
  /\ life.at = "tell"
  /\ IF life.todo = <<>> THEN life' = Select /\ UNCHANGED role
     ELSE LET c == Head(life.todo) IN
          /\ life' = [life EXCEPT !.todo = Tail(life.todo)]
          /\ role' = IF c \in isAlive THEN Told(c) ELSE role
  /\ UNCHANGED <<up, downs, health, pools, election, agentChs, agent, lbChs, doBGPCfg,
                 egressCh>>

CaseClientAliveFirstOnly ==
  /\ life = Select /\ aliveCh # <<>> /\ aliveCh' = Tail(aliveCh)
  /\ IF SetRoles /\ ~runOnce THEN /\ master' = Elected /\ runOnce' = Elects
                                  /\ life' = [at |-> "post", c |-> Head(aliveCh)]
                             ELSE UNCHANGED <<election, life>>
  /\ UNCHANGED <<world, health, pools, agentChs, agent, deadCh, purgeCh, doBGPCfg, egressCh>>

(* case aliveClient := <-m.ClientAliveCh, with the first election. *)
CaseClientAlive ==
  /\ life = Select /\ aliveCh # <<>>
  /\ LET c == Head(aliveCh)  roles == SetRoles /\ c \notin Peer IN
       /\ doBGPCfg' = doBGPCfg \ {c}
       /\ IF roles /\ ~runOnce THEN master' = Elected /\ runOnce' = Elects
                               ELSE UNCHANGED election
       /\ life' = IF roles THEN [at |-> "post", c |-> c]
                  ELSE IF SetBGP THEN [at |-> "bgp", c |-> c] ELSE Select
  /\ aliveCh' = Tail(aliveCh)
  /\ UNCHANGED <<world, health, pools, agentChs, agent, deadCh, purgeCh, egressCh>>

PostRole ==
  /\ life.at = "post" /\ role' = Told(life.c)
  /\ life' = IF SetBGP THEN [at |-> "bgp", c |-> life.c] ELSE Select
  /\ UNCHANGED <<up, downs, health, pools, election, agentChs, agent, lbChs, doBGPCfg,
                 egressCh>>

ConfigureBGPRequeuesAll ==
  /\ life.at = "bgp"
  /\ \E s \in SetToSeqs(({life.c} \cup ToSet(clients) \cup ToSet(peers)) \ up) :
       life' = IF s = <<>> THEN Select ELSE [at |-> "requeue", todo |-> s]
  /\ UNCHANGED <<world, health, pools, election, agentChs, agent, lbChs, doBGPCfg, egressCh>>

ConfigureBGPRetries ==
  /\ life.at = "bgp"
  /\ life' = IF life.c \in up THEN Select ELSE life
  /\ UNCHANGED <<world, health, pools, election, agentChs, agent, lbChs, doBGPCfg, egressCh>>

(* The instances of which a BGP request is refused while c is configured: each *)
(* is to be requeued once (checkHandleBGPCfgErrors).                         *)
ConfigureBGP ==
  /\ life.at = "bgp"
  /\ LET c == life.c
         others == IF c \in Peer THEN ToSet(clients)
                   ELSE ToSet(peers) \cup (IF Discovery THEN ToSet(clients) ELSE {})
         refused == ({c} \cup others) \ (up \cup doBGPCfg) IN
     \E s \in SetToSeqs(refused) :
       life' = IF s = <<>> THEN Select ELSE [at |-> "requeue", todo |-> s]
  /\ UNCHANGED <<world, health, pools, election, agentChs, agent, lbChs, doBGPCfg, egressCh>>

(* loxiAliveCh <- peer: this goroutine is the channel's only reader. *)
CheckHandleBGPCfgErrors ==
  /\ life.at = "requeue" /\ Len(aliveCh) < AliveCap
  /\ aliveCh' = Append(aliveCh, Head(life.todo))
  /\ doBGPCfg' = doBGPCfg \cup {Head(life.todo)}
  /\ life' = IF Len(life.todo) = 1 THEN Select ELSE [life EXCEPT !.todo = Tail(life.todo)]
  /\ UNCHANGED <<world, health, pools, election, agentChs, agent, deadCh, purgeCh, egressCh>>

CaseClientPurge ==
  /\ life = Select /\ purgeCh # <<>> /\ purgeCh' = Tail(purgeCh)
  /\ UNCHANGED <<world, health, pools, election, agentChs, agent, aliveCh, deadCh,
                 lifeVars, egressCh>>

LifeStep ==
  CaseSelMaster \/ TellRole \/ CaseClientAlive \/ PostRole \/ ConfigureBGP
  \/ CheckHandleBGPCfgErrors \/ CaseClientPurge

(* manageLoxilbEgressLifeCycle. *)
EgressClientAlive ==
  /\ egressCh # <<>> /\ egressCh' = Tail(egressCh)
  /\ UNCHANGED <<world, health, pools, election, agentChs, agent, lbChs, lifeVars>>

Next ==
  \/ \E c \in Client : InstanceDown(c) \/ InstanceUp(c) \/ HealthCheckChan(c)
  \/ AgentStep \/ LifeStep \/ EgressClientAlive

Spec == Init /\ [][Next]_vars

(* Every goroutine runs.  A select chooses among the cases that are ready at     *)
(* random, so the ones that matter to the roles are not passed over for ever.     *)
SelectsFair ==
  /\ \A c \in Client : WF_vars(HealthCheckChan(c))
  /\ WF_vars(AgentStep) /\ SF_vars(CaseAlive)
  /\ WF_vars(LifeStep) /\ SF_vars(CaseSelMaster) /\ SF_vars(CaseClientAlive)
  /\ WF_vars(EgressClientAlive)

(* The same of every other case and send. *)
Fairness ==
  /\ SelectsFair /\ SF_vars(CaseTicker) /\ SF_vars(CaseClientPurge)
  /\ \A c \in Client : SF_vars(HealthSend(c))

FairSpec == Spec /\ Fairness

-----------------------------------------------------------------------------
(* The select loop never hangs: whatever it forwards, stops or announces, it   *)
(* comes back to its select, so no cycle of goroutines waits on each other's   *)
(* channels.                                                                 *)
LoopReturns == []<>(agent = Select)

(* No goroutine waits for itself or for one that waits for it: the loop never  *)
(* sends a purged client to the full channel only it reads, nor stops a health *)
(* check that is blocked sending to the loop, nor forwards to ClientDeadCh,    *)
(* which nobody reads, once it is full; the life cycle goroutine never requeues *)
(* a client on its own full channel.  Below the capacities of the channels.    *)
NoCircularWait ==
  /\ agent.at = "purging" => Len(purge) < PurgeCap
  /\ agent.at = "stop" => LET c == Head(agent.doomed) IN
                            /\ hc[c] = "sendAlive" => Len(live) < LiveCap
                            /\ hc[c] = "sendDead" => dead < DeadCap
  /\ agent.at = "fwdDead" => deadCh < ClientDeadCap
  /\ life.at = "requeue" => Len(aliveCh) < AliveCap

(* Arbitration: while some client of the pool is alive for good, a master that *)
(* is down does not stay the only one: sooner or later a client that is alive  *)
(* is the master.                                                            *)
DeadMasterReplaced ==
  SetRoles => \A c \in Client \ Peer :
    <>[](c \in isAlive /\ c \in ToSet(clients)) => []<>(Masters \cap isAlive # {})

(* The roles arrive: an instance that stays up and in the pool is, in the end, *)
(* told the role the elections gave it, whichever of the two goroutines ran    *)
(* them and however the announcements and the alive events interleave.         *)
RolesArrive ==
  SetRoles => \A c \in Client \ Peer :
    <>[](c \in up /\ c \in ToSet(clients)) =>
      <>[](role[c] = IF c \in master THEN "MASTER" ELSE "BACKUP")

=============================================================================
