------------------------------ MODULE LoopProofs ------------------------------
(***************************************************************************)
(* The goroutines around the instances do not wait for each other in a circle  *)
(* (AgentLoop), for any number of clients and failures the channels are large  *)
(* enough for.  The invariant counts what every channel can still receive.     *)
(***************************************************************************)
EXTENDS AgentLoop, SequenceTheorems, FiniteSetTheorems, TLAPS

LoopConstants ==
  /\ IsFiniteSet(Client) /\ Peer \subseteq Client /\ Configured \subseteq Client \ Peer
  /\ MaxDown \in Nat /\ LiveCap \in Nat /\ DeadCap \in Nat /\ PurgeCap \in Nat
  /\ AliveCap \in Nat /\ ClientDeadCap \in Nat

(* The channels hold what the clients and MaxDown failures can put into them. *)
Capacities ==
  /\ PurgeCap >= Cardinality(Client)
  /\ LiveCap >= Cardinality(Client) + MaxDown
  /\ AliveCap >= Cardinality(Client) + Cardinality(Client) + MaxDown
  /\ DeadCap >= MaxDown /\ ClientDeadCap >= MaxDown

-----------------------------------------------------------------------------
(* The inductive invariant.  No health check waits in a send. *)
LoopTypes ==
  /\ up \subseteq Client /\ isAlive \subseteq Client /\ doBGPCfg \subseteq Client
  /\ hc \in [Client -> {"none", "wait", "stopped"}]
  /\ clients \in Seq(Client) /\ peers \in Seq(Client) /\ purge \in Seq(Client)
  /\ live \in Seq(Client) /\ aliveCh \in Seq(Client)
  /\ dead \in Nat /\ deadCh \in Nat /\ downs \in Nat /\ downs <= MaxDown
  /\ agent.at = "fwdAlive" => agent.c \in Client
  /\ life.at \in {"post", "bgp"} => life.c \in Client
  /\ life.at = "tell" => life = [at |-> "tell", todo |-> life.todo]

(* An alive event is due for every client but those known to be up. *)
Due == Client \ (isAlive \cap up)
(* A dead event is due for every client that is down and not known to be. *)
Lost == isAlive \ up
FwdAlive == IF agent.at = "fwdAlive" THEN 1 ELSE 0
FwdDead == IF agent.at = "fwdDead" THEN 1 ELSE 0

LiveBound == Len(live) + Cardinality(Due) <= Cardinality(Client) + downs

(* Every event requeued has its client in doBGPCfg. *)
AliveBound ==
  Len(aliveCh) + FwdAlive + Len(live) + Cardinality(Due)
    <= Cardinality(Client) + downs + Cardinality(doBGPCfg)

(* A failure is reported once, and forwarded at most once. *)
DeadBound == deadCh + FwdDead + dead + Cardinality(Lost) <= downs

(* What the life cycle goroutine is to requeue is not requeued yet. *)
Requeued ==
  life.at = "requeue" =>
    /\ life = [at |-> "requeue", todo |-> life.todo]
    /\ life.todo \in Seq(Client) /\ life.todo # <<>>
    /\ \A i, j \in 1..Len(life.todo) : i # j => life.todo[i] # life.todo[j]
    /\ \A i \in 1..Len(life.todo) : life.todo[i] \notin doBGPCfg

Purging == agent.at \in {"stop", "purging"}
NoneStopped(s) == \A i \in 1..Len(s) : hc[s[i]] # "stopped"

(* The pools have clients of their own; only one that is being purged has     *)
(* clients whose health checks have stopped.                                  *)
PoolsApart ==
  /\ \A i \in 1..Len(clients) : clients[i] \notin Peer
  /\ \A i \in 1..Len(peers) : peers[i] \in Peer
  /\ (Purging /\ agent.pool = "clients") \/ NoneStopped(clients)
  /\ (Purging /\ agent.pool = "peers") \/ NoneStopped(peers)

(* The clients a discovery removes are stopped and sent to purge one by one. *)
Doomed ==
  Purging =>
    /\ agent = [at |-> agent.at, pool |-> agent.pool, doomed |-> agent.doomed]
    /\ agent.pool \in {"clients", "peers"}
    /\ agent.doomed \in Seq(Client) /\ agent.doomed # <<>>
    /\ \A i, j \in 1..Len(agent.doomed) : i # j => agent.doomed[i] # agent.doomed[j]
    /\ \A i \in 1..Len(agent.doomed) : agent.doomed[i] \in Hosts(agent.pool)
    /\ \A i \in 1..Len(agent.doomed) : i # 1 => hc[agent.doomed[i]] # "stopped"
    /\ agent.at = "stop" => hc[agent.doomed[1]] # "stopped"
    /\ agent.at = "purging" =>
         /\ hc[agent.doomed[1]] = "stopped"
         /\ \A i \in 1..Len(purge) : purge[i] # agent.doomed[1]

(* A client is sent to purge once, after its health check has stopped. *)
Purged ==
  /\ \A i, j \in 1..Len(purge) : i # j => purge[i] # purge[j]
  /\ \A i \in 1..Len(purge) : hc[purge[i]] = "stopped"

LoopInv ==
  LoopTypes /\ LiveBound /\ AliveBound /\ DeadBound /\ Requeued /\ PoolsApart /\ Doomed /\ Purged

-----------------------------------------------------------------------------
(* Counting in the finite set of clients. *)
LEMMA CountMonotone ==
  ASSUME IsFiniteSet(Client), NEW S \in SUBSET Client, NEW T \in SUBSET S
  PROVE  /\ IsFiniteSet(S) /\ Cardinality(S) \in Nat /\ Cardinality(T) \in Nat
         /\ Cardinality(T) <= Cardinality(S)
<1>1. IsFiniteSet(S)
  BY FS_Subset, Zenon
<1>2. IsFiniteSet(T) /\ Cardinality(T) <= Cardinality(S)
  BY <1>1, FS_Subset, Zenon
<1> QED
  BY <1>1, <1>2, FS_CardinalityType, Zenon

LEMMA CountRemoves ==
  ASSUME IsFiniteSet(Client), NEW S \in SUBSET Client, NEW c \in S
  PROVE  Cardinality(S \ {c}) = Cardinality(S) - 1 /\ Cardinality(S) >= 1
<1>1. IsFiniteSet(S) /\ Cardinality(S) \in Nat /\ Cardinality(S \ {c}) \in Nat
  BY CountMonotone, Zenon
<1>2. Cardinality(S \ {c}) = Cardinality(S) - 1
  BY <1>1, FS_RemoveElement, Zenon
<1> QED
  BY <1>1, <1>2

LEMMA CountAdds ==
  ASSUME IsFiniteSet(Client), NEW S \in SUBSET Client, NEW c \in Client
  PROVE  /\ Cardinality(S \cup {c}) <= Cardinality(S) + 1
         /\ c \notin S => Cardinality(S \cup {c}) = Cardinality(S) + 1
<1>1. IsFiniteSet(S) /\ Cardinality(S) \in Nat
  BY CountMonotone, Zenon
<1>2. IsFiniteSet(S \cup {c}) /\ Cardinality(S \cup {c})
        = IF c \in S THEN Cardinality(S) ELSE Cardinality(S) + 1
  BY <1>1, FS_AddElement, Zenon
<1> QED
  BY <1>1, <1>2

(* A channel that holds clients once each, but not c, holds fewer than there are. *)
LEMMA FewerThanClients ==
  ASSUME IsFiniteSet(Client), NEW q \in Seq(Client), NEW c \in Client,
         \A i, j \in 1..Len(q) : i # j => q[i] # q[j], \A i \in 1..Len(q) : q[i] # c
  PROVE  Len(q) < Cardinality(Client)
<1> DEFINE S == Client \ {c}
<1>1. IsFiniteSet(S) /\ Cardinality(S) = Cardinality(Client) - 1 /\ Cardinality(Client) \in Nat
  BY CountMonotone, CountRemoves, Zenon
<1>2. Len(q) \in Nat /\ q \in [1..Len(q) -> S]
  BY LenProperties, Zenon
<1>3. q \in Injection(1..Len(q), S)
  BY <1>2, Zenon DEF Injection, IsInjective
<1>4. Cardinality(1..Len(q)) <= Cardinality(S)
  BY <1>1, <1>3, FS_Injection, Zenon
<1>5. Cardinality(1..Len(q)) = Len(q)
  BY <1>2, FS_Interval
<1> QED
  BY <1>1, <1>2, <1>4, <1>5

(* SetToSeqs lists the elements of a finite set, each once. *)
LEMMA Listed ==
  ASSUME IsFiniteSet(Client), NEW S \in SUBSET Client, NEW s \in SetToSeqs(S)
  PROVE  /\ s \in Seq(Client) /\ Len(s) \in Nat
         /\ \A i \in 1..Len(s) : s[i] \in S
         /\ \A i, j \in 1..Len(s) : i # j => s[i] # s[j]
<1>1. Cardinality(S) \in Nat
  BY CountMonotone, Zenon
<1>2. s \in [1..Cardinality(S) -> S] /\ \A i, j \in 1..Cardinality(S) : i # j => s[i] # s[j]
  BY Zenon DEF SetToSeqs
<1>3. s \in Seq(S) /\ Len(s) = Cardinality(S)
  BY <1>1, <1>2
<1> QED
  BY <1>1, <1>2, <1>3

-----------------------------------------------------------------------------
(* What a step that leaves the state of a conjunct alone keeps. *)
PurgeInv == PoolsApart /\ Doomed /\ Purged
Bounds == LiveBound /\ AliveBound /\ DeadBound

LEMMA PurgeFrame ==
  ASSUME PurgeInv, UNCHANGED <<hc, clients, peers, purge>>,
         agent' = agent \/ (~Purging /\ ~Purging')
  PROVE  PurgeInv'
<1>1. CASE agent' = agent
  BY <1>1, Zenon DEF PurgeInv, PoolsApart, Doomed, Purged, Purging, NoneStopped, Hosts
<1>2. CASE ~Purging /\ ~Purging'
  BY <1>2, Zenon DEF PurgeInv, PoolsApart, Doomed, Purged, NoneStopped
<1> QED
  BY <1>1, <1>2, Zenon

LEMMA RequeueFrame ==
  ASSUME Requeued, doBGPCfg' = doBGPCfg, life' = life \/ life'.at # "requeue"
  PROVE  Requeued'
BY Zenon DEF Requeued

LEMMA BoundsFrame ==
  ASSUME Bounds, UNCHANGED <<live, aliveCh, dead, deadCh, isAlive, up, downs, doBGPCfg>>,
         FwdAlive' = FwdAlive, FwdDead' = FwdDead
  PROVE  Bounds'
BY Zenon DEF Bounds, LiveBound, AliveBound, DeadBound, Due, Lost

(* The counts the bounds are about are natural numbers. *)
Counts ==
  /\ Len(live) \in Nat /\ Len(aliveCh) \in Nat /\ dead \in Nat /\ deadCh \in Nat /\ downs \in Nat
  /\ FwdAlive \in Nat /\ FwdDead \in Nat /\ Cardinality(Client) \in Nat
  /\ Cardinality(Due) \in Nat /\ Cardinality(Lost) \in Nat /\ Cardinality(doBGPCfg) \in Nat

LEMMA CountTypes ==
  ASSUME LoopConstants, LoopTypes
  PROVE  Counts
<1>1. Len(live) \in Nat /\ Len(aliveCh) \in Nat
  BY LenProperties, Zenon DEF LoopTypes
<1>2. FwdAlive \in Nat /\ FwdDead \in Nat
  BY Zenon DEF FwdAlive, FwdDead
<1>3. \A S \in SUBSET Client : Cardinality(S) \in Nat
  BY CountMonotone, Zenon DEF LoopConstants
<1> QED
  BY <1>1, <1>2, <1>3, Zenon DEF LoopTypes, Due, Lost, Counts

LEMMA CountTypesNext ==
  ASSUME LoopConstants, LoopTypes'
  PROVE  Counts'
<1>1. Len(live') \in Nat /\ Len(aliveCh') \in Nat
  BY LenProperties, Zenon DEF LoopTypes
<1>2. FwdAlive' \in Nat /\ FwdDead' \in Nat
  BY Zenon DEF FwdAlive, FwdDead
<1>3. \A S \in SUBSET Client : Cardinality(S) \in Nat
  BY CountMonotone, Zenon DEF LoopConstants
<1> QED
  BY <1>1, <1>2, <1>3, Zenon DEF LoopTypes, Due, Lost, Counts

(* The sets that are counted are sets of clients. *)
LEMMA CountedSets ==
  ASSUME LoopConstants, LoopTypes
  PROVE  IsFiniteSet(Client) /\ Due \in SUBSET Client /\ Lost \in SUBSET Client
         /\ doBGPCfg \in SUBSET Client
BY Zenon DEF LoopConstants, LoopTypes, Due, Lost

-----------------------------------------------------------------------------
LEMMA LoopInitially ==
  ASSUME LoopConstants, Init
  PROVE  LoopInv
<1>1. clients \in Seq(Client) /\ \A i \in 1..Len(clients) : clients[i] \in Configured
  <2>1. IsFiniteSet(Configured)
    BY FS_Subset, Zenon DEF LoopConstants
  <2>2. Cardinality(Configured) \in Nat
    BY <2>1, FS_CardinalityType, Zenon
  <2>3. PICK f \in Bijection(1..Cardinality(Configured), Configured) : TRUE
    BY <2>1, FS_NatBijection, FS_CardinalityType, Zenon DEF ExistsBijection
  <2>4. f \in [1..Cardinality(Configured) -> Configured] /\ IsInjective(f)
    BY <2>3, Zenon DEF Bijection, Injection
  <2>5. clients \in [1..Cardinality(Configured) -> Configured]
    BY <2>4, Zenon DEF Init, SetToSeq
  <2>6. clients \in Seq(Configured) /\ Len(clients) = Cardinality(Configured)
    BY <2>2, <2>5
  <2> QED
    BY <2>2, <2>5, <2>6 DEF LoopConstants
<1>2. hc \in [Client -> {"none", "wait", "stopped"}] /\ \A c \in Client : hc[c] # "stopped"
  BY Zenon DEF Init
<1>3. LoopTypes
  BY <1>1, <1>2 DEF Init, LoopTypes, Select, LoopConstants
<1>4. LiveBound /\ AliveBound /\ DeadBound
  <2>1. Cardinality(Due) <= Cardinality(Client) /\ Cardinality(Lost) = 0
        /\ Cardinality(doBGPCfg) = 0
    <3>1. Due = Client /\ Lost = {} /\ doBGPCfg = {}
      BY Zenon DEF Due, Lost, Init
    <3>2. Cardinality(Client) \in Nat
      BY CountTypes, <1>3, Zenon DEF Counts
    <3> QED
      BY <3>1, <3>2, FS_EmptySet
  <2>2. FwdAlive = 0 /\ FwdDead = 0 /\ Len(live) = 0 /\ Len(aliveCh) = 0 /\ dead = 0 /\ deadCh = 0
        /\ downs = 0
    BY Zenon DEF Init, FwdAlive, FwdDead, Select
  <2> QED
    BY <2>1, <2>2, <1>3, CountTypes DEF Counts, LiveBound, AliveBound, DeadBound
<1>5. Requeued /\ ~Purging
  BY Zenon DEF Init, Select, Requeued, Purging
<1>6. PoolsApart /\ Doomed /\ Purged
  BY <1>1, <1>2, <1>5 DEF PoolsApart, Doomed, Purged, NoneStopped, Init, LoopConstants
<1> QED
  BY <1>3, <1>4, <1>5, <1>6, Zenon DEF LoopInv

-----------------------------------------------------------------------------
(* Instances and health checks. *)
LEMMA InstanceStep ==
  ASSUME LoopConstants, LoopInv, NEW c \in Client, InstanceDown(c) \/ InstanceUp(c)
  PROVE  LoopInv'
<1>1. UNCHANGED <<live, aliveCh, dead, deadCh, isAlive, doBGPCfg, hc, clients, peers, purge, agent, life>>
  BY Zenon DEF InstanceDown, InstanceUp, health, pools, agentChs, lbChs, lifeVars
<1>2. LoopTypes'
  BY <1>1 DEF LoopInv, LoopTypes, InstanceDown, InstanceUp, LoopConstants
<1>3. PurgeInv' /\ Requeued'
  BY <1>1, PurgeFrame, RequeueFrame, Zenon DEF LoopInv, PurgeInv
<1>4. FwdAlive' = FwdAlive /\ FwdDead' = FwdDead
  BY <1>1, Zenon DEF FwdAlive, FwdDead
<1>5. Counts /\ Counts'
  BY <1>2, CountTypes, CountTypesNext, Zenon DEF LoopInv
<1>8. IsFiniteSet(Client) /\ Due \in SUBSET Client /\ Lost \in SUBSET Client
  BY CountedSets, Zenon DEF LoopInv
<1>6. \E d \in {0, 1} : /\ downs' = downs + d
                        /\ Cardinality(Due') <= Cardinality(Due) + d
                        /\ Cardinality(Lost') <= Cardinality(Lost) + d
  <2>1. CASE InstanceDown(c)
    <3>1. downs' = downs + 1 /\ Due' \subseteq Due \cup {c} /\ Lost' \subseteq Lost \cup {c}
      BY <1>1, <2>1, Zenon DEF InstanceDown, Due, Lost
    <3>2. \A S \in SUBSET Client : \A T \in SUBSET (S \cup {c}) :
            Cardinality(T) <= Cardinality(S) + 1
      <4> SUFFICES ASSUME NEW S \in SUBSET Client, NEW T \in SUBSET (S \cup {c})
                   PROVE  Cardinality(T) <= Cardinality(S) + 1
        BY Zenon
      <4>1. Cardinality(S \cup {c}) \in Nat /\ Cardinality(T) \in Nat /\ Cardinality(S) \in Nat
            /\ Cardinality(T) <= Cardinality(S \cup {c})
        BY <1>8, CountMonotone, Zenon
      <4>2. Cardinality(S \cup {c}) <= Cardinality(S) + 1
        BY <1>8, CountAdds, Zenon
      <4> QED
        BY <4>1, <4>2
    <3>3. Cardinality(Due') <= Cardinality(Due) + 1
      BY <3>1, <3>2, <1>8, Zenon
    <3>4. Cardinality(Lost') <= Cardinality(Lost) + 1
      BY <3>1, <3>2, <1>8, Zenon
    <3> QED
      BY <3>1, <3>3, <3>4, Zenon
  <2>2. CASE InstanceUp(c)
    <3>1. downs' = downs /\ Due' \subseteq Due /\ Lost' \subseteq Lost
      BY <1>1, <2>2, Zenon DEF InstanceUp, Due, Lost
    <3>2. Cardinality(Due') <= Cardinality(Due) /\ Cardinality(Lost') <= Cardinality(Lost)
      BY <3>1, <1>8, CountMonotone, Zenon
    <3>3. /\ downs' = downs + 0 /\ Cardinality(Due') <= Cardinality(Due) + 0
          /\ Cardinality(Lost') <= Cardinality(Lost) + 0
      BY <3>1, <3>2, <1>5 DEF Counts
    <3> QED
      BY <3>3, Zenon
  <2> QED
    BY <2>1, <2>2, Zenon
<1>7. LiveBound' /\ AliveBound' /\ DeadBound'
  <2>1. PICK d \in {0, 1} : /\ downs' = downs + d
                           /\ Cardinality(Due') <= Cardinality(Due) + d
                           /\ Cardinality(Lost') <= Cardinality(Lost) + d
    BY <1>6, Zenon
  <2>2. LiveBound'
    BY <2>1, <1>1, <1>5 DEF LoopInv, LiveBound, Counts
  <2>3. AliveBound'
    <3>1. /\ Len(aliveCh') = Len(aliveCh) /\ Len(live') = Len(live)
          /\ Cardinality(doBGPCfg') = Cardinality(doBGPCfg)
      BY <1>1, Zenon
    <3>2. Len(aliveCh) + FwdAlive + Len(live) + Cardinality(Due)
            <= Cardinality(Client) + downs + Cardinality(doBGPCfg)
      BY Zenon DEF LoopInv, AliveBound
    <3>3. Len(aliveCh') + FwdAlive' + Len(live') + Cardinality(Due')
            <= Cardinality(Client) + downs' + Cardinality(doBGPCfg')
      BY <2>1, <3>1, <3>2, <1>4, <1>5, SMTT(60) DEF Counts
    <3> QED
      BY <3>3, Zenon DEF AliveBound
  <2>4. DeadBound'
    BY <2>1, <1>1, <1>4, <1>5 DEF LoopInv, DeadBound, Counts
  <2> QED
    BY <2>2, <2>3, <2>4, Zenon
<1> QED
  BY <1>2, <1>3, <1>7, Zenon DEF LoopInv, PurgeInv

(* A health check that finds its instance up or down again: an event that was *)
(* due is sent, and the channel has room for it.                             *)
LEMMA HealthStep ==
  ASSUME LoopConstants, Capacities, LoopInv, NEW c \in Client, HealthCheckChan(c)
  PROVE  LoopInv'
<1>1. UNCHANGED <<aliveCh, deadCh, up, downs, doBGPCfg, clients, peers, purge, agent, life>>
  BY Zenon DEF HealthCheckChan, HealthDown, HealthUp, HealthSend, world, pools, lbChs, lifeVars
<1>2. Counts
  BY CountTypes, Zenon DEF LoopInv
<1>3. FwdAlive' = FwdAlive /\ FwdDead' = FwdDead
  BY <1>1, Zenon DEF FwdAlive, FwdDead
<1>7. /\ downs <= MaxDown /\ MaxDown \in Nat /\ LiveCap \in Nat /\ DeadCap \in Nat
      /\ LiveCap >= Cardinality(Client) + MaxDown /\ DeadCap >= MaxDown
  BY Zenon DEF LoopInv, LoopTypes, LoopConstants, Capacities
<1>4. ~HealthSend(c)
  BY Zenon DEF HealthSend, LoopInv, LoopTypes
<1>5. CASE HealthUp(c)
  <2>1. c \in Due /\ Due' = Due \ {c} /\ Lost' = Lost /\ isAlive' = isAlive \cup {c}
    BY <1>1, <1>5, Zenon DEF HealthUp, Due, Lost
  <2>2. Cardinality(Due') = Cardinality(Due) - 1 /\ Cardinality(Due) >= 1
    BY <2>1, CountRemoves, CountedSets, Zenon DEF LoopInv
  <2>3. Len(live) < LiveCap
    <3>1. Len(live) + Cardinality(Due) <= Cardinality(Client) + downs
      BY Zenon DEF LoopInv, LiveBound
    <3> QED
      BY <3>1, <2>2, <1>2, <1>7 DEF Counts
  <2>4. live' = Append(live, c) /\ hc' = [hc EXCEPT ![c] = "wait"] /\ hc[c] = "wait" /\ dead' = dead
    BY <2>3, <1>5, Zenon DEF HealthUp, SendAlive
  <2>5. hc' = hc
    BY <2>4, Zenon DEF LoopInv, LoopTypes
  <2>6. LoopTypes' /\ Len(live') = Len(live) + 1
    BY <2>1, <2>4, <2>5, <1>1 DEF LoopInv, LoopTypes
  <2>7. Counts'
    BY <2>6, CountTypesNext, Zenon
  <2>8. LiveBound'
    BY <1>1, <1>2, <2>2, <2>6, <2>7 DEF LoopInv, LiveBound, Counts
  <2>9. AliveBound'
    BY <1>1, <1>2, <1>3, <2>2, <2>6, <2>7, SMTT(60) DEF LoopInv, AliveBound, Counts
  <2>10. DeadBound'
    BY <1>1, <1>3, <2>1, <2>4, Zenon DEF LoopInv, DeadBound
  <2>11. PurgeInv' /\ Requeued'
    BY <1>1, <2>5, PurgeFrame, RequeueFrame, Zenon DEF LoopInv, PurgeInv
  <2> QED
    BY <2>6, <2>8, <2>9, <2>10, <2>11, Zenon DEF LoopInv, PurgeInv
<1>6. CASE HealthDown(c)
  <2>1. c \in Lost /\ Lost' = Lost \ {c} /\ Due' = Due /\ isAlive' = isAlive \ {c} /\ live' = live
    BY <1>1, <1>6, Zenon DEF HealthDown, Due, Lost
  <2>2. Cardinality(Lost') = Cardinality(Lost) - 1 /\ Cardinality(Lost) >= 1
    BY <2>1, CountRemoves, CountedSets, Zenon DEF LoopInv
  <2>3. dead < DeadCap
    <3>1. deadCh + FwdDead + dead + Cardinality(Lost) <= downs
      BY Zenon DEF LoopInv, DeadBound
    <3> QED
      BY <3>1, <2>2, <1>2, <1>7 DEF Counts
  <2>4. hc[c] = "wait" /\ (UNCHANGED <<hc, dead>>
          \/ (dead' = dead + 1 /\ hc' = [hc EXCEPT ![c] = "wait"]))
    BY <2>3, <1>6, Zenon DEF HealthDown, SendDead
  <2>5. hc' = hc /\ (dead' = dead \/ dead' = dead + 1)
    BY <2>4, Zenon DEF LoopInv, LoopTypes
  <2>6. LoopTypes'
    BY <2>1, <2>5, <1>1 DEF LoopInv, LoopTypes
  <2>7. Counts'
    BY <2>6, CountTypesNext, Zenon
  <2>8. LiveBound' /\ AliveBound'
    BY <1>1, <1>3, <2>1, Zenon DEF LoopInv, LiveBound, AliveBound
  <2>9. DeadBound'
    BY <1>1, <1>2, <1>3, <2>2, <2>5, <2>7, SMTT(60) DEF LoopInv, DeadBound, Counts
  <2>10. PurgeInv' /\ Requeued'
    BY <1>1, <2>5, PurgeFrame, RequeueFrame, Zenon DEF LoopInv, PurgeInv
  <2> QED
    BY <2>6, <2>8, <2>9, <2>10, Zenon DEF LoopInv, PurgeInv
<1> QED
  BY <1>4, <1>5, <1>6, Zenon DEF HealthCheckChan

-----------------------------------------------------------------------------
(* The cases of the select loop and the sends inside them. *)
LEMMA SelectStep ==
  ASSUME LoopConstants, LoopInv,
         CaseDeadElects \/ CaseAlive \/ CaseDeadForwards \/ CasePurge \/ CaseTicker
  PROVE  LoopInv'
<1>1. UNCHANGED <<aliveCh, deadCh, up, downs, isAlive, doBGPCfg, hc, clients, peers, life>>
  BY Zenon DEF CaseDeadElects, CaseAlive, CaseDeadForwards, CasePurge, CaseTicker,
         world, health, pools, lbChs, lifeVars
<1>2. Counts
  BY CountTypes, Zenon DEF LoopInv
<1>3. agent = Select /\ ~Purging /\ FwdAlive = 0 /\ FwdDead = 0 /\ ~Purging'
  BY DEF CaseDeadElects, CaseAlive, CaseDeadForwards, CasePurge, CaseTicker, Select, Purging,
         FwdAlive, FwdDead
<1>4. Requeued'
  BY <1>1, RequeueFrame, Zenon DEF LoopInv
<1>5. Due' = Due /\ Lost' = Lost
  BY <1>1, Zenon DEF Due, Lost
<1>6. CASE CaseDeadElects \/ CaseDeadForwards
  <2>1. live' = live /\ purge' = purge /\ dead' = dead - 1 /\ dead > 0 /\ agent'.at # "fwdAlive"
    BY <1>6 DEF CaseDeadElects, CaseDeadForwards, Select
  <2>2. LoopTypes' /\ FwdAlive' = 0 /\ FwdDead' \in {0, 1}
    BY <2>1, <1>1 DEF LoopInv, LoopTypes, FwdAlive, FwdDead
  <2>3. LiveBound' /\ AliveBound'
    BY <2>1, <2>2, <1>1, <1>3, <1>5, Zenon DEF LoopInv, LiveBound, AliveBound
  <2>4. DeadBound'
    BY <2>1, <2>2, <1>1, <1>2, <1>3, <1>5, SMTT(60) DEF LoopInv, DeadBound, Counts
  <2>5. PurgeInv'
    BY <2>1, <1>1, <1>3, PurgeFrame, Zenon DEF LoopInv, PurgeInv
  <2> QED
    BY <2>2, <2>3, <2>4, <2>5, <1>4, Zenon DEF LoopInv, PurgeInv
<1>7. CASE CaseAlive
  <2>1. live # <<>> /\ live' = Tail(live) /\ agent' = [at |-> "fwdAlive", c |-> Head(live)]
        /\ purge' = purge /\ dead' = dead
    BY <1>7, Zenon DEF CaseAlive
  <2>2. live' \in Seq(Client) /\ Head(live) \in Client /\ Len(live') = Len(live) - 1
    BY <2>1 DEF LoopInv, LoopTypes
  <2>3. LoopTypes' /\ FwdAlive' = 1 /\ FwdDead' = 0
    BY <2>1, <2>2, <1>1, Zenon DEF LoopInv, LoopTypes, FwdAlive, FwdDead
  <2>4. LiveBound'
    BY <2>2, <1>1, <1>2, <1>5 DEF LoopInv, LiveBound, Counts
  <2>5. AliveBound'
    BY <2>2, <2>3, <1>1, <1>2, <1>3, <1>5, SMTT(60) DEF LoopInv, AliveBound, Counts
  <2>6. DeadBound'
    BY <2>1, <2>3, <1>1, <1>3, <1>5, Zenon DEF LoopInv, DeadBound
  <2>7. PurgeInv'
    BY <2>1, <1>1, <1>3, PurgeFrame, Zenon DEF LoopInv, PurgeInv
  <2> QED
    BY <2>3, <2>4, <2>5, <2>6, <2>7, <1>4, Zenon DEF LoopInv, PurgeInv
<1>8. CASE CasePurge \/ CaseTicker
  <2>1. live' = live /\ dead' = dead /\ agent'.at \notin {"fwdAlive", "fwdDead"}
    BY <1>8 DEF CasePurge, CaseTicker, agentChs
  <2>2. FwdAlive' = FwdAlive /\ FwdDead' = FwdDead
    BY <2>1, <1>3, Zenon DEF FwdAlive, FwdDead
  <2>3. Bounds'
    BY <2>1, <2>2, <1>1, BoundsFrame, Zenon DEF LoopInv, Bounds
  <2>4. CASE CasePurge
    <3>1. purge # <<>> /\ purge' = Tail(purge) /\ purge \in Seq(Client)
      BY <2>4, Zenon DEF CasePurge, LoopInv, LoopTypes
    <3>2. /\ purge' \in Seq(Client) /\ Len(purge') = Len(purge) - 1 /\ Len(purge) \in Nat
          /\ \A i \in 1..Len(purge') : purge'[i] = purge[i + 1] /\ i + 1 \in 1..Len(purge)
      BY <3>1
    <3>3. LoopTypes'
      BY <3>2, <2>1, <1>1, Zenon DEF LoopInv, LoopTypes
    <3>4. Purged'
      <4>1. ASSUME NEW i \in 1..Len(purge'), NEW j \in 1..Len(purge'), i # j
            PROVE  purge'[i] # purge'[j]
        <5>1. i + 1 \in 1..Len(purge) /\ j + 1 \in 1..Len(purge) /\ i + 1 # j + 1
          BY <3>2, <4>1
        <5> QED
          BY <3>2, <5>1 DEF LoopInv, Purged
      <4>2. \A i \in 1..Len(purge') : hc'[purge'[i]] = "stopped"
        BY <3>2, <1>1 DEF LoopInv, Purged
      <4> QED
        BY <4>1, <4>2, Zenon DEF Purged
    <3>5. PoolsApart' /\ Doomed'
      BY <1>1, <1>3, Zenon DEF LoopInv, PoolsApart, Doomed, NoneStopped
    <3> QED
      BY <2>3, <3>3, <3>4, <3>5, <1>4, Zenon DEF LoopInv, Bounds
  <2>5. CASE CaseTicker
    <3>1. purge' = purge
      BY <2>5, Zenon DEF CaseTicker, agentChs
    <3>2. LoopTypes'
      BY <3>1, <2>1, <1>1, Zenon DEF LoopInv, LoopTypes
    <3>3. PurgeInv'
      BY <3>1, <1>1, <1>3, PurgeFrame, Zenon DEF LoopInv, PurgeInv
    <3> QED
      BY <2>3, <3>2, <3>3, <1>4, Zenon DEF LoopInv, Bounds, PurgeInv
  <2> QED
    BY <1>8, <2>4, <2>5, Zenon
<1> QED
  BY <1>6, <1>7, <1>8, Zenon

LEMMA ForwardStep ==
  ASSUME LoopConstants, LoopInv, Forward
  PROVE  LoopInv'
<1>1. UNCHANGED <<live, dead, purge, up, downs, isAlive, doBGPCfg, hc, clients, peers, life>>
  BY Zenon DEF Forward, world, health, pools, agentChs, lifeVars
<1>2. Counts
  BY CountTypes, Zenon DEF LoopInv
<1>3. ~Purging /\ ~Purging' /\ FwdAlive' = 0 /\ FwdDead' = 0
  BY DEF Forward, Select, Purging, FwdAlive, FwdDead
<1>4. Requeued' /\ PurgeInv'
  BY <1>1, <1>3, RequeueFrame, PurgeFrame, Zenon DEF LoopInv, PurgeInv
<1>5. Due' = Due /\ Lost' = Lost
  BY <1>1, Zenon DEF Due, Lost
<1>6. LiveBound'
  BY <1>1, <1>5, Zenon DEF LoopInv, LiveBound
<1>7. CASE agent.at = "fwdAlive"
  <2>1. aliveCh' = Append(aliveCh, agent.c) /\ deadCh' = deadCh /\ agent.c \in Client
        /\ FwdAlive = 1 /\ FwdDead = 0
    BY <1>7, Zenon DEF Forward, FwdAlive, FwdDead, LoopInv, LoopTypes
  <2>2. LoopTypes' /\ Len(aliveCh') = Len(aliveCh) + 1
    BY <2>1, <1>1, <1>3 DEF LoopInv, LoopTypes, FwdAlive
  <2>3. AliveBound'
    BY <2>1, <2>2, <1>1, <1>2, <1>3, <1>5, SMTT(60) DEF LoopInv, AliveBound, Counts
  <2>4. DeadBound'
    BY <2>1, <1>1, <1>3, <1>5, Zenon DEF LoopInv, DeadBound
  <2> QED
    BY <2>2, <2>3, <2>4, <1>4, <1>6, Zenon DEF LoopInv, PurgeInv
<1>8. CASE agent.at = "fwdDead"
  <2>1. aliveCh' = aliveCh /\ deadCh' = deadCh + 1 /\ FwdAlive = 0 /\ FwdDead = 1
    BY <1>8, Zenon DEF Forward, FwdAlive, FwdDead
  <2>2. LoopTypes'
    BY <2>1, <1>1, <1>3 DEF LoopInv, LoopTypes, FwdAlive
  <2>3. AliveBound'
    BY <2>1, <1>1, <1>3, <1>5, Zenon DEF LoopInv, AliveBound
  <2>4. DeadBound'
    BY <2>1, <1>1, <1>2, <1>3, <1>5 DEF LoopInv, DeadBound, Counts
  <2> QED
    BY <2>2, <2>3, <2>4, <1>4, <1>6, Zenon DEF LoopInv, PurgeInv
<1>9. CASE agent.at \notin {"fwdAlive", "fwdDead"}
  <2>1. aliveCh' = aliveCh /\ deadCh' = deadCh /\ FwdAlive = 0 /\ FwdDead = 0
    BY <1>9, Zenon DEF Forward, FwdAlive, FwdDead
  <2>2. LoopTypes'
    BY <2>1, <1>1, <1>3 DEF LoopInv, LoopTypes, FwdAlive
  <2>3. AliveBound' /\ DeadBound'
    BY <2>1, <1>1, <1>3, <1>5, Zenon DEF LoopInv, AliveBound, DeadBound
  <2> QED
    BY <2>2, <2>3, <1>4, <1>6, Zenon DEF LoopInv, PurgeInv
<1> QED
  BY <1>7, <1>8, <1>9, Zenon

-----------------------------------------------------------------------------
(* A step that moves neither a counted event nor the pools: the loop elects, or *)
(* another goroutine goes on.                                                *)
LEMMA QuietStep ==
  ASSUME LoopConstants, LoopInv,
         SelectLoxiLBRoles \/ CaseSelMaster \/ TellRole \/ PostRole \/ CaseClientPurge
         \/ EgressClientAlive \/ UNCHANGED vars
  PROVE  LoopInv'
<1>1. UNCHANGED <<live, dead, purge, aliveCh, deadCh, up, downs, isAlive, doBGPCfg, hc, clients, peers>>
  BY Zenon DEF SelectLoxiLBRoles, CaseSelMaster, TellRole, PostRole, CaseClientPurge, EgressClientAlive,
         vars, world, health, pools, agentChs, lbChs, lifeVars
<1>2. agent' = agent \/ (/\ agent.at \in {"elect", "signal"}
                         /\ agent'.at \in {"signal", "select"})
  BY DEF SelectLoxiLBRoles, CaseSelMaster, TellRole, PostRole, CaseClientPurge, EgressClientAlive,
         vars, Select
<1>3. FwdAlive' = FwdAlive /\ FwdDead' = FwdDead /\ (agent' = agent \/ (~Purging /\ ~Purging'))
  BY <1>2, Zenon DEF FwdAlive, FwdDead, Purging
<1>4. Bounds' /\ PurgeInv'
  BY <1>1, <1>3, BoundsFrame, PurgeFrame, Zenon DEF LoopInv, Bounds, PurgeInv
<1>5. \/ life' = life \/ life'.at = "select"
      \/ life'.at = "tell" /\ life' = [at |-> "tell", todo |-> life'.todo]
      \/ life.at = "post" /\ life'.at = "bgp" /\ life'.c = life.c
  <2>1. CASE TellRole
    <3>1. life' = Select \/ life' = [life EXCEPT !.todo = Tail(life.todo)]
      BY <2>1, Zenon DEF TellRole
    <3>2. life = [at |-> "tell", todo |-> life.todo]
      BY <2>1, Zenon DEF TellRole, LoopInv, LoopTypes
    <3> QED
      BY <3>1, <3>2 DEF Select
  <2>2. CASE PostRole
    BY <2>2, Zenon DEF PostRole, Select
  <2>3. CASE ~TellRole /\ ~PostRole
    BY <2>3 DEF SelectLoxiLBRoles, CaseSelMaster, CaseClientPurge, EgressClientAlive, vars, lifeVars,
                Select
  <2> QED
    BY <2>1, <2>2, <2>3, Zenon
<1>6. Requeued'
  BY <1>1, <1>5, RequeueFrame, Zenon DEF LoopInv
<1>7. LoopTypes'
  BY <1>1, <1>2, <1>5, Zenon DEF LoopInv, LoopTypes
<1> QED
  BY <1>4, <1>6, <1>7, Zenon DEF LoopInv, Bounds, PurgeInv

-----------------------------------------------------------------------------
(* The life cycle goroutine takes an event and requeues refused clients. *)
LEMMA LifeCycleStep ==
  ASSUME LoopConstants, LoopInv, CaseClientAlive \/ ConfigureBGP \/ CheckHandleBGPCfgErrors
  PROVE  LoopInv'
<1>1. UNCHANGED <<live, dead, purge, deadCh, up, downs, isAlive, hc, clients, peers, agent>>
  BY Zenon DEF CaseClientAlive, ConfigureBGP, CheckHandleBGPCfgErrors, world, health, pools, agentChs, lbChs
<1>2. Counts
  BY CountTypes, Zenon DEF LoopInv
<1>3. FwdAlive' = FwdAlive /\ FwdDead' = FwdDead /\ Due' = Due /\ Lost' = Lost
  BY <1>1, Zenon DEF FwdAlive, FwdDead, Due, Lost
<1>4. LiveBound' /\ DeadBound' /\ PurgeInv'
  BY <1>1, <1>3, PurgeFrame, Zenon DEF LoopInv, LiveBound, DeadBound, PurgeInv
<1>5. CASE CaseClientAlive
  <2>1. PICK c : /\ c = Head(aliveCh) /\ doBGPCfg' = doBGPCfg \ {c}
                 /\ life'.at \in {"post", "bgp", "select"}
                 /\ life'.at \in {"post", "bgp"} => life'.c = c
    BY <1>5, Zenon DEF CaseClientAlive, Select
  <2>2. aliveCh # <<>> /\ aliveCh' = Tail(aliveCh)
    BY <1>5, Zenon DEF CaseClientAlive
  <2>3. c \in Client /\ aliveCh' \in Seq(Client) /\ Len(aliveCh') = Len(aliveCh) - 1
    BY <2>1, <2>2 DEF LoopInv, LoopTypes
  <2>4. LoopTypes' /\ Requeued'
    BY <2>1, <2>3, <1>1, Zenon DEF LoopInv, LoopTypes, Requeued
  <2>5. Cardinality(doBGPCfg') >= Cardinality(doBGPCfg) - 1 /\ Cardinality(doBGPCfg') \in Nat
    <3>1. CASE c \in doBGPCfg
      <4>1. Cardinality(doBGPCfg \ {c}) = Cardinality(doBGPCfg) - 1 /\ Cardinality(doBGPCfg) >= 1
        BY <3>1, CountRemoves, CountedSets, Zenon DEF LoopInv
      <4> QED
        BY <4>1, <2>1, <1>2 DEF Counts
    <3>2. CASE c \notin doBGPCfg
      <4>1. doBGPCfg' = doBGPCfg
        BY <3>2, <2>1, Zenon
      <4> QED
        BY <4>1, <1>2 DEF Counts
    <3> QED
      BY <3>1, <3>2, Zenon
  <2>6. AliveBound'
    BY <2>3, <2>5, <1>1, <1>2, <1>3, SMTT(60) DEF LoopInv, AliveBound, Counts
  <2> QED
    BY <2>4, <2>6, <1>4, Zenon DEF LoopInv, PurgeInv
<1>6. CASE ConfigureBGP
  <2>1. aliveCh' = aliveCh /\ doBGPCfg' = doBGPCfg
    BY <1>6, Zenon DEF ConfigureBGP, lbChs
  <2>2. PICK refused : /\ refused \subseteq ({life.c} \cup ToSet(clients) \cup ToSet(peers)) \ doBGPCfg
                       /\ \E s \in SetToSeqs(refused) :
                            life' = IF s = <<>> THEN Select ELSE [at |-> "requeue", todo |-> s]
    BY <1>6, Zenon DEF ConfigureBGP
  <2>3. PICK s \in SetToSeqs(refused) :
          life' = IF s = <<>> THEN Select ELSE [at |-> "requeue", todo |-> s]
    BY <2>2, Zenon
  <2>4. life.c \in Client /\ ToSet(clients) \subseteq Client /\ ToSet(peers) \subseteq Client
    BY <1>6 DEF ConfigureBGP, LoopInv, LoopTypes, ToSet
  <2>5. refused \in SUBSET Client
    BY <2>2, <2>4, Zenon
  <2>6. /\ s \in Seq(Client) /\ \A i \in 1..Len(s) : s[i] \in refused
        /\ \A i, j \in 1..Len(s) : i # j => s[i] # s[j]
    BY <2>5, Listed, Zenon DEF LoopConstants
  <2>7. Requeued'
    BY <2>1, <2>2, <2>3, <2>6, Zenon DEF Requeued, Select
  <2>8. LoopTypes'
    BY <2>1, <2>3, <1>1, Zenon DEF LoopInv, LoopTypes, Select
  <2>9. AliveBound'
    BY <2>1, <1>1, <1>3, Zenon DEF LoopInv, AliveBound
  <2> QED
    BY <2>7, <2>8, <2>9, <1>4, Zenon DEF LoopInv, PurgeInv
<1>7. CASE CheckHandleBGPCfgErrors
  <2> DEFINE q == life.todo
             c == Head(q)
  <2>1. /\ life = [at |-> "requeue", todo |-> q] /\ q \in Seq(Client) /\ q # <<>>
        /\ \A i, j \in 1..Len(q) : i # j => q[i] # q[j]
        /\ \A i \in 1..Len(q) : q[i] \notin doBGPCfg
    BY <1>7, Zenon DEF CheckHandleBGPCfgErrors, LoopInv, Requeued
  <2>2. /\ aliveCh' = Append(aliveCh, c) /\ doBGPCfg' = doBGPCfg \cup {c}
        /\ life' = IF Len(q) = 1 THEN Select ELSE [life EXCEPT !.todo = Tail(q)]
    BY <1>7, Zenon DEF CheckHandleBGPCfgErrors
  <2>3. c = q[1] /\ c \in Client /\ c \notin doBGPCfg /\ Len(q) \in Nat /\ Len(q) >= 1
    BY <2>1
  <2>4. /\ Len(q) # 1 => life' = [at |-> "requeue", todo |-> Tail(q)]
        /\ life'.at \in {"select", "requeue"}
    <3>1. ASSUME NEW t PROVE [[at |-> "requeue", todo |-> q] EXCEPT !.todo = t]
                               = [at |-> "requeue", todo |-> t]
      OBVIOUS
    <3>2. [life EXCEPT !.todo = Tail(q)] = [at |-> "requeue", todo |-> Tail(q)]
      BY <3>1, <2>1, Zenon
    <3> HIDE DEF q
    <3> QED
      BY <3>2, <2>2, Zenon DEF Select
  <2>5. /\ Tail(q) \in Seq(Client) /\ Len(Tail(q)) = Len(q) - 1
        /\ \A i \in 1..Len(Tail(q)) : Tail(q)[i] = q[i + 1] /\ i + 1 \in 1..Len(q) /\ i + 1 # 1
    BY <2>1, <2>3
  <2>6. LoopTypes' /\ Len(aliveCh') = Len(aliveCh) + 1
    <3>1. aliveCh' \in Seq(Client) /\ Len(aliveCh') = Len(aliveCh) + 1
      BY <2>2, <2>3 DEF LoopInv, LoopTypes
    <3>2. doBGPCfg' \subseteq Client
      BY <2>2, <2>3, Zenon DEF LoopInv, LoopTypes
    <3> HIDE DEF q, c
    <3> QED
      BY <3>1, <3>2, <2>4, <1>1, Zenon DEF LoopInv, LoopTypes
  <2>7. Requeued'
    <3>1. CASE Len(q) = 1
      BY <3>1, <2>2, Zenon DEF Requeued, Select
    <3>2. CASE Len(q) # 1
      <4>1. life' = [at |-> "requeue", todo |-> Tail(q)] /\ Tail(q) # <<>>
        <5>1. Len(Tail(q)) # 0
          BY <3>2, <2>3, <2>5
        <5>2. Tail(q) # <<>>
          BY <5>1, <2>5, EmptySeq, Zenon
        <5> HIDE DEF q
        <5> QED
          BY <5>2, <3>2, <2>4, Zenon
      <4>2. ASSUME NEW i \in 1..Len(Tail(q)), NEW j \in 1..Len(Tail(q)), i # j
            PROVE  Tail(q)[i] # Tail(q)[j]
        <5>1. i + 1 # j + 1
          BY <4>2, <2>3, <2>5
        <5> QED
          BY <5>1, <2>1, <2>5, Zenon
      <4>3. ASSUME NEW i \in 1..Len(Tail(q)) PROVE Tail(q)[i] \notin doBGPCfg'
        BY <2>1, <2>2, <2>3, <2>5
      <4> QED
        BY <4>1, <4>2, <4>3, <2>5, Zenon DEF Requeued
    <3> QED
      BY <3>1, <3>2, Zenon
  <2>8. Cardinality(doBGPCfg') = Cardinality(doBGPCfg) + 1
    BY <2>2, <2>3, CountAdds, CountedSets, Zenon DEF LoopInv
  <2>9. AliveBound'
    BY <2>6, <2>8, <1>1, <1>2, <1>3, SMTT(60) DEF LoopInv, AliveBound, Counts
  <2> QED
    BY <2>6, <2>7, <2>9, <1>4, Zenon DEF LoopInv, PurgeInv
<1> QED
  BY <1>5, <1>6, <1>7, Zenon

-----------------------------------------------------------------------------
(* Discovery: what is appended to a pool, and what is taken from it. *)
LEMMA FromEither ==
  ASSUME NEW p \in Seq(Client), NEW s \in Seq(Client)
  PROVE  /\ p \o s \in Seq(Client)
         /\ \A i \in 1..Len(p \o s) : \/ \E j \in 1..Len(p) : (p \o s)[i] = p[j]
                                      \/ \E j \in 1..Len(s) : (p \o s)[i] = s[j]
<1>1. p \o s \in Seq(Client) /\ Len(p) \in Nat /\ Len(s) \in Nat /\ Len(p \o s) = Len(p) + Len(s)
  BY ConcatProperties, LenProperties, Zenon
<1>2. ASSUME NEW i \in 1..Len(p \o s)
      PROVE  \/ \E j \in 1..Len(p) : (p \o s)[i] = p[j]
             \/ \E j \in 1..Len(s) : (p \o s)[i] = s[j]
  <2>1. CASE i <= Len(p)
    BY <1>1, <2>1, ConcatProperties
  <2>2. CASE i > Len(p)
    <3>1. i - Len(p) \in 1..Len(s) /\ (p \o s)[i] = s[i - Len(p)]
      BY <1>1, <2>2, ConcatProperties
    <3> QED
      BY <3>1, Zenon
  <2> QED
    BY <1>1, <2>1, <2>2
<1> QED
  BY <1>1, <1>2, Zenon

TakenFrom(t, p, S) ==
  /\ t \in Seq(Client) /\ \A i, j \in 1..Len(t) : i # j => t[i] # t[j]
  /\ \A i \in 1..Len(t) : t[i] \in S /\ \E k \in 1..Len(p) : t[i] = p[k]

LEMMA FilteredListed ==
  ASSUME IsFiniteSet(Client), NEW p \in Seq(Client), NEW S \in SUBSET Client, NEW t \in Filtered(p, S)
  PROVE  TakenFrom(t, p, S)
<1>1. t \in SetToSeqs(ToSet(p) \cap S) /\ ToSet(p) \cap S \in SUBSET Client
  BY Zenon DEF Filtered
<1>2. /\ t \in Seq(Client) /\ \A i \in 1..Len(t) : t[i] \in ToSet(p) \cap S
      /\ \A i, j \in 1..Len(t) : i # j => t[i] # t[j]
  BY <1>1, Listed, Zenon
<1>3. DOMAIN p = 1..Len(p)
  BY LenProperties, Zenon
<1> QED
  BY <1>2, <1>3, Zenon DEF ToSet, TakenFrom

LEMMA DiscoverStep ==
  ASSUME LoopConstants, LoopInv, NEW pool \in {"clients", "peers"}, Discover(pool)
  PROVE  LoopInv'
<1>1. UNCHANGED <<live, dead, purge, aliveCh, deadCh, up, downs, isAlive, doBGPCfg, life>>
  BY Zenon DEF Discover, world, agentChs, lbChs, lifeVars
<1>2. ~Purging /\ FwdAlive = 0 /\ FwdDead = 0
  BY Zenon DEF Discover, Purging, FwdAlive, FwdDead
<1>3. PICK E \in SUBSET {c \in Hosts(pool) : hc[c] # "stopped"} :
        LET new == {c \in E : hc[c] = "none"} IN
        \E s \in SetToSeqs(new), doomed \in Filtered(Pool(pool), Client \ E) :
          /\ hc' = [c \in Client |-> IF c \in new THEN "wait" ELSE hc[c]]
          /\ IF pool = "peers" THEN peers' = peers \o s /\ UNCHANGED clients
                              ELSE clients' = clients \o s /\ UNCHANGED peers
          /\ agent' = IF doomed = <<>> THEN AfterDiscovery(pool)
                      ELSE [at |-> "stop", pool |-> pool, doomed |-> doomed]
  BY Zenon DEF Discover, GetLoxilbServiceEndPoints
<1> DEFINE new == {c \in E : hc[c] = "none"}
<1>4. PICK s \in SetToSeqs(new), doomed \in Filtered(Pool(pool), Client \ E) :
        /\ hc' = [c \in Client |-> IF c \in new THEN "wait" ELSE hc[c]]
        /\ IF pool = "peers" THEN peers' = peers \o s /\ UNCHANGED clients
                            ELSE clients' = clients \o s /\ UNCHANGED peers
        /\ agent' = IF doomed = <<>> THEN AfterDiscovery(pool)
                    ELSE [at |-> "stop", pool |-> pool, doomed |-> doomed]
  BY <1>3, Zenon
<1>5. new \in SUBSET Client /\ new \subseteq Hosts(pool) /\ Hosts(pool) \subseteq Client
  BY <1>3, Zenon DEF Hosts, LoopConstants
<1>0. IsFiniteSet(Client) /\ Client \ E \in SUBSET Client
  BY Zenon DEF LoopConstants
<1>6. s \in Seq(Client) /\ \A i \in 1..Len(s) : s[i] \in new
  BY <1>0, <1>5, Listed, Zenon
<1>7. Pool(pool) \in Seq(Client) /\ NoneStopped(Pool(pool))
      /\ \A i \in 1..Len(Pool(pool)) : Pool(pool)[i] \in Hosts(pool)
  BY <1>2 DEF Pool, Hosts, LoopInv, LoopTypes, PoolsApart
<1>8. /\ doomed \in Seq(Client) /\ \A i, j \in 1..Len(doomed) : i # j => doomed[i] # doomed[j]
      /\ \A i \in 1..Len(doomed) : \E k \in 1..Len(Pool(pool)) : doomed[i] = Pool(pool)[k]
  <2>1. TakenFrom(doomed, Pool(pool), Client \ E)
    BY <1>0, <1>7, FilteredListed, Zenon
  <2> QED
    BY <2>1, Zenon DEF TakenFrom
<1>9. /\ hc' \in [Client -> {"none", "wait", "stopped"}]
      /\ \A c \in Client : hc'[c] = "stopped" <=> hc[c] = "stopped"
  BY <1>4, Zenon DEF LoopInv, LoopTypes
<1>10. \A i \in 1..Len(doomed) : doomed[i] \in Hosts(pool) /\ hc'[doomed[i]] # "stopped"
  BY <1>5, <1>7, <1>8, <1>9 DEF NoneStopped
<1>11. /\ clients' \in Seq(Client) /\ peers' \in Seq(Client)
       /\ \A i \in 1..Len(clients') : clients'[i] \notin Peer /\ hc'[clients'[i]] # "stopped"
       /\ \A i \in 1..Len(peers') : peers'[i] \in Peer /\ hc'[peers'[i]] # "stopped"
  <2>1. /\ clients \in Seq(Client) /\ peers \in Seq(Client)
        /\ \A i \in 1..Len(clients) : clients[i] \notin Peer /\ hc'[clients[i]] # "stopped"
        /\ \A i \in 1..Len(peers) : peers[i] \in Peer /\ hc'[peers[i]] # "stopped"
    BY <1>2, <1>9 DEF LoopInv, LoopTypes, PoolsApart, NoneStopped
  <2>2. \A i \in 1..Len(s) : s[i] \in Hosts(pool) /\ hc'[s[i]] # "stopped"
    BY <1>4, <1>5, <1>6, Zenon
  <2>3. CASE pool = "clients"
    <3>1. clients' = clients \o s /\ peers' = peers
      BY <1>4, <2>3, Zenon
    <3>2. \A i \in 1..Len(s) : s[i] \notin Peer /\ hc'[s[i]] # "stopped"
      BY <2>2, <2>3, Zenon DEF Hosts
    <3>3. clients' \in Seq(Client)
      BY <3>1, <2>1, <1>6, FromEither, Zenon
    <3>4. \A i \in 1..Len(clients') : clients'[i] \notin Peer /\ hc'[clients'[i]] # "stopped"
      BY <3>1, <3>2, <2>1, <1>6, FromEither
    <3> QED
      BY <3>1, <3>3, <3>4, <2>1, Zenon
  <2>4. CASE pool = "peers"
    <3>1. peers' = peers \o s /\ clients' = clients
      BY <1>4, <2>4, Zenon
    <3> QED
      BY <3>1, <2>1, <2>2, <2>4, <1>6, FromEither DEF Hosts
  <2> QED
    BY <2>3, <2>4, Zenon
<1>12. agent'.at \notin {"fwdAlive", "fwdDead", "purging"}
       /\ (Purging' => doomed # <<>> /\ agent' = [at |-> "stop", pool |-> pool, doomed |-> doomed])
  BY <1>4, Zenon DEF AfterDiscovery, Select, Purging
<1>13. PoolsApart'
  BY <1>11, Zenon DEF PoolsApart, NoneStopped
<1>14. Doomed'
  <2>1. CASE ~Purging'
    BY <2>1, Zenon DEF Doomed
  <2>2. CASE Purging'
    <3>1. doomed # <<>> /\ agent' = [at |-> "stop", pool |-> pool, doomed |-> doomed]
      BY <1>12, <2>2, Zenon
    <3>2. Len(doomed) \in Nat /\ Len(doomed) # 0
      BY <3>1, <1>8, EmptySeq, LenProperties, Zenon
    <3> QED
      BY <3>1, <3>2, <1>8, <1>10 DEF Doomed, Hosts
  <2> QED
    BY <2>1, <2>2, Zenon
<1>15. Purged'
  BY <1>1, <1>9 DEF LoopInv, LoopTypes, Purged
<1>16. LoopTypes'
  BY <1>1, <1>9, <1>11, <1>12, Zenon DEF LoopInv, LoopTypes
<1>17. Bounds' /\ Requeued'
  <2>1. FwdAlive' = FwdAlive /\ FwdDead' = FwdDead
    BY <1>2, <1>12, Zenon DEF FwdAlive, FwdDead
  <2> QED
    BY <2>1, <1>1, BoundsFrame, RequeueFrame, Zenon DEF LoopInv, Bounds
<1> QED
  BY <1>13, <1>14, <1>15, <1>16, <1>17, Zenon DEF LoopInv, Bounds

(* StopLoxiHealthCheckChan and the send that follows it. *)
LEMMA PurgeStep ==
  ASSUME LoopConstants, LoopInv, StopLoxiHealthCheckChan \/ SendPurged
  PROVE  LoopInv'
<1>1. UNCHANGED <<live, dead, aliveCh, deadCh, up, downs, isAlive, doBGPCfg, life>>
  BY Zenon DEF StopLoxiHealthCheckChan, SendPurged, world, health, agentChs, lbChs, lifeVars
<1>0. IsFiniteSet(Client)
  BY Zenon DEF LoopConstants
<1>2. Purging /\ FwdAlive = 0 /\ FwdDead = 0
  BY Zenon DEF StopLoxiHealthCheckChan, SendPurged, Purging, FwdAlive, FwdDead
<1>3. PICK at \in {"stop", "purging"}, pool \in {"clients", "peers"}, d \in Seq(Client) :
        /\ agent = [at |-> at, pool |-> pool, doomed |-> d] /\ d # <<>>
        /\ \A i, j \in 1..Len(d) : i # j => d[i] # d[j]
        /\ \A i \in 1..Len(d) : d[i] \in Hosts(pool)
        /\ \A i \in 1..Len(d) : i # 1 => hc[d[i]] # "stopped"
        /\ at = "stop" => hc[d[1]] # "stopped"
        /\ at = "purging" => /\ hc[d[1]] = "stopped"
                             /\ \A i \in 1..Len(purge) : purge[i] # d[1]
  BY <1>2, Zenon DEF LoopInv, Doomed, Purging
<1>4. agent.at = at /\ agent.pool = pool /\ agent.doomed = d
  BY <1>3, Zenon
<1>5. Len(d) \in Nat /\ Len(d) >= 1 /\ Head(d) = d[1] /\ d[1] \in Client /\ 1 \in 1..Len(d)
  BY <1>3
<1> DEFINE c == d[1]
<1>6. /\ pool = "clients" \/ NoneStopped(clients)
      /\ pool = "peers" \/ NoneStopped(peers)
  BY <1>4, Zenon DEF LoopInv, PoolsApart
<1>7. CASE StopLoxiHealthCheckChan
  <2>1. /\ at = "stop" /\ hc' = [hc EXCEPT ![c] = "stopped"] /\ UNCHANGED <<clients, peers, purge>>
        /\ agent' = [agent EXCEPT !.at = "purging"]
    BY <1>4, <1>5, <1>7, Zenon DEF StopLoxiHealthCheckChan, pools, agentChs
  <2>2. agent' = [at |-> "purging", pool |-> pool, doomed |-> d]
    BY <1>3, <2>1, Zenon
  <2>3. /\ hc' \in [Client -> {"none", "wait", "stopped"}] /\ hc'[c] = "stopped" /\ hc[c] # "stopped"
        /\ \A x \in Client : x # c => hc'[x] = hc[x]
    BY <1>3, <1>5, <2>1, Zenon DEF LoopInv, LoopTypes
  <2>4. LoopTypes' /\ FwdAlive' = FwdAlive /\ FwdDead' = FwdDead
    BY <1>1, <1>2, <2>1, <2>2, <2>3, Zenon DEF LoopInv, LoopTypes, FwdAlive, FwdDead
  <2>5. PoolsApart'
    <3>1. pool = "clients" => c \notin Peer
      BY <1>3, <1>5, Zenon DEF Hosts
    <3>2. pool = "peers" => c \in Peer
      BY <1>3, <1>5, Zenon DEF Hosts
    <3>3. pool = "clients" \/ NoneStopped(clients)'
      BY <1>6, <2>1, <2>3, <3>2, <1>3 DEF NoneStopped, LoopInv, LoopTypes, PoolsApart
    <3>4. pool = "peers" \/ NoneStopped(peers)'
      BY <1>6, <2>1, <2>3, <3>1, <1>3 DEF NoneStopped, LoopInv, LoopTypes, PoolsApart
    <3>5. Purging' /\ agent'.pool = pool
      BY <2>2, Zenon DEF Purging
    <3> QED
      BY <2>1, <3>3, <3>4, <3>5, Zenon DEF LoopInv, PoolsApart
  <2>6. Purged' /\ \A i \in 1..Len(purge') : purge'[i] # c
    BY <2>1, <2>3 DEF LoopInv, LoopTypes, Purged
  <2>7. Doomed'
    <3>1. agent'.at = "purging" /\ agent'.pool = pool /\ agent'.doomed = d
      BY <2>2, Zenon
    <3>2. \A i \in 1..Len(d) : i # 1 => hc'[d[i]] # "stopped"
      BY <1>3, <1>5, <2>3
    <3> QED
      BY <1>3, <2>2, <2>3, <2>6, <3>1, <3>2, ZenonT(30) DEF Doomed, Hosts
  <2> QED
    BY <1>1, <2>4, <2>5, <2>6, <2>7, BoundsFrame, RequeueFrame, Zenon DEF LoopInv, Bounds
<1>8. CASE SendPurged
  <2>1. /\ at = "purging" /\ purge' = Append(purge, c) /\ hc' = hc
        /\ \/ /\ Tail(d) # <<>> /\ UNCHANGED <<clients, peers>>
              /\ agent' = [agent EXCEPT !.at = "stop", !.doomed = Tail(d)]
           \/ /\ agent' = AfterDiscovery(pool)
              /\ \/ /\ pool = "peers" /\ UNCHANGED clients
                    /\ peers' \in Filtered(peers, {x \in Client : hc[x] # "stopped"})
                 \/ /\ pool = "clients" /\ UNCHANGED peers
                    /\ clients' \in Filtered(clients, {x \in Client : hc[x] # "stopped"})
    BY <1>3, <1>4, <1>5, <1>8, Zenon DEF SendPurged, pools, health
  <2>2. /\ purge' \in Seq(Client) /\ Len(purge') = Len(purge) + 1 /\ Len(purge) \in Nat
        /\ \A i \in 1..Len(purge) : purge'[i] = purge[i]
        /\ purge'[Len(purge) + 1] = c
    BY <2>1, <1>5 DEF LoopInv, LoopTypes
  <2>3. Purged'
    <3>1. \A i \in 1..Len(purge') : i \in 1..Len(purge) \/ i = Len(purge) + 1
      BY <2>2
    <3>2. ASSUME NEW i \in 1..Len(purge'), NEW j \in 1..Len(purge'), i # j
          PROVE  purge'[i] # purge'[j]
      BY <3>1, <3>2, <2>1, <2>2, <1>3 DEF LoopInv, Purged
    <3>3. \A i \in 1..Len(purge') : hc'[purge'[i]] = "stopped"
      BY <3>1, <2>1, <2>2, <1>3, Zenon DEF LoopInv, Purged
    <3> QED
      BY <3>2, <3>3, Zenon DEF Purged
  <2>4. CASE Tail(d) # <<>> /\ UNCHANGED <<clients, peers>>
             /\ agent' = [agent EXCEPT !.at = "stop", !.doomed = Tail(d)]
    <3>1. agent' = [at |-> "stop", pool |-> pool, doomed |-> Tail(d)]
      BY <1>3, <2>4, Zenon
    <3>2. LoopTypes' /\ FwdAlive' = FwdAlive /\ FwdDead' = FwdDead
      BY <1>1, <1>2, <2>1, <2>2, <2>4, <3>1, Zenon DEF LoopInv, LoopTypes, FwdAlive, FwdDead
    <3>3. PoolsApart'
      BY <1>6, <2>1, <2>4, <3>1, Zenon DEF LoopInv, PoolsApart, NoneStopped, Purging
    <3>4. /\ Tail(d) \in Seq(Client) /\ Len(Tail(d)) \in Nat
          /\ \A i \in 1..Len(Tail(d)) : Tail(d)[i] = d[i + 1] /\ i + 1 \in 1..Len(d) /\ i + 1 # 1
      BY <1>5
    <3>5. Len(Tail(d)) >= 1
      BY <2>4, <3>4, EmptySeq
    <3>6. ASSUME NEW i \in 1..Len(Tail(d)), NEW j \in 1..Len(Tail(d)), i # j
          PROVE  Tail(d)[i] # Tail(d)[j]
      <4>1. i + 1 # j + 1
        BY <3>4, <3>6
      <4> QED
        BY <4>1, <3>4, <1>3
    <3>7. \A i \in 1..Len(Tail(d)) : Tail(d)[i] \in Hosts(pool) /\ hc'[Tail(d)[i]] # "stopped"
      BY <3>4, <2>1, <1>3, Zenon
    <3>8. agent'.at = "stop" /\ agent'.pool = pool /\ agent'.doomed = Tail(d)
      BY <3>1, Zenon
    <3>9. Doomed'
      <4> DEFINE q == Tail(d)
      <4>1. /\ agent' = [at |-> "stop", pool |-> pool, doomed |-> q]
            /\ agent'.at = "stop" /\ agent'.pool = pool /\ agent'.doomed = q
        BY <3>1, <3>8, Zenon
      <4>2. q \in Seq(Client) /\ q # <<>> /\ 1 \in 1..Len(q)
        BY <2>4, <3>4, <3>5
      <4>3. /\ \A i, j \in 1..Len(q) : i # j => q[i] # q[j]
            /\ \A i \in 1..Len(q) : q[i] \in Hosts(pool) /\ hc'[q[i]] # "stopped"
        BY <3>6, <3>7, Zenon
      <4> HIDE DEF q
      <4> QED
        BY <1>3, <4>1, <4>2, <4>3 DEF Doomed, Hosts
    <3> QED
      BY <1>1, <2>3, <3>2, <3>3, <3>9, BoundsFrame, RequeueFrame, Zenon DEF LoopInv, Bounds
  <2>5. CASE agent' = AfterDiscovery(pool)
    <3>1. agent'.at \in {"discoverPeer", "elect", "select"}
      BY <2>5, Zenon DEF AfterDiscovery, Select
    <3>2. /\ clients' \in Seq(Client) /\ peers' \in Seq(Client)
          /\ \A i \in 1..Len(clients') : clients'[i] \notin Peer /\ hc'[clients'[i]] # "stopped"
          /\ \A i \in 1..Len(peers') : peers'[i] \in Peer /\ hc'[peers'[i]] # "stopped"
      <4> DEFINE kept == {x \in Client : hc[x] # "stopped"}
      <4>1. \/ pool = "peers" /\ UNCHANGED clients /\ peers' \in Filtered(peers, kept)
            \/ pool = "clients" /\ UNCHANGED peers /\ clients' \in Filtered(clients, kept)
            \/ Tail(d) # <<>> /\ agent' = [at |-> "stop", pool |-> pool, doomed |-> Tail(d)]
        BY <2>1, <1>3, Zenon
      <4>2. /\ clients \in Seq(Client) /\ peers \in Seq(Client) /\ kept \in SUBSET Client
            /\ \A i \in 1..Len(clients) : clients[i] \notin Peer
            /\ \A i \in 1..Len(peers) : peers[i] \in Peer
        BY Zenon DEF LoopInv, LoopTypes, PoolsApart
      <4> HIDE DEF kept
      <4>3. CASE pool = "peers" /\ UNCHANGED clients /\ peers' \in Filtered(peers, kept)
        <5>1. /\ peers' \in Seq(Client)
              /\ \A i \in 1..Len(peers') :
                   peers'[i] \in kept /\ \E k \in 1..Len(peers) : peers'[i] = peers[k]
          <6>1. TakenFrom(peers', peers, kept)
            BY <1>0, <4>2, <4>3, FilteredListed, Zenon
          <6> QED
            BY <6>1, Zenon DEF TakenFrom
        <5>2. \A i \in 1..Len(clients) : hc[clients[i]] # "stopped"
          BY <1>6, <4>3, Zenon DEF NoneStopped
        <5> QED
          BY <5>1, <5>2, <4>2, <4>3, <2>1, Zenon DEF kept
      <4>4. CASE pool = "clients" /\ UNCHANGED peers /\ clients' \in Filtered(clients, kept)
        <5>1. /\ clients' \in Seq(Client)
              /\ \A i \in 1..Len(clients') :
                   clients'[i] \in kept /\ \E k \in 1..Len(clients) : clients'[i] = clients[k]
          <6>1. TakenFrom(clients', clients, kept)
            BY <1>0, <4>2, <4>4, FilteredListed, Zenon
          <6> QED
            BY <6>1, Zenon DEF TakenFrom
        <5>2. \A i \in 1..Len(peers) : hc[peers[i]] # "stopped"
          BY <1>6, <4>4, Zenon DEF NoneStopped
        <5> QED
          BY <5>1, <5>2, <4>2, <4>4, <2>1, Zenon DEF kept
      <4>5. agent' # [at |-> "stop", pool |-> pool, doomed |-> Tail(d)]
        BY <3>1
      <4> QED
        BY <4>1, <4>3, <4>4, <4>5, Zenon
    <3>3. LoopTypes' /\ FwdAlive' = FwdAlive /\ FwdDead' = FwdDead /\ ~Purging'
      BY <1>1, <1>2, <2>1, <2>2, <3>1, <3>2, Zenon DEF LoopInv, LoopTypes, FwdAlive, FwdDead, Purging
    <3>4. PoolsApart' /\ Doomed'
      BY <3>2, <3>3, Zenon DEF PoolsApart, NoneStopped, Doomed
    <3> QED
      BY <1>1, <2>3, <3>3, <3>4, BoundsFrame, RequeueFrame, Zenon DEF LoopInv, Bounds
  <2> QED
    BY <2>1, <2>4, <2>5, Zenon
<1> QED
  BY <1>7, <1>8, Zenon

-----------------------------------------------------------------------------
LEMMA LoopStep ==
  ASSUME LoopConstants, Capacities, LoopInv, [Next]_vars
  PROVE  LoopInv'
<1>1. ASSUME NEW c \in Client, InstanceDown(c) \/ InstanceUp(c) \/ HealthCheckChan(c)
      PROVE  LoopInv'
  BY <1>1, InstanceStep, HealthStep, Zenon
<1>2. CASE AgentStep
  <2>1. CASE CaseDeadElects \/ CaseAlive \/ CaseDeadForwards \/ CasePurge \/ CaseTicker
    BY <2>1, SelectStep, Zenon
  <2>2. CASE Forward
    BY <2>2, ForwardStep, Zenon
  <2>3. CASE DiscoverLoxiLBServices \/ DiscoverLoxiLBPeerServices
    BY <2>3, DiscoverStep, Zenon DEF DiscoverLoxiLBServices, DiscoverLoxiLBPeerServices
  <2>4. CASE StopLoxiHealthCheckChan \/ SendPurged
    BY <2>4, PurgeStep, Zenon
  <2>5. CASE SelectLoxiLBRoles
    BY <2>5, QuietStep, Zenon
  <2> QED
    BY <1>2, <2>1, <2>2, <2>3, <2>4, <2>5, Zenon DEF AgentStep
<1>3. CASE LifeStep
  <2>1. CASE CaseSelMaster \/ TellRole \/ PostRole \/ CaseClientPurge
    BY <2>1, QuietStep, Zenon
  <2>2. CASE CaseClientAlive \/ ConfigureBGP \/ CheckHandleBGPCfgErrors
    BY <2>2, LifeCycleStep, Zenon
  <2> QED
    BY <1>3, <2>1, <2>2, Zenon DEF LifeStep
<1>4. CASE EgressClientAlive \/ UNCHANGED vars
  BY <1>4, QuietStep, Zenon
<1> QED
  BY <1>1, <1>2, <1>3, <1>4, Zenon DEF Next

(* The invariant leaves room in the channel a goroutine would wait for. *)
LEMMA RoomLeft ==
  ASSUME LoopConstants, Capacities, LoopInv
  PROVE  NoCircularWait
<1>1. Counts
  BY CountTypes, Zenon DEF LoopInv
<1>6. /\ downs <= MaxDown /\ MaxDown \in Nat /\ PurgeCap \in Nat /\ ClientDeadCap \in Nat
      /\ PurgeCap >= Cardinality(Client) /\ ClientDeadCap >= MaxDown
      /\ AliveCap \in Nat /\ AliveCap >= Cardinality(Client) + Cardinality(Client) + MaxDown
  BY Zenon DEF LoopInv, LoopTypes, LoopConstants, Capacities
<1>2. ASSUME agent.at = "purging" PROVE Len(purge) < PurgeCap
  <2>1. /\ agent.doomed \in Seq(Client) /\ agent.doomed # <<>>
        /\ \A i \in 1..Len(purge) : purge[i] # agent.doomed[1]
    BY <1>2, Zenon DEF LoopInv, Doomed, Purging
  <2>2. PICK c \in Client : c = agent.doomed[1]
    BY <2>1
  <2>3. purge \in Seq(Client) /\ \A i, j \in 1..Len(purge) : i # j => purge[i] # purge[j]
    BY Zenon DEF LoopInv, LoopTypes, Purged
  <2>4. Len(purge) < Cardinality(Client)
    BY <2>1, <2>2, <2>3, FewerThanClients, Zenon DEF LoopConstants
  <2>5. Len(purge) \in Nat
    BY <2>3, LenProperties, Zenon
  <2> QED
    BY <2>4, <2>5, <1>1, <1>6 DEF Counts
<1>3. ASSUME agent.at = "stop" PROVE hc[Head(agent.doomed)] \notin {"sendAlive", "sendDead"}
  <2>1. agent.doomed \in Seq(Client) /\ agent.doomed # <<>>
    BY <1>3, Zenon DEF LoopInv, Doomed, Purging
  <2>2. Head(agent.doomed) \in Client
    BY <2>1
  <2> QED
    BY <2>2, Zenon DEF LoopInv, LoopTypes
<1>4. ASSUME agent.at = "fwdDead" PROVE deadCh < ClientDeadCap
  <2>1. FwdDead = 1
    BY <1>4, Zenon DEF FwdDead
  <2> QED
    <3>1. deadCh + 1 <= downs
      BY <2>1, <1>1, SMTT(60) DEF LoopInv, DeadBound, Counts
    <3> QED
      BY <3>1, <1>1, <1>6 DEF Counts
<1>5. ASSUME life.at = "requeue" PROVE Len(aliveCh) < AliveCap
  <2>1. /\ life.todo \in Seq(Client) /\ life.todo # <<>>
        /\ \A i \in 1..Len(life.todo) : life.todo[i] \notin doBGPCfg
    BY <1>5, Zenon DEF LoopInv, Requeued
  <2>2. PICK c \in Client : c \notin doBGPCfg
    <3>1. 1 \in 1..Len(life.todo) /\ life.todo[1] \in Client
      BY <2>1
    <3> QED
      BY <3>1, <2>1, Zenon
  <2>3. Cardinality(doBGPCfg) <= Cardinality(Client \ {c})
    <3>1. IsFiniteSet(Client) /\ Client \ {c} \in SUBSET Client /\ doBGPCfg \in SUBSET (Client \ {c})
      BY <2>2, CountedSets, Zenon DEF LoopInv
    <3> QED
      BY <3>1, CountMonotone, Zenon
  <2>4. Cardinality(Client \ {c}) = Cardinality(Client) - 1
    BY <2>2, CountRemoves, Zenon DEF LoopConstants
  <2>5. Len(aliveCh) + FwdAlive + Len(live) + Cardinality(Due)
          <= Cardinality(Client) + downs + Cardinality(doBGPCfg)
    BY Zenon DEF LoopInv, AliveBound
  <2>6. Len(aliveCh) <= Cardinality(Client) + downs + Cardinality(doBGPCfg)
    BY <2>5, <1>1, SMTT(60) DEF Counts
  <2>7. Cardinality(doBGPCfg) <= Cardinality(Client) - 1
    BY <2>3, <2>4, Zenon
  <2>8. Len(aliveCh) <= Cardinality(Client) + MaxDown + (Cardinality(Client) - 1)
    BY <2>6, <2>7, <1>1, <1>6 DEF Counts
  <2> QED
    BY <2>8, <1>1, <1>6 DEF Counts
<1> QED
  BY <1>2, <1>3, <1>4, <1>5, Zenon DEF NoCircularWait

(* No goroutine waits in a circle (agent.go's loop, StartLoxiHealthCheckChan,  *)
(* StopLoxiHealthCheckChan, checkHandleBGPCfgErrors): however clients are        *)
(* discovered and purged, fail, restart between two checks and are requeued, the *)
(* loop finds room in loxiLBPurgeCh and ClientDeadCh, stops only health checks    *)
(* that listen, and the life cycle goroutine finds room in its own ClientAliveCh. *)
(* Capacities is all this needs, and the size of ClientPurgeCh does not matter.   *)
THEOREM NobodyWaitsInACircle ==
  ASSUME LoopConstants, Capacities
  PROVE  Spec => []NoCircularWait
<1>1. Init => LoopInv
  BY LoopInitially, Zenon
<1>2. LoopInv /\ [Next]_vars => LoopInv'
  BY LoopStep, Zenon
<1>3. LoopInv => NoCircularWait
  BY RoomLeft, Zenon
<1> QED
  BY <1>1, <1>2, <1>3, PTL DEF Spec

=============================================================================
