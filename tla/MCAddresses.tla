----------------------------- MODULE MCAddresses -----------------------------
(* Who holds which address, for TLC: the pool and its users (IPPoolUsers), ranges      *)
(* (IPRange), primary addresses (LoadBalancer) and secondary ones (Secondary), the       *)
(* addresses in the status of a service (ServiceStatus) and those of gateways (Gateway). *)
(* A behaviour is one of one component in one environment, its part; the other           *)
(* components stay in their initial states.                                             *)
EXTENDS IPPoolUsers, IPRange, ServiceStatus, TLC

CONSTANTS x1, x2, p1, p2, c1, s1, s2, m1, e1, a1, a2, g1, g2, w1, None

VARIABLES
  part,
  want, secCache, secHeld, rule, running, revisions,                       \* of Secondary
  gwHeld, gwApi, rv, watch, heap, store, gwQueue, proc, svc, edits,        \* of Gateways
  lbHeld, api, lister, eps, queue, lbCache, rules, late, w, up, lbRestarts \* of LoadBalancer

poolVars == <<held, granted>>
secVars == <<want, secCache, secHeld, rule, running, revisions>>
gatewayVars == <<gwHeld, gwApi, rv, watch, heap, store, gwQueue, proc, svc, edits>>
lbVars == <<lbHeld, api, lister, eps, queue, lbCache, rules, late, w, up, lbRestarts>>
allVars == <<part, poolVars, rangeVars, statusVars, secVars, gatewayVars, lbVars>>

-----------------------------------------------------------------------------
(* Ranges and CIDRs of v4 and of v6 addresses, few of whose octets vary. *)
Some4 == {<<10, a, b, c>> : a \in {0, 1}, b \in 0..3, c \in 0..3}
Some6 == {<<32, 1, a, b, 0, 0, 0, 0, 0, 0, 0, 0, 0, 0, 0, c>> : a \in {0, 1}, b \in {0, 1}, c \in 0..3}
SomeOctets == 0..255
SomeIPs == Some4 \cup Some6
SomeRanges == {r \in (Some4 \X Some4) \cup (Some6 \X Some6) : LessEq(r[1], r[2])}
SomeNets == {<<a, n>> : a \in Some4, n \in 0..4} \cup {<<a, n>> : a \in Some6, n \in {0, 3, 4, 15, 16}}

(* Two agents, of two zones, one with a v4 and one with a v6 pool. *)
Words == {"0.0.0.0", "10.0.0.1", "10.0.0.2", "10.1.0.1", "192.168.1.1", "192.168.1.2"}
Zones == a1 :> <<"llb">> @@ a2 :> <<"edge">>
Pools == a1 :> {<<"10.0.0.1">>, <<"10.0.0.2">>}
         @@ a2 :> {<<"2001", "db8", "", "1">>, <<"2001", "db8", "", "2">>}
Given == {<<"10.1.0.1">>}
InstanceIPs == {<<"192.168.1.1">>, <<"192.168.1.2">>}

(* A 0.0.0.0 pool: the status shows the instances' addresses. *)
Zero == INSTANCE ServiceStatus WITH
  PoolOf <- [a \in Agent |-> {AnyIP}], UserIPs <- {}, ZeroCIDR <- TRUE, MaxRestarts <- 3

(* Secondary addresses from pools and from the user. *)
PoolNames == {"defaultPool", "pool2", "pool3"}
PoolAddrs == [k \in PoolNames |-> CASE k = "defaultPool" -> {"a1", "a2", "a3"}
                                     [] k = "pool2" -> {"b1", "b2"} [] k = "pool3" -> {"c1", "c2"}]
Want(pools, ips) == [pools |-> pools, ips |-> ips, v4 |-> TRUE]
ByPool == {Want(<<>>, <<>>), Want(<<"pool2">>, <<>>), Want(<<"pool2", "pool3">>, <<>>),
           Want(<<"pool9">>, <<>>), [Want(<<"pool2">>, <<>>) EXCEPT !.v4 = FALSE]}
ByUser == {Want(<<>>, <<"u1">>), Want(<<>>, <<"u2", "u3">>)}

(* Three services on shared pools, two of them with the same port. *)
SecShared == INSTANCE Secondary WITH
  Service <- {"s1", "s2", "s3"}, Ports <- [s \in {"s1", "s2", "s3"} |-> <<IF s = "s3" THEN p2 ELSE p1>>],
  Pool <- PoolAddrs, Annotations <- ByPool, Port <- {p1, p2}, Shared <- TRUE,
  InstallFails <- FALSE, Revises <- FALSE, MaxEdits <- 6,
  held <- secHeld, cache <- secCache, up <- running, edits <- revisions

(* The instances refuse rules; services with several ports. *)
SecRefused == INSTANCE Secondary WITH
  Service <- {"s1", "s2"}, Ports <- [s \in {"s1", "s2"} |-> IF s = "s1" THEN <<p1, p2>> ELSE <<p2>>],
  Pool <- PoolAddrs, Annotations <- ByPool, Port <- {p1, p2}, Shared <- FALSE,
  InstallFails <- TRUE, Revises <- FALSE, MaxEdits <- 4,
  held <- secHeld, cache <- secCache, up <- running, edits <- revisions

(* Annotations change. *)
SecRevised == INSTANCE Secondary WITH
  Service <- {"s1", "s2"}, Ports <- [s \in {"s1", "s2"} |-> <<p1>>],
  Pool <- PoolAddrs, Annotations <- ByPool \cup ByUser, Port <- {p1, p2}, Shared <- TRUE,
  InstallFails <- TRUE, Revises <- TRUE, MaxEdits <- 3,
  held <- secHeld, cache <- secCache, up <- running, edits <- revisions

(* Two gateways, whose status updates fail, with addresses of the pool and of users. *)
Gateways == INSTANCE Gateway WITH
  IP <- {x1, x2, "static"}, PoolIP <- {x1, x2}, Port <- {"port0"}, Shared <- TRUE, Gateways <- {g1, g2},
  Worker <- {w1}, Port0 <- "port0", Static <- {"static"}, Fails <- {"status"}, Resyncs <- FALSE,
  Restarts <- FALSE, Deletes <- TRUE, Paced <- {"edit"}, MaxEdits <- 3,
  held <- gwHeld, api <- gwApi, queue <- gwQueue

(* Two services with the same port on a shared pool. *)
Sharing == INSTANCE LoadBalancer WITH
  IP <- {x1, x2}, PoolIP <- {x1, x2}, Port <- {p1, p2}, Shared <- TRUE, Service <- {s1, s2},
  Client <- {c1}, Mode <- {m1}, Endpoint <- {e1}, PortLists <- [s \in {s1, s2} |-> {<<p1>>}],
  NameReuse <- FALSE, FailStages <- {"first"}, LostReplies <- FALSE, MaxRestarts <- 0,
  held <- lbHeld, restarts <- lbRestarts

(* The agent restarts once. *)
Restarted == INSTANCE LoadBalancer WITH
  IP <- {x1, x2}, PoolIP <- {x1, x2}, Port <- {p1, p2}, Shared <- FALSE, Service <- {s1, s2},
  Client <- {c1}, Mode <- {m1}, Endpoint <- {e1}, PortLists <- [s \in {s1, s2} |-> {<<p1>>}],
  NameReuse <- FALSE, FailStages <- {"first"}, LostReplies <- FALSE, MaxRestarts <- 1,
  held <- lbHeld, restarts <- lbRestarts

-----------------------------------------------------------------------------
Part == {"pool", "range", "names", "zero", "secShared", "secRefused", "secRevised", "gateways",
         "sharing", "restarted"}

AllInit ==
  /\ part \in Part
  /\ UsersInit
  /\ RangeInit /\ ip = <<10, 0, 0, 0>>
  /\ part # "range" => pool.startIP = <<10, 0, 0, 0>> /\ ~pool.isRange /\ pool.bits = 0
  /\ StatusInit
  /\ IF part = "secShared" THEN SecShared!Init ELSE SecRefused!Init
  /\ Gateways!Init
  /\ Sharing!Init

AllNext ==
  \/ part = "pool" /\ UsersNext /\ UNCHANGED <<part, rangeVars, statusVars, secVars, gatewayVars, lbVars>>
  \/ /\ part = "range" /\ RangeNext
     /\ UNCHANGED <<part, poolVars, statusVars, secVars, gatewayVars, lbVars>>
  \/ /\ \/ part = "names" /\ StatusNext
        \/ part = "zero" /\ Zero!StatusNext
     /\ UNCHANGED <<part, poolVars, rangeVars, secVars, gatewayVars, lbVars>>
  \/ /\ \/ part = "secShared" /\ SecShared!Next
        \/ part = "secRefused" /\ SecRefused!Next
        \/ part = "secRevised" /\ SecRevised!Next
     /\ UNCHANGED <<part, poolVars, rangeVars, statusVars, gatewayVars, lbVars>>
  \/ /\ part = "gateways" /\ Gateways!Next
     /\ UNCHANGED <<part, poolVars, rangeVars, statusVars, secVars, lbVars>>
  \/ /\ \/ part = "sharing" /\ Sharing!Next
        \/ part = "restarted" /\ Restarted!Next
     /\ UNCHANGED <<part, poolVars, rangeVars, statusVars, secVars, gatewayVars>>

AllSpec == AllInit /\ [][AllNext]_allVars

-----------------------------------------------------------------------------
(* Secondary addresses are accounted for: no two services have one in common unless a     *)
(* shared pool gave it for different ports, none stays taken when its service is gone or    *)
(* was refused, and the primary address stays taken whatever goes wrong with them.          *)
SecondariesHeld ==
  /\ part = "secShared" => SecShared!SecondaryUnique /\ SecShared!NoSecondaryLeak
  /\ part = "secRefused" => SecRefused!NoSecondaryLeak
  /\ part = "secRevised" => SecRevised!PrimaryHeld

(* No two objects show one address and no service two: not two gateways, on a shared pool  *)
(* not two services with rules for the same port, and the new agent after a restart, whose  *)
(* cache and pool are empty, adds no second address.                                        *)
AddressesApart ==
  /\ Gateways!GatewaysApart
  /\ part = "sharing" => Sharing!NoRuleConflict
  /\ Restarted!OneAddress
=============================================================================
