---------------------------- MODULE MCLoadBalancer ----------------------------
(* The load-balancer manager for TLC, two services on a pool of few addresses.  In the    *)
(* part "two" one of them has two ports and annotations change; in the part "one" there   *)
(* is one address for both, and two instances, so that an address changes hands, calls     *)
(* outlive the sync that made them, and the pool runs dry.                                  *)
EXTENDS LoadBalancer, TLC

CONSTANTS s1, s2, p1, p2, c1, c2, y1, m1

VARIABLE part

allVars == <<part, vars>>

OnePortEach == s1 :> {<<p1>>} @@ s2 :> {<<p1>>}
TwoAndOne == s1 :> {<<p1, p2>>} @@ s2 :> {<<p2>>}

OneAddressLeft == INSTANCE LoadBalancer WITH
  IP <- {y1}, PoolIP <- {y1}, Client <- {c1, c2}, Mode <- {m1}, PortLists <- OnePortEach

AllInit ==
  \/ part = "two" /\ Init
  \/ part = "one" /\ OneAddressLeft!Init

AllNext ==
  /\ UNCHANGED part
  /\ \/ part = "two" /\ Next
     \/ part = "one" /\ OneAddressLeft!Next

AllSpec == AllInit /\ [][AllNext]_allVars

(* The first part alone. *)
TwoSpec == Init /\ part = "two" /\ [][Next /\ UNCHANGED part]_allVars

Symmetry == Permutations(IP)
=============================================================================
