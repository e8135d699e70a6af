------------------------------ MODULE MCConfig ------------------------------
(* What the instances are in the end configured with, for TLC: the rules of a service *)
(* (LoadBalancer), BGP peers and policies (BGPManagers), the requests that all calls are *)
(* made of (Requests), and the informer factory the managers get their objects from       *)
(* (InformerFactory), with several callers.  A behaviour is one of one component, its     *)
(* part; the others stay in their initial states.                                        *)
EXTENDS Requests, InformerFactory

CONSTANTS h1, h2, s1, x1, p1, NoIdent, m1, m2, e1, e2, n1, n2, i1, c1, c2, w1, w2

VARIABLES
  part,
  held, api, lister, eps, queue, lbCache, rules, late, w, up, restarts, \* of Services
  crd, edits, peerQueue, proc, peerLate, bgp,                           \* of Peers
  polCrd, polEdits, polQueue, polProc, polLate, polBgp                  \* of Policies

requestVars == <<clock, tok, lock, issued, ends, th>>
serviceVars == <<held, api, lister, eps, queue, lbCache, rules, late, w, up, restarts>>
peerVars == <<crd, edits, peerQueue, proc, peerLate, bgp>>
policyVars == <<polCrd, polEdits, polQueue, polProc, polLate, polBgp>>
allVars == <<part, requestVars, factoriesVars, serviceVars, peerVars, policyVars>>

(* Calls of both methods, to an instance that may refuse them and one that does not     *)
(* answer; the other strict calls have the same records as these.                       *)
Calls == INSTANCE Requests WITH
  Host <- {h1, h2},
  Ops <- {"lb create", "sni create", "apply create", "neigh delete", "sets delete", "definition delete"},
  Refreshable <- {h1}, Down <- {h2}, Refused200 <- TRUE, MaxClock <- 0

(* The BGP client's factory with two of its types. *)
BGPTypes == [bgp |-> {"peer", "apply"}]

(* One service and one address; the instance refuses new rules at times. *)
Services == INSTANCE LoadBalancer WITH
  IP <- {x1}, PoolIP <- {x1}, Port <- {p1}, Shared <- FALSE, Service <- {s1}, Client <- {c1},
  Mode <- {m1, m2}, Endpoint <- {e1, e2}, PortLists <- [s \in {s1} |-> {<<p1>>}],
  NameReuse <- FALSE, FailStages <- {"first"}, LostReplies <- FALSE, MaxRestarts <- 0

(* Two peers with one address: calls are refused and instances restart. *)
Peers == INSTANCE BGPManagers WITH
  Kind <- {"peer"}, Name <- {n1, n2}, Ids <- {i1}, Values <- {m1}, Client <- {c1, c2},
  Worker <- {w1, w2}, Fails <- {"create", "delete"}, Restarts <- TRUE, Paced <- TRUE, MaxEdits <- 2,
  queue <- peerQueue, late <- peerLate

(* They come and go while earlier events are handled. *)
Twins == INSTANCE BGPManagers WITH
  Kind <- {"peer"}, Name <- {n1, n2}, Ids <- {i1}, Values <- {m1}, Client <- {c1, c2},
  Worker <- {w1, w2}, Fails <- {}, Restarts <- FALSE, Paced <- FALSE, MaxEdits <- 3,
  queue <- peerQueue, late <- peerLate

(* Their specs change while earlier versions are handled. *)
Revised == INSTANCE BGPManagers WITH
  Kind <- {"peer"}, Name <- {n1, n2}, Ids <- {i1}, Values <- {m1, m2}, Client <- {c1, c2},
  Worker <- {w1, w2}, Fails <- {}, Restarts <- FALSE, Paced <- FALSE, MaxEdits <- 2,
  queue <- peerQueue, late <- peerLate

(* Delete calls are refused; each edit waits for the last. *)
Refused == INSTANCE BGPManagers WITH
  Kind <- {"peer"}, Name <- {n1, n2}, Ids <- {i1}, Values <- {m1, m2}, Client <- {c1, c2},
  Worker <- {w1, w2}, Fails <- {"delete"}, Restarts <- FALSE, Paced <- TRUE, MaxEdits <- 3,
  queue <- peerQueue, late <- peerLate

(* Everything that may happen to peers.  The four differ in what the users and the  *)
(* instances do, not in when a fair action is enabled, so that the fairness of this *)
(* instance is that of each of them.                                              *)
PeerWorld == INSTANCE BGPManagers WITH
  Kind <- {"peer"}, Name <- {n1, n2}, Ids <- {i1}, Values <- {m1, m2}, Client <- {c1, c2},
  Worker <- {w1, w2}, Fails <- {"create", "delete"}, Restarts <- TRUE, Paced <- FALSE, MaxEdits <- 3,
  queue <- peerQueue, late <- peerLate

(* Policies: three managers with two workers each; no call is refused. *)
Policies == INSTANCE BGPManagers WITH
  Kind <- {"definedsets", "definition", "apply"}, Name <- {n1}, Ids <- {i1}, Values <- {m1},
  Client <- {c1, c2}, Worker <- {w1, w2}, Fails <- {}, Restarts <- FALSE, Paced <- TRUE, MaxEdits <- 2,
  crd <- polCrd, edits <- polEdits, queue <- polQueue, proc <- polProc, late <- polLate, bgp <- polBgp

AllInit ==
  /\ part \in {"requests", "calls", "informers", "services", "peers", "twins", "revised",
              "refused", "policies"}
  /\ FactoriesInit
  /\ IF part = "calls" THEN Calls!Init ELSE Init
  /\ Services!Init /\ PeerWorld!Init /\ Policies!Init

AllNext ==
  \/ /\ (part = "requests" /\ Next) \/ (part = "calls" /\ Calls!Next)
     /\ UNCHANGED <<part, factoriesVars, serviceVars, peerVars, policyVars>>
  \/ /\ part = "informers" /\ FactoriesNext
     /\ UNCHANGED <<part, requestVars, serviceVars, peerVars, policyVars>>
  \/ /\ part = "services" /\ Services!Next
     /\ UNCHANGED <<part, requestVars, factoriesVars, peerVars, policyVars>>
  \/ /\ \/ part = "peers" /\ Peers!Next
        \/ part = "twins" /\ Twins!Next
        \/ part = "revised" /\ Revised!Next
        \/ part = "refused" /\ Refused!Next
     /\ UNCHANGED <<part, requestVars, factoriesVars, serviceVars, policyVars>>
  \/ /\ part = "policies" /\ Policies!Next
     /\ UNCHANGED <<part, requestVars, factoriesVars, serviceVars, peerVars>>

(* The behaviour is one of the part, which never changes. *)
Of(name) == []<>(part = name)

(* The fairness of the part that moves. *)
AllFairness ==
  \/ Of("services") /\ Services!Fairness
  \/ ~Of("services") /\ PeerWorld!Fairness /\ Policies!Fairness

AllSpec == AllInit /\ [][AllNext]_allVars /\ AllFairness

(* A deleted service leaves nothing behind: its cache entry, and with it its addresses  *)
(* and rules, go.                                                                      *)
DeletedIsReleased == Services!DeletedIsReleased

(* A service that keeps some endpoint gets an address in its status. *)
ServiceGetsAddress == Services!ServiceGetsAddress

(* Once the annotations and the endpoints stop changing the cached rules have them,     *)
(* although no event announces a change of endpoints and the errors of the delete       *)
(* before an update are ignored.                                                       *)
ConfigConverges == Services!ConfigConverges

(* A BGPPeer that stays is in the end configured on every instance, although one *)
(* success ends its processing, instances restart, its spec changes and other     *)
(* workers still delete older versions of it: the resync repairs all of that.     *)
(* It is configured as asked for if it never was asked for differently.          *)
ObjectsConfigured == PeerWorld!ObjectsConfigured

(* When edits are handled one by one, a deleted peer is in the end gone from at    *)
(* least one instance although delete calls are refused; and a deleted policy is   *)
(* gone from all of them when none is refused, but for a BGPPolicyApply, whose      *)
(* handler cancels the calls it does not wait for.                                *)
ObjectsRemoved == Policies!ObjectsRemoved /\ (Of("refused") => Refused!ObjectsRemoved)

=============================================================================
