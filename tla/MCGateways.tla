----------------------------- MODULE MCGateways -----------------------------
(* Gateway in four environments and GatewayClass for TLC.  A behaviour belongs to *)
(* one of these parts.                                                          *)
EXTENDS Naturals

CONSTANTS x1, x2, s,  \* addresses, the last not of the pool
          p0, g1, c1, c2, w1, w2, None, NoIdent

VARIABLES
  part,
  held, api, rv, watch, heap, store, queue, proc, svc, edits,
  classApi, classVer, classStore, classQueue, classProc, classEdits

gatewayVars == <<held, api, rv, watch, heap, store, queue, proc, svc, edits>>
classVars == <<classApi, classVer, classStore, classQueue, classProc, classEdits>>
allVars == <<part, gatewayVars, classVars>>

(* Calls fail and gateways are deleted. *)
Life == INSTANCE Gateway WITH
  IP <- {x1, x2, s}, PoolIP <- {x1}, Port <- {p0}, Shared <- TRUE, Gateways <- {g1},
  Worker <- {w1, w2}, Port0 <- p0, Static <- {}, Fails <- {"status", "create", "delete"},
  Resyncs <- FALSE, Restarts <- FALSE, Deletes <- TRUE, Paced <- {"edit"}, MaxEdits <- 2

(* Two workers handle the versions of one gateway at once, and meet conflicts. *)
Races == INSTANCE Gateway WITH
  IP <- {x1, x2, s}, PoolIP <- {x1}, Port <- {p0}, Shared <- TRUE, Gateways <- {g1},
  Worker <- {w1, w2}, Port0 <- p0, Static <- {}, Fails <- {},
  Resyncs <- FALSE, Restarts <- FALSE, Deletes <- TRUE, Paced <- {"delete"}, MaxEdits <- 2

(* kube-loxilb restarts, and users name addresses. *)
Rebooted == INSTANCE Gateway WITH
  IP <- {x1, x2, s}, PoolIP <- {x1}, Port <- {p0}, Shared <- TRUE, Gateways <- {g1},
  Worker <- {w1, w2}, Port0 <- p0, Static <- {s}, Fails <- {"status"},
  Resyncs <- FALSE, Restarts <- TRUE, Deletes <- TRUE, Paced <- {"edit"}, MaxEdits <- 3

(* The class cannot always be read, which only a resync makes good. *)
Unread == INSTANCE Gateway WITH
  IP <- {x1, x2, s}, PoolIP <- {x1}, Port <- {p0}, Shared <- TRUE, Gateways <- {g1},
  Worker <- {w1, w2}, Port0 <- p0, Static <- {}, Fails <- {"class"},
  Resyncs <- TRUE, Restarts <- FALSE, Deletes <- FALSE, Paced <- {}, MaxEdits <- 1

Classes == INSTANCE GatewayClass WITH
  Class <- {c1, c2}, Worker <- {w1, w2}, Fails <- TRUE, MaxEdits <- 3,
  api <- classApi, ver <- classVer, store <- classStore, queue <- classQueue, proc <- classProc,
  edits <- classEdits

AllInit ==
  part \in {"life", "races", "rebooted", "unread", "class"} /\ Life!Init /\ Classes!Init

AllNext ==
  \/ part = "life" /\ Life!Next /\ UNCHANGED <<part, classVars>>
  \/ part = "races" /\ Races!Next /\ UNCHANGED <<part, classVars>>
  \/ part = "rebooted" /\ Rebooted!Next /\ UNCHANGED <<part, classVars>>
  \/ part = "unread" /\ Unread!Next /\ UNCHANGED <<part, classVars>>
  \/ part = "class" /\ Classes!Next /\ UNCHANGED <<part, gatewayVars>>

(* The behaviour is one of these parts; the part never changes. *)
Of(names) == []<>(part \in names)

(* The fairness of the part that moves.  Where a call cannot fail, that it does not   *)
(* fail for ever asks nothing.                                                     *)
AllFairness ==
  \/ Of({"life", "races", "rebooted"}) /\ Life!Fairness
  \/ Of({"unread"}) /\ Unread!Fairness
  \/ Of({"class"}) /\ Classes!Fairness

AllSpec == AllInit /\ [][AllNext]_allVars /\ AllFairness

(* A Gateway that stays ends up with an address in its status and, if it has     *)
(* HTTP listeners, with a Service, although createGateway cannot read the class,   *)
(* UpdateStatus or the creation of the Service fails, kube-loxilb restarts, and     *)
(* two workers handle versions of the gateway at once, so that Update meets         *)
(* conflicts and leaves its address in the store.                                 *)
GatewayServed == Life!GatewayServed

(* The Service of a Gateway that is gone is in the end deleted, although its        *)
(* deletion is retried and two workers handle versions of the gateway at once, if    *)
(* kube-loxilb sees the deletion, and the versions before it were handled when it     *)
(* came.                                                                          *)
GatewayRemoved == Of({"life", "races"}) => Life!GatewayRemoved

(* A GatewayClass of ours that stays and has the condition "Accepted" is in the    *)
(* end accepted at the API server, although updateGatewayClass sets the condition  *)
(* in the store first, meets conflicts with edits, and never retries by itself.    *)
ClassAccepted == Classes!ClassAccepted

=============================================================================
