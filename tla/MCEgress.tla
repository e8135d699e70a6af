------------------------------ MODULE MCEgress ------------------------------
(* Egress for TLC in four environments.  A behaviour belongs to one of them,   *)
(* its part; they share the variables.                                        *)
EXTENDS Naturals

CONSTANTS e1, e2, a1, v1, v2, c1, c2, w1, w2, None

VARIABLES part, crd, pods, edits, queue, proc, late, alive, fw

allVars == <<part, crd, pods, edits, queue, proc, late, alive, fw>>

(* Calls are refused and instances restart, while earlier edits are handled. *)
Install == INSTANCE Egress WITH
  Name <- {e1, e2}, Addr <- {a1}, Bad <- {}, Lists <- {{a1}}, Selects <- {FALSE},
  Vip <- {v1}, Client <- {c1, c2}, Worker <- {w1, w2}, Fails <- {"create", "delete"},
  Restarts <- TRUE, PodsMove <- FALSE, Paced <- FALSE, MaxEdits <- 2

(* The list and the egress address of objects change while earlier versions are  *)
(* handled.                                                                   *)
Revise == INSTANCE Egress WITH
  Name <- {e1, e2}, Addr <- {a1}, Bad <- {}, Lists <- {{}, {a1}}, Selects <- {FALSE},
  Vip <- {v1, v2}, Client <- {c1, c2}, Worker <- {w1, w2}, Fails <- {}, Restarts <- FALSE,
  PodsMove <- FALSE, Paced <- FALSE, MaxEdits <- 2

(* A selector whose pods change, and cannot always be listed. *)
Select == INSTANCE Egress WITH
  Name <- {e1, e2}, Addr <- {a1}, Bad <- {}, Lists <- {{}}, Selects <- {TRUE}, Vip <- {v1},
  Client <- {c1, c2}, Worker <- {w1, w2}, Fails <- {"list"}, Restarts <- FALSE, PodsMove <- TRUE,
  Paced <- FALSE, MaxEdits <- 2

(* Objects share an address and deletes are refused; each edit, which keeps the  *)
(* address in the list, is made when the last one was handled.                  *)
Remove == INSTANCE Egress WITH
  Name <- {e1, e2}, Addr <- {a1}, Bad <- {}, Lists <- {{a1}}, Selects <- {FALSE},
  Vip <- {v1, v2}, Client <- {c1, c2}, Worker <- {w1, w2}, Fails <- {"delete"},
  Restarts <- FALSE, PodsMove <- FALSE, Paced <- TRUE, MaxEdits <- 3

(* Everything that may happen.  The environments differ in what the users, the *)
(* instances and the API server do, not in when a fair action is enabled, so     *)
(* that the fairness of this instance is that of each of them.                  *)
World == INSTANCE Egress WITH
  Name <- {e1, e2}, Addr <- {a1}, Bad <- {}, Lists <- {{}, {a1}}, Selects <- BOOLEAN,
  Vip <- {v1, v2}, Client <- {c1, c2}, Worker <- {w1, w2},
  Fails <- {"create", "delete", "list"}, Restarts <- TRUE,
  PodsMove <- TRUE, Paced <- FALSE, MaxEdits <- 3

AllInit ==
  \/ part = "install" /\ Install!Init
  \/ part = "revise" /\ Revise!Init
  \/ part = "select" /\ Select!Init
  \/ part = "remove" /\ Remove!Init

AllNext ==
  \/ part = "install" /\ Install!Next /\ UNCHANGED part
  \/ part = "revise" /\ Revise!Next /\ UNCHANGED part
  \/ part = "select" /\ Select!Next /\ UNCHANGED part
  \/ part = "remove" /\ Remove!Next /\ UNCHANGED part

(* The behaviour is one of the part, which never changes. *)
Of(name) == []<>(part = name)

AllSpec == AllInit /\ [][AllNext]_allVars /\ World!Fairness

(* The address of an Egress object that stays has in the end a rule on every    *)
(* instance, although instances restart without their rules and               *)
(* callLoxiFirewallCreateAPI takes one success for all; the rule has the egress   *)
(* address asked for if none was ever asked for before.                         *)
EgressInstalled == World!EgressInstalled

(* When edits are handled one by one and drop no address from an object that      *)
(* stays, the address of deleted Egress objects has in the end no rule on at      *)
(* least one instance, although callLoxiFirewallDeleteAPI takes one success for    *)
(* all and the calls to the others may be cancelled.                             *)
EgressRemoved == Of("remove") => World!EgressRemoved

=============================================================================
