------------------------------ MODULE Metadata ------------------------------
(***************************************************************************)
(* The metadata manager (pkg/agent/manager/meta): every minute one worker   *)
(* reads the caches of services, pods and nodes one after the other and     *)
(* sends what it found to the instances that are alive, all within one      *)
(* deadline.  Listing a cache cannot fail.                                  *)
(*                                                                         *)
(* A service is [name, ours, selector, ingress], where ours says that its   *)
(* class is loxilb's and a selector of None selects every pod; a pod is     *)
(* [name, label]; a node is [name, bare], bare without addresses.           *)
(***************************************************************************)
EXTENDS Naturals, Sequences, FiniteSets

CONSTANTS
  None,
  Clients,        \* the instances in the order of the client pool
  Hanging,        \* instances that are alive and do not answer this call
  ServiceSets, PodSets, NodeSets,  \* the states the caches may be in
  MaxEdits, MaxCrashes             \* bounds on what happens to the cluster

VARIABLES
  services, pods, nodes,  \* the caches
  alive,    \* instances that are up
  meta,     \* what each instance was told last
  w,        \* the worker
  edits, crashes

cluster == <<services, pods, nodes>>
vars == <<cluster, alive, meta, w, edits, crashes>>

Instance == {Clients[i] : i \in DOMAIN Clients}

Resting == [at |-> "rest"]

Empty == [services |-> {}, pods |-> {}, nodes |-> {}]

Init ==
  /\ services \in ServiceSets /\ pods \in PodSets /\ nodes \in NodeSets
  /\ alive = Instance
  /\ meta = [i \in Instance |-> None]
  /\ w = Resting
  /\ edits = 0 /\ crashes = 0

-----------------------------------------------------------------------------
CreateServiceMetaData(s) == [name |-> s.name, ingress |-> s.ingress]
CreatePodMetaData(p) == [name |-> p.name, label |-> p.label]
CreateNodeMetaData(n) == [name |-> n.name]

(* The lister's answer for a service's selector, in every namespace. *)
SelectedBy(s, ps) == {p \in ps : s.selector = None \/ p.label = s.selector}

ListServices ==
  /\ w.at = "rest"
  /\ w' = [at |-> "services", todo |-> services, body |-> Empty]
  /\ UNCHANGED <<cluster, alive, meta, edits, crashes>>

OursAll(s) == TRUE

Ours(s) == s.ours

(* One service of the list, and the pods it selects now. *)
AddService ==
  /\ w.at = "services" /\ w.todo # {}
  /\ LET s == CHOOSE s \in w.todo : TRUE
         b == w.body
     IN  w' = [at |-> "services", todo |-> w.todo \ {s},
               body |-> IF ~Ours(s) THEN b
                        ELSE [b EXCEPT !.services = b.services \cup {CreateServiceMetaData(s)},
                                       !.pods = b.pods \cup {CreatePodMetaData(p) : p \in SelectedBy(s, pods)}]]
  /\ UNCHANGED <<cluster, alive, meta, edits, crashes>>

(* The first address of every node is read. *)
AddNodes ==
  /\ w.at = "services" /\ w.todo = {}
  /\ w' = IF \E n \in nodes : n.bare THEN [at |-> "panic"]
          ELSE [at |-> "send", next |-> 1, expired |-> FALSE,
                body |-> [w.body EXCEPT !.nodes = {CreateNodeMetaData(n) : n \in nodes}]]
  /\ UNCHANGED <<cluster, alive, meta, edits, crashes>>

(* Every instance of the pool in turn.  An instance that hangs uses up the   *)
(* deadline, after which every call fails at once; failures are only logged.  *)
Send ==
  /\ w.at = "send" /\ w.next \in DOMAIN Clients
  /\ LET i == Clients[w.next]
         late == i \in alive /\ (w.expired \/ i \in Hanging)
     IN  /\ w' = [w EXCEPT !.next = w.next + 1, !.expired = w.expired \/ late]
         /\ meta' = IF i \in alive /\ ~late THEN [meta EXCEPT ![i] = w.body] ELSE meta
  /\ UNCHANGED <<cluster, alive, edits, crashes>>

Rest ==
  /\ w.at = "send" /\ w.next \notin DOMAIN Clients
  /\ w' = Resting
  /\ UNCHANGED <<cluster, alive, meta, edits, crashes>>

Worker == ListServices \/ AddService \/ AddNodes \/ Send \/ Rest

-----------------------------------------------------------------------------
(* The cluster and the instances. *)

Edit ==
  /\ edits < MaxEdits /\ edits' = edits + 1
  /\ \/ services' \in ServiceSets \ {services} /\ UNCHANGED <<pods, nodes>>
     \/ pods' \in PodSets \ {pods} /\ UNCHANGED <<services, nodes>>
     \/ nodes' \in NodeSets \ {nodes} /\ UNCHANGED <<services, pods>>
  /\ UNCHANGED <<alive, meta, w, crashes>>

Crash(i) ==
  /\ i \in alive /\ crashes < MaxCrashes
  /\ crashes' = crashes + 1
  /\ alive' = alive \ {i}
  /\ meta' = [meta EXCEPT ![i] = None]
  /\ UNCHANGED <<cluster, w, edits>>

Recover(i) ==
  /\ i \notin alive
  /\ alive' = alive \cup {i}
  /\ UNCHANGED <<cluster, meta, w, edits, crashes>>

Next ==
  \/ Worker \/ Edit
  \/ \E i \in Instance : Crash(i) \/ Recover(i)

Spec == Init /\ [][Next]_vars

(* The worker runs every minute. *)
Fairness == WF_vars(Worker)

FairSpec == Spec /\ Fairness

-----------------------------------------------------------------------------
(* What a reader of the cluster would say of it at once. *)
Snapshot ==
  LET ours == {s \in services : s.ours}
  IN  [services |-> {CreateServiceMetaData(s) : s \in ours},
       pods |-> {CreatePodMetaData(p) : p \in {q \in pods : \E s \in ours : s.selector \in {None, q.label}}},
       nodes |-> {CreateNodeMetaData(n) : n \in nodes}]

TypeOK ==
  /\ alive \subseteq Instance
  /\ w.at \in {"rest", "services", "send", "panic"}
  /\ edits \in 0..MaxEdits /\ crashes \in 0..MaxCrashes

(* Although the worker reads the caches at different moments, and whatever   *)
(* instances fail, every instance that answers is in the end told what the   *)
(* cluster is.                                                               *)
MetadataArrives ==
  \A i \in Instance \ Hanging : <>[](i \in alive => meta[i] = Snapshot)
=============================================================================
