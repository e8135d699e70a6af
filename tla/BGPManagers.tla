----------------------------- MODULE BGPManagers -----------------------------
(***************************************************************************)
(* The four managers of BGP objects: BGPPeer, BGPPolicyDefinedSets,           *)
(* BGPPolicyDefinition and BGPPolicyApply.  They are four copies of one         *)
(* program with an informer, a work queue of objects and four workers each:     *)
(* an object the lister knows is created on every instance, another is deleted  *)
(* there.  The definitions with a kind as parameter are the common program; the  *)
(* copies differ in                                                          *)
(*   - the resync period, a minute for peers and 12 hours for policies, which   *)
(*     an untimed model does not tell apart;                                    *)
(*   - the context of the delete calls: that of BGPPolicyApply ends with the     *)
(*     handler, which does not wait for all calls.                             *)
(* An instance keeps an object by its id, the address of a neighbour or the       *)
(* name of a policy, with the rest of its spec as value.                         *)
(***************************************************************************)
EXTENDS Naturals, FiniteSets, WorkQueue

CONSTANTS
  Kind,      \* the managers of this instance of the model
  Name,      \* names of objects, of any kind
  Ids,       \* what an instance keeps objects by
  Values,    \* the rest of the spec
  Client,    \* loxiClients.Clients
  Worker,    \* the workers of each manager
  Fails,     \* the calls that may fail: "create", "delete"
  Restarts,  \* instances restart without their BGP configuration
  Paced,     \* an object is edited only when the last edit has been handled
  None,      \* no object, no value
  MaxEdits   \* bound on edits and restarts

Kinds == {"peer", "definedsets", "definition", "apply"}

VARIABLES
  crd,    \* crd[k][n]: object n in the lister of k, or None
  edits,  \* edits and restarts so far
  queue,  \* queue[k]: the work queue
  proc,   \* proc[k][w]: the object a worker works on
  late,   \* delete calls nobody waits for
  bgp     \* bgp[c][k, i]: the value that instance c has for id i of k, or None

vars == <<crd, edits, queue, proc, late, bgp>>

Clients == SetToSeq(Client)
Object == [name : Name, gen : 1..MaxEdits, id : Ids, value : Values]
Idle == [at |-> "idle"]
Busy == [at : {"create", "delete"}, obj : Object, pend : SUBSET Client, ok : SUBSET Client]
Config == Kind \X Ids

TypeOK ==
  /\ crd \in [Kind -> [Name -> Object \cup {None}]] /\ edits \in 0..MaxEdits
  /\ \A k \in Kind : IsQueue(queue[k], Object)
  /\ proc \in [Kind -> [Worker -> {Idle} \cup Busy]]
  /\ \A k \in Kind : queue[k].busy = {proc[k][w].obj : w \in {v \in Worker : proc[k][v] # Idle}}
  /\ late \subseteq [client : Client, config : Config]
  /\ bgp \in [Client -> [Config -> Values \cup {None}]]

Init ==
  /\ crd = [k \in Kind |-> [n \in Name |-> None]] /\ edits = 0
  /\ queue = [k \in Kind |-> EmptyQueue]
  /\ proc = [k \in Kind |-> [w \in Worker |-> Idle]]
  /\ late = {} /\ bgp = [c \in Client |-> [x \in Config |-> None]]

-----------------------------------------------------------------------------
Handled ==
  /\ \A k \in Kind : Quiet(queue[k]) /\ \A w \in Worker : proc[k][w] = Idle
  /\ late = {}

Spend == edits < MaxEdits /\ edits' = edits + 1 /\ (Paced => Handled)

(* enqueueService of each manager: a pointer.  Every event brings an object of   *)
(* its own, told apart by gen, so that two workers may have two of them at once. *)
EnqueueService(k, o) == queue' = [queue EXCEPT ![k] = Add(@, o)]

(* An object is created or given another spec. *)
Put(k, n) ==
  \E i \in Ids, v \in Values :
    LET o == [name |-> n, gen |-> edits + 1, id |-> i, value |-> v] IN
    /\ crd[k][n] # None => <<i, v>> # <<crd[k][n].id, crd[k][n].value>>
    /\ crd' = [crd EXCEPT ![k][n] = o] /\ EnqueueService(k, o)

Withdraw(k, n) ==
  /\ crd[k][n] # None /\ crd' = [crd EXCEPT ![k][n] = None]
  /\ EnqueueService(k, [crd[k][n] EXCEPT !.gen = edits + 1])

Edit(k, n) == Spend /\ (Put(k, n) \/ Withdraw(k, n)) /\ UNCHANGED <<proc, late, bgp>>

ResyncSkipsUnchanged(k, n) == crd[k][n] # None /\ UNCHANGED vars

(* The informer's resync. *)
Resync(k, n) ==
  /\ crd[k][n] # None /\ EnqueueService(k, crd[k][n])
  /\ UNCHANGED <<crd, edits, proc, late, bgp>>

RestartInstance(c) ==
  /\ Restarts /\ Spend /\ bgp' = [bgp EXCEPT ![c] = [x \in Config |-> None]]
  /\ UNCHANGED <<crd, queue, proc, late>>

Retry(k, g) ==
  /\ \E o \in queue[k].later : o.gen = g /\ queue' = [queue EXCEPT ![k] = Elapse(@, o)]
  /\ UNCHANGED <<crd, edits, proc, late, bgp>>

-----------------------------------------------------------------------------
(* processNextWorkItem and sync...: the lister decides. *)
SyncService(k, w) ==
  /\ proc[k][w] = Idle /\ CanGet(queue[k])
  /\ LET o == Head(queue[k].fifo) IN
     proc' = [proc EXCEPT ![k][w] =
                [at |-> IF crd[k][o.name] # None THEN "create" ELSE "delete",
                 obj |-> o, pend |-> Client, ok |-> {}]]
  /\ queue' = [queue EXCEPT ![k] = Get(@)]
  /\ UNCHANGED <<crd, edits, late, bgp>>

End(k, w, ok) ==
  LET o == proc[k][w].obj IN
  /\ queue' = [queue EXCEPT ![k] = IF ok THEN Done(@, o) ELSE Done(AddRateLimited(@, o), o)]
  /\ proc' = [proc EXCEPT ![k][w] = Idle]

(* An instance answers a call and has then value v for the id.                 *)
Answer(k, w, c, f, v) ==
  /\ LET s == proc[k][w]  x == <<k, s.obj.id>> IN
     \/ /\ bgp' = [bgp EXCEPT ![c][x] = v]
        /\ proc' = [proc EXCEPT ![k][w] = [s EXCEPT !.pend = s.pend \ {c}, !.ok = s.ok \cup {c}]]
     \/ /\ f \in Fails /\ UNCHANGED bgp
        /\ proc' = [proc EXCEPT ![k][w] = [s EXCEPT !.pend = s.pend \ {c}]]
  /\ UNCHANGED <<crd, edits, queue, late>>

Calls(k, w, c, f) == proc[k][w] # Idle /\ proc[k][w].at = f /\ c \in proc[k][w].pend

(* A create call for an id that exists is a success and changes nothing. *)
Create(k, w, c) ==
  /\ Calls(k, w, c, "create")
  /\ LET o == proc[k][w].obj  old == bgp[c][k, o.id] IN
     Answer(k, w, c, "create", IF old = None THEN o.value ELSE old)

Delete(k, w, c) == Calls(k, w, c, "delete") /\ Answer(k, w, c, "delete", None)

(* add...: waits for every instance; one success is success.                  *)
AddService(k, w) ==
  /\ proc[k][w] # Idle /\ proc[k][w].at = "create"
  /\ proc[k][w].pend = {} /\ End(k, w, proc[k][w].ok # {})
  /\ UNCHANGED <<crd, edits, late, bgp>>

(* delete...: takes the answers in the order of the clients up to the first      *)
(* success, and leaves the other calls to themselves.                          *)
DeleteServiceForgets(k, w) ==
  /\ proc[k][w] # Idle /\ proc[k][w].at = "delete" /\ proc[k][w].pend = {} /\ End(k, w, TRUE)
  /\ UNCHANGED <<crd, edits, late, bgp>>

DeleteService(k, w) ==
  /\ proc[k][w] # Idle /\ proc[k][w].at = "delete"
  /\ LET s == proc[k][w] IN
     \/ /\ \E i \in DOMAIN Clients : /\ Clients[i] \in s.ok
                                     /\ \A j \in 1..i-1 : Clients[j] \notin s.pend
        /\ End(k, w, TRUE)
        /\ late' = late \cup [client : s.pend, config : {<<k, s.obj.id>>}]
     \/ s.ok = {} /\ s.pend = {} /\ End(k, w, FALSE) /\ UNCHANGED late
  /\ UNCHANGED <<crd, edits, bgp>>

(* A call that was left to itself: that of a BGPPolicyApply is cancelled with    *)
(* the handler's context, those of the others have one that never ends.        *)
Late(l) ==
  /\ l \in late /\ late' = late \ {l}
  /\ \/ bgp' = [bgp EXCEPT ![l.client][l.config] = None]
     \/ ("delete" \in Fails \/ l.config[1] = "apply") /\ UNCHANGED bgp
  /\ UNCHANGED <<crd, edits, queue, proc>>

-----------------------------------------------------------------------------
(* The four managers.                                                        *)
addBGPPeerService(w) ==
  AddService("peer", w) \/ \E c \in Client : Create("peer", w, c)
deleteBGPPeerService(w) ==
  DeleteService("peer", w) \/ \E c \in Client : Delete("peer", w, c)
addBGPPolicyDefinedSetsService(w) ==
  AddService("definedsets", w) \/ \E c \in Client : Create("definedsets", w, c)
deleteBGPPolicyDefinedSetsService(w) ==
  DeleteService("definedsets", w) \/ \E c \in Client : Delete("definedsets", w, c)
addBGPPolicyDefinitionService(w) ==
  AddService("definition", w) \/ \E c \in Client : Create("definition", w, c)
deleteBGPPolicyDefinitionService(w) ==
  DeleteService("definition", w) \/ \E c \in Client : Delete("definition", w, c)
addBGPPolicyApplyService(w) ==
  AddService("apply", w) \/ \E c \in Client : Create("apply", w, c)
deleteBGPPolicyApplyService(w) ==
  DeleteService("apply", w) \/ \E c \in Client : Delete("apply", w, c)

BGPPeer(w) ==
  SyncService("peer", w) \/ addBGPPeerService(w) \/ deleteBGPPeerService(w)
BGPPolicyDefinedSets(w) ==
  \/ SyncService("definedsets", w)
  \/ addBGPPolicyDefinedSetsService(w) \/ deleteBGPPolicyDefinedSetsService(w)
BGPPolicyDefinition(w) ==
  \/ SyncService("definition", w)
  \/ addBGPPolicyDefinitionService(w) \/ deleteBGPPolicyDefinitionService(w)
BGPPolicyApply(w) ==
  \/ SyncService("apply", w)
  \/ addBGPPolicyApplyService(w) \/ deleteBGPPolicyApplyService(w)

Step(k, w) ==
  \/ k = "peer" /\ BGPPeer(w)
  \/ k = "definedsets" /\ BGPPolicyDefinedSets(w)
  \/ k = "definition" /\ BGPPolicyDefinition(w)
  \/ k = "apply" /\ BGPPolicyApply(w)

Next ==
  \/ \E k \in Kind : \/ \E n \in Name : Edit(k, n) \/ Resync(k, n)
                     \/ \E g \in 1..MaxEdits : Retry(k, g)
                     \/ \E w \in Worker : Step(k, w)
  \/ \E c \in Client : RestartInstance(c)
  \/ \E l \in late : Late(l)

Spec == Init /\ [][Next]_vars

(* An instance does not refuse every call for an id for ever. *)
Accepts(c, k, i) ==
  \E w \in Worker :
    /\ proc[k][w] # Idle /\ proc[k][w].obj.id = i
    /\ Create(k, w, c) \/ Delete(k, w, c)
    /\ c \in proc'[k][w].ok

Fairness ==
  /\ \A k \in Kind :
       /\ \A n \in Name : WF_vars(Resync(k, n))
       /\ \A g \in 1..MaxEdits : WF_vars(Retry(k, g))
       /\ \A w \in Worker : WF_vars(Step(k, w))
  /\ Fails # {} => \A c \in Client, k \in Kind, i \in Ids : SF_vars(Accepts(c, k, i))
  /\ WF_vars(\E l \in late : Late(l))

FairSpec == Spec /\ Fairness

-----------------------------------------------------------------------------
Asked(k, i, v) ==
  \E n \in Name : crd[k][n] # None /\ crd[k][n].id = i /\ crd[k][n].value = v

Named(k, i) == \E v \in Values : Asked(k, i, v)

(* What an object that stays names is in the end configured on every instance,    *)
(* although one success ends its processing, instances restart, its spec changes, *)
(* and workers still delete older versions of it: the resync repairs all of that. *)
(* It has the value asked for if no object ever asked for another: the handlers   *)
(* take the answer "exist" for success.                                         *)
ObjectsConfigured ==
  \A k \in Kind, i \in Ids :
    /\ <>[]Named(k, i) => \A c \in Client : <>[](bgp[c][k, i] # None)
    /\ \A v \in Values :
         <>[]Asked(k, i, v) /\ [](\A u \in Values : Asked(k, i, u) => u = v)
           => \A c \in Client : <>[](bgp[c][k, i] = v)

(* What only deleted objects name is in the end gone from at least one instance:  *)
(* a round of delete calls that none of them granted is repeated, one that one     *)
(* granted is not.  Where no call is refused it is gone from all of them: the      *)
(* handlers do not wait for the other calls, but only that of BGPPolicyApply       *)
(* cancels them.                                                                 *)
ObjectsRemoved ==
  \A k \in Kind, i \in Ids :
    <>[]~Named(k, i) =>
      /\ \E c \in Client : <>[](bgp[c][k, i] = None)
      /\ Fails = {} /\ k # "apply" => \A c \in Client : <>[](bgp[c][k, i] = None)

=============================================================================
