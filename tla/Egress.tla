-------------------------------- MODULE Egress --------------------------------
(***************************************************************************)
(* The Egress manager (pkg/agent/manager/egress): several workers turn the     *)
(* Egress objects of the cluster into firewall rules on the loxilb instances,  *)
(* and a goroutine adds them all again when an instance comes back.            *)
(*                                                                          *)
(* A firewall rule is kept by its source address.  Every worker and the        *)
(* goroutine is a process that works through the rules of one object, one rule *)
(* at a time, calling all instances in parallel for each.                     *)
(***************************************************************************)
EXTENDS Naturals, FiniteSets, WorkQueue

CONSTANTS
  Name,      \* names of Egress objects
  Addr,      \* source addresses
  Bad,       \* those that do not parse
  Lists,     \* the lists spec.addresses has
  Selects,   \* whether spec.selector is set: a set of Booleans
  Vip,       \* egress addresses
  Client,    \* LoxiClients.Clients
  Worker,    \* the workers
  Fails,     \* the calls that may fail: "create", "delete", "list"
  Restarts,  \* instances restart, empty, and are reported alive
  PodsMove,  \* the pods that a selector selects change
  Paced,     \* an object is edited only when the last edit has been handled
  None,      \* no object, no address
  MaxEdits   \* bound on edits, restarts and moves


Life == "life"
Clients == SetToSeq(Client)
Process == Worker \cup {Life}
Object == [name : Name, gen : 1..MaxEdits, addrs : Lists, sel : Selects, vip : Vip]

VARIABLES
  crd,    \* crd[n]: object n in the lister, or None
  pods,   \* the addresses of the selected pods
  edits,  \* edits, restarts and moves so far
  queue,  \* the work queue
  proc,   \* proc[p]: what a worker or the goroutine is doing
  late,   \* delete calls nobody waits for: [client, addr]
  alive,  \* ClientAliveCh: instances reported alive and not yet resynced
  fw      \* fw[c][a]: where instance c sends address a, or None

vars == <<crd, pods, edits, queue, proc, late, alive, fw>>

(* todo: rules left; call: the address being called for; pend: instances that    *)
(* have not answered; ok: those that succeeded; list: objects left (Life)    *)
Idle == [at |-> "idle"]
Busy == [at : {"make", "rule", "call"}, del : BOOLEAN, obj : Object,
         todo : SUBSET Addr, call : Addr \cup {None}, pend : SUBSET Client,
         ok : SUBSET Client, list : SUBSET Object]

TypeOK ==
  /\ \A n \in Name : crd[n] = None \/ (crd[n] \in Object /\ crd[n].name = n)
  /\ pods \subseteq Addr /\ edits \in 0..MaxEdits /\ IsQueue(queue, Object)
  /\ proc \in [Process -> {Idle} \cup Busy]
  /\ \A p, r \in Worker : p # r /\ proc[p] # Idle /\ proc[r] # Idle => proc[p].obj # proc[r].obj
  /\ late \subseteq [client : Client, addr : Addr] /\ alive \subseteq Client
  /\ fw \in [Client -> [Addr -> Vip \cup {None}]]

Init ==
  /\ crd = [n \in Name |-> None] /\ pods = {} /\ edits = 0 /\ queue = EmptyQueue
  /\ proc = [p \in Process |-> Idle] /\ late = {} /\ alive = {}
  /\ fw = [c \in Client |-> [a \in Addr |-> None]]

-----------------------------------------------------------------------------
Handled == /\ \A p \in Process : proc[p] = Idle
           /\ Quiet(queue) /\ late = {} /\ alive = {}

Spend == edits < MaxEdits /\ edits' = edits + 1 /\ (Paced => Handled)

(* Objects are created, updated and deleted; enqueueService queues a pointer.  *)
(* Every event brings an object of its own, told apart by gen, so that the      *)
(* queue merges none of them and two workers may have two of them at once.     *)
CreateEgress(n) ==
  /\ crd[n] = None /\ Spend
  /\ \E A \in Lists, s \in Selects, v \in Vip :
       LET o == [name |-> n, gen |-> edits + 1, addrs |-> A, sel |-> s, vip |-> v] IN
       crd' = [crd EXCEPT ![n] = o] /\ queue' = Add(queue, o)
  /\ UNCHANGED <<pods, proc, late, alive, fw>>

UpdateEgress(n) ==
  /\ crd[n] # None /\ Spend
  /\ \E A \in Lists, v \in Vip :
       LET o == [crd[n] EXCEPT !.gen = edits + 1, !.addrs = A, !.vip = v] IN
       /\ <<A, v>> # <<crd[n].addrs, crd[n].vip>>
       /\ crd' = [crd EXCEPT ![n] = o] /\ queue' = Add(queue, o)
  /\ UNCHANGED <<pods, proc, late, alive, fw>>

RemoveEgress(n) ==
  /\ crd[n] # None /\ Spend
  /\ crd' = [crd EXCEPT ![n] = None]
  /\ queue' = Add(queue, [crd[n] EXCEPT !.gen = edits + 1])
  /\ UNCHANGED <<pods, proc, late, alive, fw>>

ResyncSkipsUnchanged(n) == crd[n] # None /\ UNCHANGED vars

(* The resync period of the handler: an update event for every object.        *)
Resync(n) ==
  /\ crd[n] # None /\ queue' = Add(queue, crd[n])
  /\ UNCHANGED <<crd, pods, edits, proc, late, alive, fw>>

PodsChange ==
  /\ PodsMove /\ Spend /\ \E A \in SUBSET Addr \ {pods} : pods' = A
  /\ UNCHANGED <<crd, queue, proc, late, alive, fw>>

Restart(c) ==
  /\ Restarts /\ Spend
  /\ fw' = [fw EXCEPT ![c] = [a \in Addr |-> None]] /\ alive' = alive \cup {c}
  /\ UNCHANGED <<crd, pods, queue, proc, late>>

-----------------------------------------------------------------------------
Job(del, o, L) == [at |-> "make", del |-> del, obj |-> o, todo |-> {}, call |-> None,
                   pend |-> {}, ok |-> {}, list |-> L]

(* processNextWorkItem and syncEgress: the lister decides whether the object    *)
(* is added or deleted.                                                      *)
SyncEgress(w) ==
  /\ proc[w] = Idle /\ CanGet(queue)
  /\ LET o == Head(queue.fifo) IN
     proc' = [proc EXCEPT ![w] = Job(crd[o.name] = None, o, {})]
  /\ queue' = Get(queue)
  /\ UNCHANGED <<crd, pods, edits, late, alive, fw>>

(* The end of a worker's object, or of one in the resync, whose errors are      *)
(* ignored.                                                                   *)
End(p, ok) ==
  LET o == proc[p].obj  L == proc[p].list IN
  IF p = Life
  THEN /\ UNCHANGED queue
       /\ \/ L = {} /\ proc' = [proc EXCEPT ![p] = Idle]
          \/ \E next \in L : proc' = [proc EXCEPT ![p] = Job(FALSE, next, L \ {next})]
  ELSE /\ queue' = IF ok THEN Done(queue, o) ELSE Done(AddRateLimited(queue, o), o)
       /\ proc' = [proc EXCEPT ![p] = Idle]

Retry(o) ==
  /\ o \in queue.later /\ queue' = Elapse(queue, o)
  /\ UNCHANGED <<crd, pods, edits, proc, late, alive, fw>>

(* manageLoxilbEgressLifeCycle: all listed objects are added again. *)
ClientAlive(c) ==
  /\ c \in alive /\ alive' = alive \ {c} /\ proc[Life] = Idle
  /\ LET L == {crd[n] : n \in Name} \ {None} IN
     \/ L = {} /\ UNCHANGED proc
     \/ \E o \in L : proc' = [proc EXCEPT ![Life] = Job(FALSE, o, L \ {o})]
  /\ UNCHANGED <<crd, pods, edits, queue, late, fw>>

-----------------------------------------------------------------------------
(* makeLoxiFirewallModel: the listed addresses, those of the selected pods as    *)
(* they are now, without what does not parse.                                 *)
Addresses(o) == (o.addrs \cup (IF o.sel THEN pods ELSE {})) \ Bad

MakeLoxiFirewallModel(p) ==
  LET o == proc[p].obj IN
  /\ proc[p] # Idle /\ proc[p].at = "make"
  /\ \/ /\ proc' = [proc EXCEPT ![p].at = "rule", ![p].todo = Addresses(o)]
     \/ /\ o.sel /\ "list" \in Fails  \* no models: nothing to do, no error
        /\ proc' = [proc EXCEPT ![p].at = "rule", ![p].todo = {}]
  /\ UNCHANGED <<crd, pods, edits, queue, late, alive, fw>>

(* addEgress and deleteEgress: the next rule, or the end.  *)
NextRule(p) ==
  /\ proc[p] # Idle /\ proc[p].at = "rule"
  /\ \/ /\ proc[p].todo = {} /\ End(p, TRUE)
     \/ /\ UNCHANGED queue
        /\ \E a \in proc[p].todo :
             proc' = [proc EXCEPT ![p].at = "call", ![p].call = a, ![p].ok = {},
                                  ![p].todo = @ \ {a}, ![p].pend = Client]
  /\ UNCHANGED <<crd, pods, edits, late, alive, fw>>

(* callLoxiFirewallCreateAPI: one instance answers; that the rule exists is no  *)
(* error.                                                                    *)
CallCreate(p, c) ==
  LET a == proc[p].call IN
  \/ /\ fw' = [fw EXCEPT ![c][a] = IF @ = None THEN proc[p].obj.vip ELSE @]
     /\ proc' = [proc EXCEPT ![p].pend = @ \ {c}, ![p].ok = @ \cup {c}]
  \/ /\ "create" \in Fails /\ UNCHANGED fw
     /\ proc' = [proc EXCEPT ![p].pend = @ \ {c}]

CallDelete(p, c) ==
  \/ /\ fw' = [fw EXCEPT ![c][proc[p].call] = None]
     /\ proc' = [proc EXCEPT ![p].pend = @ \ {c}, ![p].ok = @ \cup {c}]
  \/ /\ "delete" \in Fails /\ UNCHANGED fw
     /\ proc' = [proc EXCEPT ![p].pend = @ \ {c}]

Call(p, c) ==
  /\ proc[p] # Idle /\ proc[p].at = "call" /\ c \in proc[p].pend
  /\ IF proc[p].del THEN CallDelete(p, c) ELSE CallCreate(p, c)
  /\ UNCHANGED <<crd, pods, edits, queue, late, alive>>

(* callLoxiFirewallCreateAPI waits for every instance; one success is success.  *)
CreateDone(p) ==
  /\ proc[p] # Idle /\ proc[p].at = "call" /\ ~proc[p].del /\ proc[p].pend = {}
  /\ IF proc[p].ok # {} THEN proc' = [proc EXCEPT ![p].at = "rule"] /\ UNCHANGED queue
                   ELSE End(p, FALSE)
  /\ UNCHANGED <<crd, pods, edits, late, alive, fw>>

DeleteDoneIgnoresErrors(p) ==
  /\ proc[p] # Idle /\ proc[p].at = "call" /\ proc[p].del /\ proc[p].pend = {}
  /\ proc' = [proc EXCEPT ![p].at = "rule"]
  /\ UNCHANGED <<crd, pods, edits, queue, late, alive, fw>>

(* callLoxiFirewallDeleteAPI takes the answers in the order of the clients and  *)
(* goes on after the first success.  The calls still under way may take effect, *)
(* or end with the context that deleteEgress cancels when it returns.           *)
DeleteDone(p) ==
  /\ proc[p] # Idle /\ proc[p].at = "call" /\ proc[p].del
  /\ \/ /\ \E i \in DOMAIN Clients : /\ Clients[i] \in proc[p].ok
                                      /\ \A j \in 1..i-1 : Clients[j] \notin proc[p].pend
        /\ late' = late \cup [client : proc[p].pend, addr : {proc[p].call}]
        /\ proc' = [proc EXCEPT ![p].at = "rule", ![p].pend = {}] /\ UNCHANGED queue
     \/ /\ proc[p].ok = {} /\ proc[p].pend = {} /\ End(p, FALSE) /\ UNCHANGED late
  /\ UNCHANGED <<crd, pods, edits, alive, fw>>

Late(l) ==
  /\ l \in late /\ late' = late \ {l}
  /\ \/ fw' = [fw EXCEPT ![l.client][l.addr] = None]
     \/ UNCHANGED fw
  /\ UNCHANGED <<crd, pods, edits, queue, proc, alive>>

-----------------------------------------------------------------------------
Step(p) == MakeLoxiFirewallModel(p) \/ NextRule(p) \/ CreateDone(p) \/ DeleteDone(p)
           \/ \E c \in Client : Call(p, c)

Next ==
  \/ \E n \in Name : CreateEgress(n) \/ UpdateEgress(n) \/ RemoveEgress(n) \/ Resync(n)
  \/ PodsChange \/ \E c \in Client : Restart(c) \/ ClientAlive(c)
  \/ \E w \in Worker : SyncEgress(w)
  \/ \E p \in Process : Step(p)
  \/ \E o \in queue.later : Retry(o)
  \/ \E l \in late : Late(l)

Spec == Init /\ [][Next]_vars

(* An instance does not refuse every call about an address for ever. *)
Accepts(c, a) ==
  \E p \in Process : /\ proc[p] # Idle /\ proc[p].call = a
                     /\ Call(p, c) /\ c \in proc'[p].ok

(* The pods are listed without an error. *)
MakesAll(p, n) == /\ proc[p] # Idle /\ proc[p].obj.name = n /\ MakeLoxiFirewallModel(p)
                  /\ proc'[p].todo = Addresses(proc[p].obj)

(* The informer resyncs, the workers and the goroutine run, and an instance that   *)
(* is called again and again about an address accepts calls about it.             *)
Fairness ==
  /\ \A n \in Name : WF_vars(Resync(n))
  /\ WF_vars(\E w \in Worker : SyncEgress(w))
  /\ \A g \in 1..MaxEdits : WF_vars(\E o \in queue.later : o.gen = g /\ Retry(o))
  /\ \A p \in Process : WF_vars(Step(p))
  /\ Fails \ {"list"} # {} => \A c \in Client, a \in Addr : SF_vars(Accepts(c, a))
  /\ "list" \in Fails => \A n \in Name : SF_vars(\E p \in Process : MakesAll(p, n))
  /\ WF_vars(\E c \in Client : ClientAlive(c))
  /\ WF_vars(\E l \in late : Late(l))

FairSpec == Spec /\ Fairness

-----------------------------------------------------------------------------
Covered(a) == \E n \in Name : crd[n] # None /\ a \in Addresses(crd[n])

Sends(o, a, v) == o # None /\ a \in Addresses(o) /\ o.vip = v

(* Every address of an Egress that stays has in the end a rule on every         *)
(* instance, although instances restart empty, calls fail, other objects with    *)
(* the address are deleted and workers still handle old versions: the resync     *)
(* repairs what they undo.  The rule sends to the egress address asked for if    *)
(* no Egress ever asked for another one: callLoxiFirewallCreateAPI takes the     *)
(* answer "exist" for success, so that a rule keeps its first egress address.    *)
EgressInstalled ==
  \A a \in Addr :
    /\ <>[]Covered(a) => \A c \in Client : <>[](fw[c][a] # None)
    /\ \A v \in Vip :
         <>[]Covered(a) /\ [](\A n \in Name, u \in Vip : Sends(crd[n], a, u) => u = v)
           => \A c \in Client : <>[](fw[c][a] = v)

(* An address of a deleted Egress that no other one names has in the end no rule *)
(* on at least one instance: callLoxiFirewallDeleteAPI asks all instances, a      *)
(* round that none of them granted is repeated, and one that one granted is not.  *)
EgressRemoved ==
  \A a \in Addr : <>[]~Covered(a) => \E c \in Client : <>[](fw[c][a] = None)

=============================================================================
