------------------------------- MODULE Gateway -------------------------------
(***************************************************************************)
(* The Gateway manager (pkg/agent/manager/gatewayapi/gateway.go): it gives   *)
(* each Gateway an address of the IP pool, writes it to the spec and to the   *)
(* status of the object, and creates a LoadBalancer Service for its HTTP      *)
(* listeners.                                                                *)
(*                                                                         *)
(* The work queue and the informer's store hold pointers.  What a pointer      *)
(* leads to is in "heap", under the gateway and the version the informer got:   *)
(* createGateway writes the new address into that shared object before it calls  *)
(* the API server, and four workers may hold pointers to it.                   *)
(***************************************************************************)
EXTENDS Naturals, FiniteSets, WorkQueue

CONSTANTS
  IP, PoolIP, Port, NoIdent, Shared,   \* of IPPool
  Gateways,  \* names of Gateway objects
  Worker,    \* the workers of the manager
  Port0,     \* port 0 and no protocol: what every gateway allocates under
  Static,    \* addresses that users put into a spec themselves
  None,      \* no object, no annotation
  Fails,     \* calls that may fail: "class", "update", "status", "create", "delete"
  Resyncs,   \* the informer's resync, every 12 hours, is part of the behaviours
  Restarts,  \* kube-loxilb restarts
  Deletes,   \* gateways are deleted
  Paced,     \* what is done to a gateway only when the last edit of it has been
             \* handled: "edit" for everything, "delete" for its deletion
  MaxEdits   \* bound on edits, restarts and writes that only change a time

VARIABLES
  held,    \* the holdings of the pool
  api,     \* api[g]: the object at the API server, or None
  rv,      \* rv[g]: the version of the last write to g
  watch,   \* watch[g]: the events on their way to the informer
  heap,    \* the objects in memory
  store,   \* store[g]: the version of the informer's object, 0 without
  queue,   \* the work queue, of pointers
  proc,    \* proc[w]: what worker w does
  svc,     \* svc[g]: the address of Service <g>-ingress-service, or None
  edits    \* edits, restarts and writes that only change a time so far

vars == <<held, api, rv, watch, heap, store, queue, proc, svc, edits>>

Pool == INSTANCE IPPool
Ident == Pool!Ident

(* A Gateway object: spec and status addresses, the "ident-ipam" annotation,    *)
(* and whether it has HTTP or HTTPS listeners.                                *)
Object == [spec : Seq(IP), status : Seq(IP), ident : Ident \cup {None}, http : BOOLEAN, ver : Nat]
Pointer == [gw : Gateways, ver : Nat \ {0}]
Idle == [at |-> "idle"]
Steps == {"alloc", "append", "update", "status", "service", "release", "unserve"}

TypeOK ==
  /\ Pool!PoolTypeOK /\ edits \in 0..MaxEdits /\ rv \in [Gateways -> Nat]
  /\ \A g \in Gateways : /\ api[g] # None => api[g] \in Object /\ api[g].ver = rv[g]
                         /\ store[g] <= rv[g] /\ svc[g] \in IP \cup {None}
                         /\ store[g] # 0 => [gw |-> g, ver |-> store[g]] \in DOMAIN heap
  /\ IsQueue(queue, Pointer) /\ Waiting(queue) \subseteq DOMAIN heap
  /\ \A w \in Worker : proc[w] # Idle =>
       /\ proc[w].at \in Steps /\ {proc[w].item, proc[w].obj} \subseteq DOMAIN heap
       /\ proc[w].item.gw = proc[w].obj.gw
  /\ queue.busy = {proc[w].item : w \in {v \in Worker : proc[v] # Idle}}

Init ==
  /\ held = {} /\ heap = << >> /\ edits = 0 /\ queue = EmptyQueue
  /\ api = [g \in Gateways |-> None] /\ rv = [g \in Gateways |-> 0]
  /\ watch = [g \in Gateways |-> <<>>] /\ store = [g \in Gateways |-> 0]
  /\ proc = [w \in Worker |-> Idle] /\ svc = [g \in Gateways |-> None]

-----------------------------------------------------------------------------
(* The API server and the informer. *)
Write(g, o) ==
  /\ api' = [api EXCEPT ![g] = o]
  /\ rv' = [rv EXCEPT ![g] = @ + 1]
  /\ watch' = [watch EXCEPT ![g] = Append(@, [obj |-> IF o = None THEN api[g] ELSE o,
                                              ver |-> rv[g] + 1, gone |-> o = None])]

NoWrite == UNCHANGED <<api, rv, watch>>

Handled(g) ==
  /\ watch[g] = <<>> /\ \A p \in Waiting(queue) : p.gw # g
  /\ \A w \in Worker : proc[w] # Idle => proc[w].item.gw # g

Spend == edits < MaxEdits /\ edits' = edits + 1

(* A user creates, changes or deletes a Gateway. *)
Edit(g) ==
  /\ Spend /\ ("edit" \in Paced => Handled(g))
  /\ \/ /\ api[g] = None
        /\ \E s \in {<<>>} \cup {<<a>> : a \in Static}, h \in BOOLEAN :
             Write(g, [spec |-> s, status |-> <<>>, ident |-> None, http |-> h, ver |-> rv[g] + 1])
     \/ /\ api[g] # None
        /\ Write(g, [api[g] EXCEPT !.http = ~@, !.ver = rv[g] + 1])
     \/ Deletes /\ api[g] # None /\ ("delete" \in Paced => Handled(g)) /\ Write(g, None)
  /\ UNCHANGED <<held, heap, store, queue, proc, svc>>

(* What is still pointed to. *)
Reached(S, q, p) ==
  {[gw |-> g, ver |-> S[g]] : g \in {x \in Gateways : S[x] # 0}} \cup Waiting(q) \cup q.busy
    \cup {p[w].obj : w \in {v \in Worker : p[v] # Idle}}

Keep(h, S, q, p) == [x \in DOMAIN h \cap Reached(S, q, p) |-> h[x]]

(* enqueueObject: the object of the event, that of a deletion included. *)
EnqueueObject(g, ver) == Add(queue, [gw |-> g, ver |-> ver])

Event(g) ==
  /\ watch[g] # <<>> /\ watch' = [watch EXCEPT ![g] = Tail(@)]
  /\ LET e == Head(watch[g]) IN
     /\ store' = [store EXCEPT ![g] = IF e.gone THEN 0 ELSE e.ver]
     /\ queue' = EnqueueObject(g, e.ver)
     /\ heap' = Keep([x \in DOMAIN heap \cup {[gw |-> g, ver |-> e.ver]} |->
                        IF x \in DOMAIN heap THEN heap[x] ELSE e.obj], store', queue', proc)
  /\ UNCHANGED <<held, api, rv, proc, svc, edits>>

(* The informer's resync updates. *)
Resync(g) ==
  /\ Resyncs /\ store[g] # 0 /\ queue' = EnqueueObject(g, store[g])
  /\ UNCHANGED <<held, api, rv, watch, heap, store, proc, svc, edits>>

Retry(p) ==
  /\ p \in queue.later /\ queue' = Elapse(queue, p)
  /\ UNCHANGED <<held, api, rv, watch, heap, store, proc, svc, edits>>

(* A new process: empty pools, and the objects of the API server. *)
Reboot ==
  /\ held' = {} /\ watch' = [g \in Gateways |-> <<>>]
  /\ store' = [g \in Gateways |-> IF api[g] = None THEN 0 ELSE rv[g]]
  /\ heap' = [p \in {[gw |-> g, ver |-> rv[g]] : g \in {x \in Gateways : api[x] # None}} |-> api[p.gw]]
  /\ queue' = [EmptyQueue EXCEPT !.fifo = SetToSeq(DOMAIN heap')]
  /\ proc' = [w \in Worker |-> Idle]
  /\ UNCHANGED <<api, rv, svc>>

(* The process ends at any point; it also does when the informer reports a        *)
(* deletion that it missed, for which enqueueObject queues a nil pointer.          *)
Restart == Restarts /\ Spend /\ Reboot

-----------------------------------------------------------------------------
At(w, s) == proc[w] # Idle /\ proc[w].at = s
Go(w, s) == proc' = [proc EXCEPT ![w] = [@ EXCEPT !.at = s]]

(* processNextWorkItem: an item that fails comes back. *)
End(w, ok) ==
  LET p == proc[w].item IN
  /\ queue' = IF ok THEN Done(queue, p) ELSE Done(AddRateLimited(queue, p), p)
  /\ proc' = [proc EXCEPT ![w] = Idle]

(* The end of a step that left the objects in memory as H. *)
EndWith(w, ok, H) == End(w, ok) /\ heap' = Keep(H, store, queue', proc')

(* reconcile: the lister's object if there is one, else the item's.            *)
Reconcile(w) ==
  /\ proc[w] = Idle /\ CanGet(queue) /\ queue' = Get(queue)
  /\ LET p == Head(queue.fifo) IN
     proc' = [proc EXCEPT ![w] =
       [at   |-> IF store[p.gw] = 0 THEN "release" ELSE "alloc",
        item |-> p,
        obj  |-> IF store[p.gw] = 0 THEN p ELSE [gw |-> p.gw, ver |-> store[p.gw]],
        ip   |-> None, ident |-> None, upd |-> None]]
  /\ UNCHANGED <<held, api, rv, watch, heap, store, svc, edits>>

(* createGateway allocates for a gateway without an address; an exhausted pool    *)
(* ends the process.                                                          *)
Allocate(w) ==
  \/ /\ heap[proc[w].obj].spec # <<>> /\ Go(w, "status")
     /\ UNCHANGED <<held, api, rv, watch, heap, store, queue, svc, edits>>
  \/ /\ heap[proc[w].obj].spec = <<>>
     /\ \E ip \in PoolIP, ident \in Ident :
          /\ Pool!GetNewIPAddr(Port0, ip, ident)
          /\ proc' = [proc EXCEPT ![w] = [@ EXCEPT !.at = "append", !.ip = ip, !.ident = ident]]
     /\ UNCHANGED <<api, rv, watch, heap, store, queue, svc, edits>>
  \/ /\ heap[proc[w].obj].spec = <<>> /\ Pool!NoNewIPAddr(Port0)
     /\ Reboot /\ UNCHANGED edits

(* A class that cannot be read ends createGateway without an error. *)
CreateGateway(w) ==
  /\ At(w, "alloc")
  /\ \/ Allocate(w)
     \/ /\ "class" \in Fails /\ EndWith(w, TRUE, heap)
        /\ UNCHANGED <<held, api, rv, watch, store, svc, edits>>

(* The address goes into the object of the informer's store. *)
AppendAddress(w) ==
  /\ At(w, "append") /\ Go(w, "update")
  /\ heap' = [heap EXCEPT ![proc[w].obj] = [@ EXCEPT !.spec = Append(@, proc[w].ip),
                                                     !.ident = proc[w].ident]]
  /\ UNCHANGED <<held, api, rv, watch, store, queue, svc, edits>>

(* The API server refuses what was read before the last write. *)
Current(w) == LET p == proc[w].obj IN api[p.gw] # None /\ rv[p.gw] = heap[p].ver

(* Update succeeds, and returns the object as the API server now has it ...      *)
Updated(w) ==
  LET p == proc[w].obj IN
  /\ Current(w)
  /\ Write(p.gw, [api[p.gw] EXCEPT !.spec = heap[p].spec, !.ident = heap[p].ident,
                                   !.ver = rv[p.gw] + 1])
  /\ proc' = [proc EXCEPT ![w] = [@ EXCEPT !.at = "status", !.upd = api'[p.gw]]]
  /\ UNCHANGED <<heap, queue>>

UpdateReturnsAddress(w) ==
  /\ At(w, "update")
  /\ \/ Updated(w)
     \/ (~Current(w) \/ "update" \in Fails) /\ EndWith(w, FALSE, heap) /\ NoWrite
  /\ Pool!ReturnIPAddr(proc[w].ip, proc[w].ident)
  /\ UNCHANGED <<store, svc, edits>>

(* ... or fails: the address goes back to the pool, but stays in the object of   *)
(* the store.                                                                 *)
Update(w) ==
  /\ At(w, "update")
  /\ \/ Updated(w) /\ UNCHANGED held
     \/ /\ ~Current(w) \/ "update" \in Fails
        /\ Pool!ReturnIPAddr(proc[w].ip, proc[w].ident) /\ EndWith(w, FALSE, heap) /\ NoWrite
  /\ UNCHANGED <<store, svc, edits>>

(* The status with the spec's addresses it lacks. *)
WithSpec(o) == [o EXCEPT !.status = @ \o SelectSeq(o.spec, LAMBDA a : a \notin ToSet(o.status))]

StatusRefusedForgets(w, H) == EndWith(w, TRUE, H)

(* An error of UpdateStatus is only logged, but leaves an empty object, for which  *)
(* no Service can be made: the item comes back.                                  *)
StatusRefused(w, H) == EndWith(w, FALSE, H)

(* The API server takes a status: it makes a new version of one that changed.     *)
(* createGateway sets the time of the conditions anew, in seconds, so that the     *)
(* same addresses are a new version when a second has passed since the last.       *)
TakeStatus(g, st) ==
  \/ api[g].status = st /\ NoWrite /\ UNCHANGED edits
  \/ /\ Write(g, [api[g] EXCEPT !.status = st, !.ver = rv[g] + 1])
     /\ IF api[g].status = st THEN Spend ELSE UNCHANGED edits

(* UpdateStatus, with the object that Update returned or else the store's. *)
UpdateStatus(w) ==
  LET p == proc[w].obj
      o == WithSpec(IF proc[w].upd = None THEN heap[p] ELSE proc[w].upd)
      H == IF proc[w].upd = None THEN [heap EXCEPT ![p] = o] ELSE heap
      current == api[p.gw] # None /\ rv[p.gw] = o.ver
  IN
  /\ At(w, "status")
  /\ \/ /\ current
        /\ TakeStatus(p.gw, o.status)
        /\ proc' = [proc EXCEPT ![w] = [@ EXCEPT !.at = "service", !.upd = api'[p.gw]]]
        /\ heap' = H /\ UNCHANGED queue
     \/ (~current \/ "status" \in Fails) /\ StatusRefused(w, H) /\ NoWrite /\ UNCHANGED edits
  /\ UNCHANGED <<held, store, svc>>

(* createIngressLbService: a Service that exists stays as it is.                  *)
CreateIngressLbService(w) ==
  LET g == proc[w].obj.gw  o == proc[w].upd IN
  /\ At(w, "service")
  /\ \/ svc[g] # None /\ EndWith(w, TRUE, heap) /\ UNCHANGED svc
     \/ svc[g] = None /\ o.spec = <<>> /\ EndWith(w, FALSE, heap) /\ UNCHANGED svc
     \/ svc[g] = None /\ o.spec # <<>> /\ ~o.http /\ EndWith(w, TRUE, heap) /\ UNCHANGED svc
     \/ /\ svc[g] = None /\ o.spec # <<>> /\ o.http
        /\ \/ svc' = [svc EXCEPT ![g] = Head(o.status)] /\ EndWith(w, TRUE, heap)
           \/ "create" \in Fails /\ EndWith(w, FALSE, heap) /\ UNCHANGED svc
  /\ NoWrite /\ UNCHANGED <<held, store, edits>>

(* deleteGateway: the addresses of the item's status go back to the pool ...      *)
DeleteGateway(w) ==
  LET o == heap[proc[w].item] IN
  /\ At(w, "release") /\ Go(w, "unserve")
  /\ held' = Pool!AfterReturn({<<a, o.ident>> : a \in ToSet(o.status)})
  /\ UNCHANGED <<api, rv, watch, heap, store, queue, svc, edits>>

DeleteIngressLbServiceSkips(w) ==
  /\ At(w, "unserve") /\ EndWith(w, TRUE, heap) /\ UNCHANGED svc
  /\ NoWrite /\ UNCHANGED <<held, store, edits>>

(* ... and deleteIngressLbService deletes the Service: an error brings the item    *)
(* back, and its addresses are handed back once more.                            *)
DeleteIngressLbService(w) ==
  /\ At(w, "unserve")
  /\ \/ svc' = [svc EXCEPT ![proc[w].item.gw] = None] /\ EndWith(w, TRUE, heap)
     \/ "delete" \in Fails /\ EndWith(w, FALSE, heap) /\ UNCHANGED svc
  /\ NoWrite /\ UNCHANGED <<held, store, edits>>

Work(w) ==
  \/ Reconcile(w) \/ CreateGateway(w) \/ AppendAddress(w) \/ Update(w) \/ UpdateStatus(w)
  \/ CreateIngressLbService(w) \/ DeleteGateway(w) \/ DeleteIngressLbService(w)

Next ==
  \/ \E g \in Gateways : Edit(g) \/ Event(g) \/ Resync(g)
  \/ Restart \/ \E p \in queue.later : Retry(p)
  \/ \E w \in Worker : Work(w)

Spec == Init /\ [][Next]_vars

(* A call does not fail for ever for one gateway. *)
Accepted(f, g) ==
  \E w \in Worker :
    /\ proc[w] # Idle /\ proc[w].item.gw = g
    /\ CASE f = "class"  -> At(w, "alloc") /\ Allocate(w)
         [] f = "update" -> Update(w) /\ proc'[w] # Idle
         [] f = "status" -> UpdateStatus(w) /\ proc'[w] # Idle
         [] f = "create" -> CreateIngressLbService(w) /\ svc'[g] # None
         [] f = "delete" -> DeleteIngressLbService(w) /\ svc'[g] = None

(* The informer delivers, delays end, workers run: the goroutines of the process.  *)
(* Retries are fair per gateway.                                                 *)
Fairness ==
  /\ \A g \in Gateways : WF_vars(Event(g)) /\ WF_vars(Resync(g))
  /\ \A g \in Gateways : WF_vars(\E p \in queue.later : p.gw = g /\ Retry(p))
  /\ \A w \in Worker : WF_vars(Work(w))
  /\ \A f \in Fails, g \in Gateways : SF_vars(Accepted(f, g))

FairSpec == Spec /\ Fairness

-----------------------------------------------------------------------------
Listed(g) == IF api[g] = None THEN {} ELSE ToSet(api[g].status)

(* createGateway: the pool addresses in the status of a gateway are held in the    *)
(* pool under the identifier noted on the gateway, so that nobody else gets them.  *)
AddressHeld ==
  \A g \in Gateways : \A a \in Listed(g) \cap PoolIP : <<a, api[g].ident>> \in held

(* createGateway: no address is in the status of two gateways. *)
GatewaysApart ==
  \A g, h \in Gateways : g # h => Listed(g) \cap Listed(h) \cap PoolIP = {}

(* createGateway, deleteGateway: what the pool hands out to gateways is, once all     *)
(* work is done, in the status of a gateway: nothing is lost on the error paths.      *)
NoAddressLost ==
  (\A g \in Gateways : Handled(g)) => {h[1] : h \in held} \subseteq UNION {Listed(g) : g \in Gateways}

(* createIngressLbService: the Service of a gateway asks for an address of that       *)
(* gateway, never for one of an earlier gateway of the same name.                    *)
ServiceOnGateway ==
  \A g \in Gateways : api[g] # None /\ svc[g] # None => svc[g] \in Listed(g)

(* createGateway: a gateway that stays ends up with an address in its status and, if     *)
(* it has HTTP listeners, with a Service.  (Not when Update fails other than by a        *)
(* conflict: the address stays in the store's object alone, and the retry skips Update.)  *)
GatewayServed ==
  \A g \in Gateways :
    /\ <>[](api[g] # None) => <>[](Listed(g) # {})
    /\ <>[](api[g] # None /\ api[g].http) => <>[](svc[g] # None)

(* deleteGateway: the Service of a gateway that is gone is in the end deleted, provided   *)
(* the deletion is seen and the gateway's earlier versions were handled before it.        *)
GatewayRemoved == \A g \in Gateways : <>[](api[g] = None) => <>[](svc[g] = None)

=============================================================================
