------------------------------- MODULE Routes -------------------------------
(***************************************************************************)
(* The TCPRoute, UDPRoute and HTTPRoute managers (pkg/agent/manager/         *)
(* gatewayapi).  A TCPRoute or UDPRoute becomes a Service per backend, with   *)
(* the address of its Gateway: it is created, copied from one of the user or   *)
(* updated in place, as the label serviceBehaviour says.  An HTTPRoute becomes  *)
(* an Ingress.  Deleting a route deletes what carries its name in an           *)
(* annotation.                                                               *)
(*                                                                         *)
(* The managers are three copies of one program: the definitions with a kind    *)
(* as first parameter are what they have in common, those further down named     *)
(* after a file's functions are the copies.                                    *)
(***************************************************************************)
EXTENDS Naturals, FiniteSets, WorkQueue

CONSTANTS
  Kind,      \* the managers of this instance of the model
  Ns,        \* namespaces
  RouteNs,   \* the namespaces with routes
  Name,      \* names of routes
  Backend,   \* names of Services of backendRefs
  Gateways,  \* Gateways: [ns, name] is one value
  Section,   \* names of listeners
  IP,        \* addresses of gateways
  Specs,     \* Specs[k]: the specs users give to routes of kind k
  Worker,    \* the workers of each manager
  None,      \* no object
  Fails,     \* calls that may fail: "gateway", "get", "write", "list", "delete"
  Users,     \* users create and delete Services of their own
  Plain,     \* their Services may be without a load balancer class or annotations
  Regate,    \* Gateways go away and come back with other addresses
  MaxEdits,  \* bound on edits
  MaxBackends \* bound on the backends of a route

Kinds == {"tcp", "udp", "http"}

VARIABLES
  route,   \* route[k][r]: the spec of route r in the lister of k, or None
  gw,      \* gw[g]: address and listeners of a Gateway, or None
  out,     \* out[x]: the Service or Ingress x, or None
  queue,   \* queue[k]: the work queue, of namespace and name
  proc,    \* proc[k][w]: what worker w does
  panics,  \* the process has met a nil pointer
  edits    \* edits so far

vars == <<route, gw, out, queue, proc, panics, edits>>

(* A parent reference names a Gateway, whether it gives the namespace, and a    *)
(* listener or None; a backend reference names a namespace and a Service.  The   *)
(* text stands for annotations, ports, hostnames and paths.                     *)
Key == [ns : RouteNs, name : Name]
Parent == [gw : Gateways, ns : BOOLEAN, sec : Section \cup {None}]
Spec_ == [behaviour : {"create", "duplicate", "update", "other"}, parents : Seq(Parent),
          backends : Seq([ns : Ns, name : Backend]), text : Nat]
Gate == [ip : IP \cup {None}, sections : SUBSET Section]

(* Services, the copies "<name>-gw-api" of Services, and Ingresses. *)
Resource ==
  [type : {"svc", "copy"}, ns : Ns, name : Backend] \cup [type : {"ing"}, ns : RouteNs, name : Name]

(* by[k] is the annotation parent-<k>-route.  A Service may be without a class, and     *)
(* without a map of annotations.                                                       *)
Content == [user : BOOLEAN, class : BOOLEAN, notes : BOOLEAN,
            by : [Kinds -> Name \cup {None}], ip : IP \cup {None}, text : Nat]
Unmarked == [k \in Kinds |-> None]
Idle == [at |-> "idle"]
Steps == {"gateway", "get", "create", "duplicate", "update", "ingress", "list", "delete"}

TypeOK ==
  /\ \A k \in Kind, r \in Key : route[k][r] # None => route[k][r] \in Spec_
  /\ \A g \in Gateways : gw[g] # None => gw[g] \in Gate
  /\ DOMAIN out = Resource /\ \A x \in Resource : out[x] # None => out[x] \in Content
  /\ \A k \in Kind :
       /\ IsQueue(queue[k], Key)
       /\ \A w \in Worker : proc[k][w] # Idle => proc[k][w].at \in Steps
       /\ queue[k].busy = {proc[k][w].key : w \in {v \in Worker : proc[k][v] # Idle}}
       /\ \A v, w \in Worker : v # w /\ proc[k][v] # Idle /\ proc[k][w] # Idle
                                 => proc[k][v].key # proc[k][w].key
  /\ panics \in BOOLEAN /\ edits \in 0..MaxEdits

Init ==
  /\ route = [k \in Kind |-> [r \in Key |-> None]]
  /\ gw = [g \in Gateways |-> None] /\ out = [x \in Resource |-> None]
  /\ queue = [k \in Kind |-> EmptyQueue]
  /\ proc = [k \in Kind |-> [w \in Worker |-> Idle]]
  /\ panics = FALSE /\ edits = 0

-----------------------------------------------------------------------------
Spend == edits < MaxEdits /\ edits' = edits + 1

(* enqueueObject of each manager. *)
EnqueueObject(k, r) == queue' = [queue EXCEPT ![k] = Add(@, r)]

EditRoute(k, r) ==
  /\ Spend /\ EnqueueObject(k, r)
  /\ \/ \E s \in Specs[k] : s # route[k][r] /\ route' = [route EXCEPT ![k] = [@ EXCEPT ![r] = s]]
     \/ route[k][r] # None /\ route' = [route EXCEPT ![k] = [@ EXCEPT ![r] = None]]
  /\ UNCHANGED <<gw, out, proc, panics>>

(* A Gateway appears with its listeners; the Gateway manager gives it an address. *)
EditGateway(g) ==
  /\ UNCHANGED <<route, out, queue, proc, panics>>
  /\ \/ gw[g] = None /\ Spend /\ gw' = [gw EXCEPT ![g] = [ip |-> None, sections |-> Section]]
     \/ /\ gw[g] # None /\ gw[g].ip = None /\ UNCHANGED edits
        /\ \E a \in IP : gw' = [gw EXCEPT ![g].ip = a]
     \/ gw[g] # None /\ Regate /\ Spend /\ gw' = [gw EXCEPT ![g] = None]

(* Users leave alone what routes have made. *)
EditService(x) ==
  /\ Users /\ Spend /\ x.type = "svc"
  /\ \/ /\ out[x] = None
        /\ \E c, a \in {TRUE, ~Plain} : out' = [out EXCEPT ![x] =
             [user |-> TRUE, class |-> c, notes |-> a, by |-> Unmarked, ip |-> None, text |-> 0]]
     \/ out[x] # None /\ out[x].user /\ out' = [out EXCEPT ![x] = None]
  /\ UNCHANGED <<route, gw, queue, proc, panics>>

(* The informer's resync, every 12 hours. *)
Resync(k, r) ==
  /\ route[k][r] # None /\ EnqueueObject(k, r)
  /\ UNCHANGED <<route, gw, out, proc, panics, edits>>

Retry(k, r) ==
  /\ r \in queue[k].later /\ queue' = [queue EXCEPT ![k] = Elapse(@, r)]
  /\ UNCHANGED <<route, gw, out, proc, panics, edits>>

-----------------------------------------------------------------------------
At(k, w, s) == proc[k][w] # Idle /\ proc[k][w].at = s

GoesTo(k, w, s) == proc' = [proc EXCEPT ![k] = [@ EXCEPT ![w] = s]]

(* processNextWorkItem. *)
End(k, w, ok) ==
  LET r == proc[k][w].key IN
  /\ queue' = [queue EXCEPT ![k] = IF ok THEN Done(@, r) ELSE Done(AddRateLimited(@, r), r)]
  /\ GoesTo(k, w, Idle)

Fail(k, w) == End(k, w, FALSE) /\ UNCHANGED out

(* reconcile. *)
Reconcile(k, w) ==
  /\ proc[k][w] = Idle /\ CanGet(queue[k])
  /\ LET r == Head(queue[k].fifo) IN
     GoesTo(k, w,
       IF route[k][r] # None
         THEN [at |-> "gateway", key |-> r, spec |-> route[k][r],
               parents |-> route[k][r].parents, backends |-> <<>>, ip |-> None, seen |-> None]
         ELSE [at |-> "list", key |-> r])
  /\ queue' = [queue EXCEPT ![k] = Get(@)]
  /\ UNCHANGED <<route, gw, out, panics, edits>>

(* On to the next backend, the next parent, or the end. *)
Advance(k, w) ==
  LET s == proc[k][w] IN
  IF Len(s.backends) > 1
    THEN /\ GoesTo(k, w, [s EXCEPT !.at = "get", !.backends = Tail(s.backends)])
         /\ UNCHANGED queue
    ELSE IF Len(s.parents) > 1
    THEN /\ GoesTo(k, w, [s EXCEPT !.at = "gateway", !.parents = Tail(s.parents),
                                    !.backends = <<>>])
         /\ UNCHANGED queue
    ELSE End(k, w, TRUE)

(* A nil pointer ends the process; the next one lists all routes. *)
Panic ==
  /\ panics' = TRUE /\ proc' = [k \in Kind |-> [w \in Worker |-> Idle]]
  /\ queue' = [k \in Kind |-> [EmptyQueue EXCEPT
                 !.fifo = SetToSeq({r \in Key : route[k][r] # None})]]

(* findGateway, the address and findListener: create...Route for one parent.    *)
(* An unknown listener is passed over.                                          *)
FindGateway(k, w, first) ==
  /\ At(k, w, "gateway") /\ UNCHANGED <<route, gw, out, edits>>
  /\ LET s == proc[k][w] IN
     IF s.parents = <<>> THEN End(k, w, TRUE) /\ UNCHANGED panics ELSE
     LET p == Head(s.parents)  g == gw[p.gw] IN
     \/ /\ g = None \/ "gateway" \in Fails
        /\ IF p.ns \/ k = "http" THEN End(k, w, FALSE) /\ UNCHANGED panics ELSE Panic
     \/ /\ g # None /\ UNCHANGED panics
        /\ IF g.ip = None THEN End(k, w, FALSE)
           ELSE IF p.sec \in g.sections /\ (first = "ingress" \/ s.spec.backends # <<>>)
           THEN /\ GoesTo(k, w, [s EXCEPT !.at = first, !.backends = s.spec.backends, !.ip = g.ip])
                /\ UNCHANGED queue
           ELSE Advance(k, w)

-----------------------------------------------------------------------------
(* Services.                                                                 *)
Target(k, w) == LET b == Head(proc[k][w].backends) IN [type |-> "svc", ns |-> b.ns, name |-> b.name]
Copy(x) == [x EXCEPT !.type = "copy"]
IsBy(k, w, o) == o # None /\ o.by[k] = proc[k][w].key.name
Made(k, w) ==
  [user |-> FALSE, class |-> TRUE, notes |-> TRUE, by |-> [Unmarked EXCEPT ![k] = proc[k][w].key.name],
   ip |-> proc[k][w].ip, text |-> proc[k][w].spec.text]

ReconcileServiceAdopts(k, w) ==
  /\ At(k, w, "get") /\ UNCHANGED <<route, gw, panics, edits, queue, out>>
  /\ LET s == proc[k][w]  x == Target(k, w) IN
     GoesTo(k, w, [s EXCEPT !.at = IF out[x] = None THEN "create" ELSE "update", !.seen = out[x]])

(* reconcileService reads the Service and decides. *)
ReconcileService(k, w) ==
  /\ At(k, w, "get") /\ UNCHANGED <<route, gw, panics, edits>>
  /\ LET s == proc[k][w]  x == Target(k, w)
         do(step) == /\ GoesTo(k, w, [s EXCEPT !.at = step, !.seen = out[x]])
                     /\ UNCHANGED <<queue, out>>
     IN \/ s.spec.behaviour = "create" /\ out[x] = None /\ do("create")
        \/ s.spec.behaviour = "create" /\ IsBy(k, w, out[x]) /\ do("update")
        \/ /\ s.spec.behaviour \in {"duplicate", "update"} /\ out[x] # None
           /\ do(s.spec.behaviour)
        \/ /\ \/ "get" \in Fails
              \/ s.spec.behaviour = "create" /\ out[x] # None /\ ~IsBy(k, w, out[x])
              \/ s.spec.behaviour \in {"duplicate", "update"} /\ out[x] = None
              \/ s.spec.behaviour \notin {"create", "duplicate", "update"}
           /\ Fail(k, w)

(* createService and duplicateService: what exists is an error. *)
CreateAt(k, w, x) ==
  /\ UNCHANGED <<route, gw, panics, edits>>
  /\ \/ out[x] = None /\ out' = [out EXCEPT ![x] = Made(k, w)] /\ Advance(k, w)
     \/ (out[x] # None \/ "write" \in Fails) /\ Fail(k, w)

CreateService(k, w) == At(k, w, "create") /\ CreateAt(k, w, Target(k, w))
DuplicateService(k, w) == At(k, w, "duplicate") /\ CreateAt(k, w, Copy(Target(k, w)))

(* The Service that was read, as updateService changes it: the annotations of other    *)
(* managers' routes stay.                                                             *)
Renewed(k, w) ==
  LET s == proc[k][w] IN
  [Made(k, w) EXCEPT !.user = s.seen.user, !.by = [s.seen.by EXCEPT ![k] = s.key.name]]

UpdateServiceKeepsAddress(k, w) ==
  /\ At(k, w, "update") /\ UNCHANGED <<route, gw, edits, panics>>
  /\ LET s == proc[k][w]  x == Target(k, w) IN
     \/ /\ out[x] # None
        /\ out' = [out EXCEPT ![x] = [Renewed(k, w) EXCEPT !.ip = s.seen.ip]]
        /\ Advance(k, w)
     \/ Fail(k, w)

(* updateService writes the Service it read, which must have annotations and a class;   *)
(* the API server refuses it when the Service has changed since.                       *)
UpdateService(k, w) ==
  /\ At(k, w, "update") /\ UNCHANGED <<route, gw, edits>>
  /\ LET s == proc[k][w]  x == Target(k, w)  ok == s.seen.notes /\ s.seen.class IN
     \/ ~ok /\ Panic /\ UNCHANGED out
     \/ /\ ok /\ out[x] = s.seen /\ UNCHANGED panics
        /\ out' = [out EXCEPT ![x] = Renewed(k, w)]
        /\ Advance(k, w)
     \/ ok /\ (out[x] # s.seen \/ "write" \in Fails) /\ Fail(k, w) /\ UNCHANGED panics

(* createIngress: the Ingress has the route's name.  An error, that of an Ingress   *)
(* that exists included, is only logged by reconcileIngress.                      *)
CreateIngress(k, w) ==
  LET x == [type |-> "ing", ns |-> proc[k][w].key.ns, name |-> proc[k][w].key.name] IN
  /\ At(k, w, "ingress") /\ UNCHANGED <<route, gw, panics, edits>>
  /\ \/ out[x] = None /\ out' = [out EXCEPT ![x] = Made(k, w)]
     \/ (out[x] # None \/ "write" \in Fails) /\ UNCHANGED out
  /\ LET s == proc[k][w] IN
     IF Len(s.parents) > 1
       THEN /\ GoesTo(k, w, [s EXCEPT !.at = "gateway", !.parents = Tail(s.parents)])
            /\ UNCHANGED queue
       ELSE End(k, w, TRUE)

-----------------------------------------------------------------------------
(* delete...Route: what the route's namespace lists under the route's name ...     *)
List(k, w, types) ==
  /\ At(k, w, "list") /\ UNCHANGED <<route, gw, out, panics, edits>>
  /\ LET r == proc[k][w].key
         own == {x \in Resource : /\ x.type \in types /\ x.ns = r.ns /\ out[x] # None
                                  /\ out[x].by[k] = r.name}
     IN \/ /\ own # {} /\ UNCHANGED queue
           /\ GoesTo(k, w, [at |-> "delete", key |-> r, own |-> own])
        \/ own = {} /\ End(k, w, TRUE)
        \/ "list" \in Fails /\ End(k, w, FALSE)

DeleteFirstOnly(k, w) ==
  /\ At(k, w, "delete") /\ UNCHANGED <<route, gw, panics, edits>>
  /\ \E x \in proc[k][w].own : out' = [out EXCEPT ![x] = None] /\ End(k, w, TRUE)

(* ... is deleted, one after the other up to the first error. *)
Delete(k, w) ==
  /\ At(k, w, "delete") /\ UNCHANGED <<route, gw, panics, edits>>
  /\ LET s == proc[k][w] IN
     \E x \in s.own :
       \/ /\ out[x] # None /\ out' = [out EXCEPT ![x] = None]
          /\ IF s.own = {x} THEN End(k, w, TRUE)
             ELSE /\ GoesTo(k, w, [s EXCEPT !.own = s.own \ {x}])
                  /\ UNCHANGED queue
       \/ (out[x] = None \/ "delete" \in Fails) /\ Fail(k, w)

-----------------------------------------------------------------------------
(* The three managers. *)
findGatewayTCP(w) == FindGateway("tcp", w, "get")
reconcileServiceTCP(w) == ReconcileService("tcp", w)
createServiceTCP(w) == CreateService("tcp", w)
duplicateServiceTCP(w) == DuplicateService("tcp", w)
updateServiceTCP(w) == UpdateService("tcp", w)
createTCPRoute(w) ==
  \/ findGatewayTCP(w) \/ reconcileServiceTCP(w) \/ createServiceTCP(w)
  \/ duplicateServiceTCP(w) \/ updateServiceTCP(w)
deleteTCPRoute(w) == List("tcp", w, {"svc", "copy"}) \/ Delete("tcp", w)
TCPRoute(w) == Reconcile("tcp", w) \/ createTCPRoute(w) \/ deleteTCPRoute(w)

findGatewayUDP(w) == FindGateway("udp", w, "get")
reconcileServiceUDP(w) == ReconcileService("udp", w)
createServiceUDP(w) == CreateService("udp", w)
duplicateServiceUDP(w) == DuplicateService("udp", w)
updateServiceUDP(w) == UpdateService("udp", w)
createUDPRoute(w) ==
  \/ findGatewayUDP(w) \/ reconcileServiceUDP(w) \/ createServiceUDP(w)
  \/ duplicateServiceUDP(w) \/ updateServiceUDP(w)
deleteUDPRoute(w) == List("udp", w, {"svc", "copy"}) \/ Delete("udp", w)
UDPRoute(w) == Reconcile("udp", w) \/ createUDPRoute(w) \/ deleteUDPRoute(w)

findGatewayHTTP(w) == FindGateway("http", w, "ingress")
reconcileIngress(w) == CreateIngress("http", w)
createHTTPRoute(w) == findGatewayHTTP(w) \/ reconcileIngress(w)
deleteHTTPRoute(w) == List("http", w, {"ing"}) \/ Delete("http", w)
HTTPRoute(w) ==
  Reconcile("http", w) \/ createHTTPRoute(w) \/ deleteHTTPRoute(w)

Step(k, w) ==
  \/ k = "tcp" /\ TCPRoute(w)
  \/ k = "udp" /\ UDPRoute(w)
  \/ k = "http" /\ HTTPRoute(w)

Next ==
  \/ \E k \in Kind : \/ \E r \in Key : EditRoute(k, r) \/ Resync(k, r) \/ Retry(k, r)
                     \/ \E w \in Worker : Step(k, w)
  \/ \E g \in Gateways : EditGateway(g)
  \/ \E x \in Resource : EditService(x)

Spec == Init /\ [][Next]_vars

(* A call does not fail for ever for one route, with n backends left to do. *)
Accepted(f, k, r, n) ==
  \E w \in Worker :
    /\ proc[k][w] # Idle /\ proc[k][w].key = r /\ Step(k, w) /\ r \notin queue'[k].later
    /\ CASE f = "gateway" -> proc[k][w].at = "gateway" /\ n = 0
         [] f = "get"     -> proc[k][w].at = "get" /\ Len(proc[k][w].backends) = n
         [] f = "write"   -> /\ proc[k][w].at \in {"create", "duplicate", "update", "ingress"}
                             /\ Len(proc[k][w].backends) = n /\ (n = 0 => out' # out)
         [] f = "list"    -> proc[k][w].at = "list" /\ n = 0
         [] f = "delete"  -> proc[k][w].at = "delete" /\ Cardinality(proc[k][w].own) = n

Left(f) == CASE f \in {"gateway", "list"} -> {0}
             [] f \in {"get", "delete"}  -> 1..MaxBackends
             [] f = "write"             -> 0..MaxBackends

(* The workers run, delays end, the resync comes round. *)
Running ==
  \A k \in Kind : /\ \A r \in Key : WF_vars(Resync(k, r)) /\ WF_vars(Retry(k, r))
                  /\ \A w \in Worker : WF_vars(Step(k, w))

Fairness ==
  Running /\ \A f \in Fails, k \in Kind, r \in Key : \A n \in Left(f) : SF_vars(Accepted(f, k, r, n))

FairSpec == Spec /\ Fairness

-----------------------------------------------------------------------------
(* The Services or the Ingress a route asks for. *)
Wanted(k, r) ==
  LET svc == {[type |-> "svc", ns |-> b.ns, name |-> b.name] : b \in ToSet(route[k][r].backends)} IN
  IF k = "http" THEN {[type |-> "ing", ns |-> r.ns, name |-> r.name]}
  ELSE IF route[k][r].behaviour = "duplicate" THEN {Copy(x) : x \in svc} ELSE svc

OwnedBy(k, r, x) == out[x] # None /\ out[x].by[k] = r.name

(* Only this route has put its name on x. *)
OnlyOf(k, r, x) == out[x] # None => \A j \in Kind : out[x].by[j] # None => j = k /\ out[x].by[j] = r.name

(* What a route needs is there: its Gateways with addresses, the last one with the     *)
(* listener, and the Services to copy or update, with a class and annotations; no       *)
(* other route has its name or names on what it makes, and it copies one Service only.   *)
Ready(k, r) ==
  /\ route[k][r] # None /\ route[k][r].parents # <<>>
  /\ \A q \in Key : q # r /\ q.name = r.name => route[k][q] = None
  /\ \A p \in ToSet(route[k][r].parents) : gw[p.gw] # None /\ gw[p.gw].ip # None
  /\ LET p == Last(route[k][r].parents) IN p.sec \in gw[p.gw].sections
  /\ route[k][r].behaviour # "other"
  /\ \A x \in Wanted(k, r) :
       /\ OnlyOf(k, r, x)
       /\ CASE k = "http" \/ route[k][r].behaviour = "create" -> out[x] = None \/ OwnedBy(k, r, x)
            [] route[k][r].behaviour = "duplicate" -> /\ out[[x EXCEPT !.type = "svc"]] # None
                                                      /\ out[x] = None \/ OwnedBy(k, r, x)
                                                      /\ Len(route[k][r].backends) = 1
            [] OTHER -> out[x] # None /\ out[x].class /\ out[x].notes

(* Copies and Ingresses stay as they were made; other Services are as the last version   *)
(* of the route has them, on the address its Gateway has now.                           *)
Served(k, r) ==
  \A x \in Wanted(k, r) :
    /\ OwnedBy(k, r, x)
    /\ x.type = "svc" => /\ out[x].text = route[k][r].text
                         /\ out[x].ip = gw[Last(route[k][r].parents).gw].ip

(* A route of which the managers meet a nil pointer: its Gateway is missing and it gives  *)
(* no namespace for it, or it updates a Service without a class or annotations.          *)
Crashes(k, r) ==
  /\ route[k][r] # None /\ k # "http"
  /\ \/ \E p \in ToSet(route[k][r].parents) : ~p.ns /\ gw[p.gw] = None
     \/ /\ route[k][r].behaviour = "update"
        /\ \E x \in Wanted(k, r) : out[x] # None /\ ~(out[x].class /\ out[x].notes)

(* A route can be served, and nothing crashes. *)
Due(k, r) == Ready(k, r) /\ \A j \in Kind, q \in Key : ~Crashes(j, q)

(* A route is there alone of its name, or not at all, and there was no crash. *)
Single(k, r) == ~panics /\ \A q \in Key : q # r /\ q.name = r.name => route[k][q] = None

(* Nothing in the route's namespace carries its name. *)
Cleared(k, r) == \A x \in Resource : x.ns = r.ns => ~OwnedBy(k, r, x)

KeepsUserServices ==
  edits' = edits => \A x \in Resource : out[x] # None /\ out[x].user => out'[x] # None

(* No route asks for a Service of the user to be updated in place, which makes it      *)
(* the route's, to be deleted with it.                                               *)
NoUpdate == \A k \in Kind : \A s \in Specs[k] : s.behaviour # "update"

(* The managers never delete a Service that a user made (under NoUpdate), although     *)
(* they delete by a list that may be out of date.                                    *)
UserServicesKept == [][KeepsUserServices]_vars

=============================================================================
