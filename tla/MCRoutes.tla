------------------------------ MODULE MCRoutes ------------------------------
(* Routes for TLC in six environments, the parts of the behaviours, from one      *)
(* initial state.  Routes whose serviceBehaviour is "update" take over Services of  *)
(* users, to be deleted with the route: the parts that have such routes keep routes  *)
(* and Services in variables of their own, so that route and out are those of an     *)
(* environment of which UserServicesKept is to hold.                                *)
EXTENDS Routes

CONSTANTS n1, b1, b2, g1, l1, m1, m2, w1, x1, x2

VARIABLES
  part,
  subject, \* the kind and the key of the route the properties are about
  routeU,  \* the routes,
  outU     \* and the Services, of the parts that have "update"

allVars == <<part, subject, routeU, outU, vars>>

At1 == [gw |-> g1, ns |-> TRUE, sec |-> l1]
AnySection == [gw |-> g1, ns |-> TRUE, sec |-> None]
NoNamespace == [gw |-> g1, ns |-> FALSE, sec |-> l1]
To(b) == [ns |-> m1, name |-> b]
Away(b) == [ns |-> m2, name |-> b]
Route(behaviour, parents, backends, text) ==
  [behaviour |-> behaviour, parents |-> parents, backends |-> backends, text |-> text]
All(S) == [k \in {"tcp", "udp", "http"} |-> S]

(* The backends change, the Gateway comes and goes, and calls fail. *)
Create == INSTANCE Routes WITH
  Kind <- {"tcp"},
  Ns <- {m1}, RouteNs <- {m1}, Name <- {n1}, Backend <- {b1, b2}, Gateways <- {g1}, Section <- {l1},
  IP <- {x1, x2}, Worker <- {w1}, Users <- FALSE, Plain <- FALSE, MaxEdits <- 4, MaxBackends <- 2,
  Fails <- {"gateway", "write"}, Regate <- TRUE,
  Specs <- All({Route("create", <<At1>>, <<To(b1)>>, 1),
                Route("create", <<At1>>, <<To(b1), To(b2)>>, 2)})

(* Routes with two backends, one of them in another namespace, are deleted, the calls   *)
(* of which fail.                                                                     *)
Removal == INSTANCE Routes WITH
  Kind <- {"tcp"},
  Ns <- {m1, m2}, RouteNs <- {m1}, Name <- {n1}, Backend <- {b1, b2}, Gateways <- {g1}, Section <- {l1},
  IP <- {x1}, Worker <- {w1}, Users <- FALSE, Plain <- FALSE, MaxEdits <- 4, MaxBackends <- 2,
  Fails <- {"list", "delete"}, Regate <- FALSE,
  Specs <- All({Route("create", <<At1>>, <<To(b1)>>, 1),
                Route("create", <<At1>>, <<To(b1), To(b2)>>, 2),
                Route("create", <<At1>>, <<To(b1), Away(b2)>>, 2)})

(* A parent without a listener, an unknown behaviour, copies of users' Services, reads  *)
(* that fail, and a Gateway that comes back with another address.                      *)
Unknown == INSTANCE Routes WITH
  Kind <- {"tcp"},
  Ns <- {m1}, RouteNs <- {m1}, Name <- {n1}, Backend <- {b1}, Gateways <- {g1}, Section <- {l1},
  IP <- {x1, x2}, Worker <- {w1}, Users <- TRUE, Plain <- TRUE, MaxEdits <- 4, MaxBackends <- 1,
  Fails <- {"get"}, Regate <- TRUE,
  Specs <- All({Route("create", <<AnySection, At1>>, <<To(b1)>>, 1),
                Route("other", <<At1>>, <<To(b1)>>, 1), Route("duplicate", <<At1>>, <<To(b1)>>, 1)})

(* TCPRoutes and UDPRoutes with every behaviour and different backends. *)
Mixed == INSTANCE Routes WITH
  route <- routeU, out <- outU,
  Kind <- {"tcp", "udp"},
  Ns <- {m1}, RouteNs <- {m1}, Name <- {n1}, Backend <- {b1, b2}, Gateways <- {g1},
  Section <- {l1}, IP <- {x1}, Worker <- {w1}, Users <- TRUE, Plain <- FALSE, MaxEdits <- 3,
  MaxBackends <- 2, Fails <- {}, Regate <- FALSE,
  Specs <- [k \in {"tcp", "udp"} |-> {Route(x, <<At1>>, <<To(IF k = "tcp" THEN b1 ELSE b2)>>, 1) :
                                       x \in {"create", "duplicate", "update"}}]

(* Routes that give no namespace for their Gateway and update users' Services, which   *)
(* may be without a class or annotations.                                             *)
Panics == INSTANCE Routes WITH
  route <- routeU, out <- outU,
  Kind <- {"tcp", "udp", "http"},
  Ns <- {m1}, RouteNs <- {m1}, Name <- {n1}, Backend <- {b1}, Gateways <- {g1},
  Section <- {l1}, IP <- {x1}, Worker <- {w1}, Users <- TRUE, Plain <- TRUE, MaxEdits <- 5,
  MaxBackends <- 2, Fails <- {}, Regate <- FALSE,
  Specs <- [All({Route("update", <<NoNamespace>>, <<To(b1)>>, 1)}) EXCEPT !["http"] = {}]

(* HTTPRoutes, which change and whose calls fail. *)
Web == INSTANCE Routes WITH
  Kind <- {"http"},
  Ns <- {m1}, RouteNs <- {m1}, Name <- {n1}, Backend <- {b1, b2}, Gateways <- {g1}, Section <- {l1},
  IP <- {x1, x2}, Worker <- {w1}, Users <- FALSE, Plain <- FALSE, MaxEdits <- 4, MaxBackends <- 1,
  Fails <- {"write", "delete"}, Regate <- TRUE,
  Specs <- All({Route("create", <<At1>>, <<>>, t) : t \in {1, 2}})

(* The constants of Routes: all kinds, and the routes of the parts without "update". *)
MCSpecs ==
  [k \in Kinds |->
     {Route("create", <<At1>>, <<To(b1)>>, 1), Route("create", <<At1>>, <<To(b1), To(b2)>>, 2),
      Route("create", <<AnySection, At1>>, <<To(b1)>>, 1), Route("other", <<At1>>, <<To(b1)>>, 1),
      Route("create", <<At1>>, <<To(b1), Away(b2)>>, 2),
      Route("duplicate", <<At1>>, <<To(b1)>>, 1), Route("create", <<At1>>, <<>>, 1),
      Route("create", <<At1>>, <<>>, 2)}]

ASSUME NoUpdate

(* The routes and the Services of the parts with "update". *)
Updated == INSTANCE Routes WITH route <- routeU, out <- outU

AllInit ==
  /\ part \in {"create", "remove", "unknown", "mixed", "panics", "web"}
  /\ subject \in [kind : CASE part = "web" -> {"http"}
                         [] part = "mixed" -> {"tcp", "udp"}
                         [] OTHER -> {"tcp"},
                 key : Key]
  /\ Init /\ routeU = route /\ outU = out

Plainly(name) == part = name /\ UNCHANGED <<part, subject, routeU, outU>>
Updating(name) == part = name /\ UNCHANGED <<part, subject, route, out>>

AllNext ==
  \/ Plainly("create") /\ Create!Next
  \/ Plainly("remove") /\ Removal!Next
  \/ Plainly("unknown") /\ Unknown!Next
  \/ Updating("mixed") /\ Mixed!Next
  \/ Updating("panics") /\ Panics!Next
  \/ Plainly("web") /\ Web!Next

(* The behaviour is one of these parts; the part never changes. *)
Of(names) == []<>(part \in names)

(* Calls for the subject do not fail for ever, and the workers run. *)
Accepts(f, n) ==
  \/ part = "create" /\ Create!Accepted(f, subject.kind, subject.key, n)
  \/ part = "remove" /\ Removal!Accepted(f, subject.kind, subject.key, n)
  \/ part = "unknown" /\ Unknown!Accepted(f, subject.kind, subject.key, n)
  \/ part = "web" /\ Web!Accepted(f, subject.kind, subject.key, n)
Answered(fs) == \A f \in fs : \A n \in Left(f) : SF_vars(Accepts(f, n))
AllFairness ==
  \/ Of({"create"}) /\ Running /\ Answered({"gateway", "write"})
  \/ Of({"remove"}) /\ Running /\ Answered({"list", "delete"})
  \/ Of({"unknown"}) /\ Running /\ Answered({"get"})
  \/ Of({"web"}) /\ Running /\ Answered({"write", "delete"})
  \/ Of({"mixed", "panics"}) /\ Updated!Running

AllSpec == AllInit /\ [][AllNext]_allVars /\ AllFairness

(* One of the parts with "update"; what Routes says of the subject there or elsewhere. *)
Upd == part \in {"mixed", "panics"}
SubjectDue == IF Upd THEN Updated!Due(subject.kind, subject.key) ELSE Due(subject.kind, subject.key)
SubjectServed ==
  IF Upd THEN Updated!Ready(subject.kind, subject.key) /\ Updated!Served(subject.kind, subject.key)
  ELSE Ready(subject.kind, subject.key) /\ Served(subject.kind, subject.key)
SubjectGone == (IF Upd THEN routeU ELSE route)[subject.kind][subject.key] = None
SubjectSingle ==
  IF Upd THEN Updated!Single(subject.kind, subject.key) ELSE Single(subject.kind, subject.key)
SubjectCleared ==
  IF Upd THEN Updated!Cleared(subject.kind, subject.key) ELSE Cleared(subject.kind, subject.key)

(* create...Route: a route that stays, and whose Gateways stay, ends up with its      *)
(* Services or Ingress, whatever came first, whatever calls failed in between, and      *)
(* however often the process met a nil pointer, if it no longer does.  Services it       *)
(* creates or updates are as its last version describes them and on the address its       *)
(* Gateway has now; copies and Ingresses stay as they were made.                        *)
RoutesServed == <>[]SubjectDue => <>[]SubjectServed

(* delete...Route: what is in a route's namespace and was made for it, its earlier       *)
(* backends included, is in the end gone once the route is gone, if it was always the     *)
(* only one of that name and no crash loses its deletion.                              *)
RoutesRemoved == <>[]SubjectGone /\ []SubjectSingle => <>[]SubjectCleared

=============================================================================
