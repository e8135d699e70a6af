----------------------------- MODULE GatewayClass -----------------------------
(***************************************************************************)
(* The GatewayClass manager (pkg/agent/manager/gatewayapi/gatewayclass.go):   *)
(* it sets the Accepted condition of the classes that name kube-loxilb as       *)
(* their controller.  Its queue holds names; the status it writes is that of    *)
(* the object in the informer's store, which it changes in place.              *)
(***************************************************************************)
EXTENDS Naturals, WorkQueue

CONSTANTS
  Class,     \* names of GatewayClasses
  Worker,    \* the workers of the manager
  None,      \* no object
  Fails,     \* UpdateStatus may fail for other reasons than a conflict
  MaxEdits   \* bound on edits and on writes that only change a time

VARIABLES
  api,     \* api[c]: the object at the API server, or None
  ver,     \* ver[c]: the version of the last write
  store,   \* store[c]: the informer's object, or None
  queue,   \* the work queue
  proc,    \* proc[w]: the class that worker w updates, or None
  edits    \* edits and writes that only change a time so far

vars == <<api, ver, store, queue, proc, edits>>

(* "ours" iff the controller name is that of kube-loxilb; the condition of type      *)
(* Accepted, which the API server gives a new class unless its status is without it.  *)
Object == [ours : BOOLEAN, accepted : {"missing", "unknown", "true"}, ver : Nat]

TypeOK ==
  /\ \A c \in Class : /\ api[c] # None => api[c] \in Object /\ api[c].ver = ver[c]
                      /\ store[c] # None => store[c] \in Object /\ store[c].ver <= ver[c]
  /\ IsQueue(queue, Class) /\ queue.busy = {proc[w].name : w \in {v \in Worker : proc[v] # None}}
  /\ edits \in 0..MaxEdits

Init ==
  /\ api = [c \in Class |-> None] /\ ver = [c \in Class |-> 0] /\ store = [c \in Class |-> None]
  /\ queue = EmptyQueue /\ proc = [w \in Worker |-> None] /\ edits = 0

-----------------------------------------------------------------------------
Write(c, o) == api' = [api EXCEPT ![c] = o] /\ ver' = [ver EXCEPT ![c] = @ + 1]

(* A user creates a class, changes its controller, or deletes it. *)
Edit(c) ==
  /\ edits < MaxEdits /\ edits' = edits + 1 /\ UNCHANGED <<store, queue, proc>>
  /\ \/ /\ api[c] = None
        /\ \E o \in BOOLEAN, a \in {"missing", "unknown"} :
             Write(c, [ours |-> o, accepted |-> a, ver |-> ver[c] + 1])
     \/ api[c] # None /\ Write(c, [api[c] EXCEPT !.ours = ~@, !.ver = ver[c] + 1])
     \/ api[c] # None /\ Write(c, None)

(* enqueueObject. *)
EnqueueObject(c) == Add(queue, c)

(* The informer catches up with the API server. *)
Event(c) ==
  /\ store[c] # api[c] /\ (store[c] # None /\ api[c] # None => store[c].ver # ver[c])
  /\ store' = [store EXCEPT ![c] = api[c]] /\ queue' = EnqueueObject(c)
  /\ UNCHANGED <<api, ver, proc, edits>>

ResyncSkips(c) == store[c] # None /\ UNCHANGED vars

(* The informer's resync, every 12 hours. *)
Resync(c) ==
  /\ store[c] # None /\ queue' = EnqueueObject(c) /\ UNCHANGED <<api, ver, store, proc, edits>>

(* updateGatewayClass sets the condition if there is one. *)
Set(o) == [o EXCEPT !.accepted = IF @ = "missing" THEN @ ELSE "true"]

(* reconcile and updateGatewayClass up to the call: the condition is set in the     *)
(* store's object.                                                               *)
Reconcile(w) ==
  /\ proc[w] = None /\ CanGet(queue)
  /\ LET c == Head(queue.fifo) IN
     \/ /\ store[c] # None => ~store[c].ours
        /\ queue' = Done(Get(queue), c) /\ UNCHANGED <<store, proc>>
     \/ /\ store[c] # None /\ store[c].ours /\ queue' = Get(queue)
        /\ proc' = [proc EXCEPT ![w] = [name |-> c, ver |-> store[c].ver]]
        /\ store' = [store EXCEPT ![c] = Set(@)]
  /\ UNCHANGED <<api, ver, edits>>

(* UpdateStatus sends the version it read, which the API server compares.  The time  *)
(* of the condition is set anew, in seconds, so that a class that was accepted gets a  *)
(* new version when a second has passed since the last.                             *)
Accepts(w) ==
  LET c == proc[w].name  o == Set(api[c]) IN
  /\ api[c] # None /\ ver[c] = proc[w].ver
  /\ \/ o = api[c] /\ UNCHANGED <<api, ver, edits>>
     \/ /\ o.accepted = "true" /\ Write(c, [o EXCEPT !.ver = ver[c] + 1])
        /\ IF o = api[c] THEN edits < MaxEdits /\ edits' = edits + 1 ELSE UNCHANGED edits

(* UpdateStatus: its error is logged and forgotten. *)
UpdateGatewayClass(w) ==
  /\ proc[w] # None /\ proc' = [proc EXCEPT ![w] = None] /\ queue' = Done(queue, proc[w].name)
  /\ LET c == proc[w].name IN
     \/ Accepts(w)
     \/ (api[c] = None \/ ver[c] # proc[w].ver \/ Fails) /\ UNCHANGED <<api, ver, edits>>
  /\ UNCHANGED store

Work(w) == Reconcile(w) \/ UpdateGatewayClass(w)

Next ==
  \/ \E c \in Class : Edit(c) \/ Event(c) \/ Resync(c)
  \/ \E w \in Worker : Work(w)

Spec == Init /\ [][Next]_vars

(* The informer and the workers run, the resync comes round, and the API server does   *)
(* not refuse one class for ever.                                                    *)
Fairness ==
  /\ \A c \in Class : WF_vars(Event(c)) /\ WF_vars(Resync(c))
  /\ \A w \in Worker : WF_vars(Work(w))
  /\ \A c \in Class : SF_vars(\E w \in Worker : /\ proc[w] # None /\ proc[w].name = c
                                               /\ UpdateGatewayClass(w) /\ Accepts(w))

FairSpec == Spec /\ Fairness

-----------------------------------------------------------------------------
(* A class of ours that stays and has the condition is in the end accepted at the API  *)
(* server, although updateGatewayClass sets the condition in the store first, meets     *)
(* conflicts with edits, and never retries by itself.                                 *)
ClassAccepted ==
  \A c \in Class : <>[](api[c] # None /\ api[c].ours /\ api[c].accepted # "missing")
                      => <>[](api[c] # None /\ api[c].accepted = "true")

=============================================================================
