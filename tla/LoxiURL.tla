------------------------------- MODULE LoxiURL -------------------------------
(***************************************************************************)
(* The LoxiURL manager (pkg/agent/manager/loxiurl) and what its one worker     *)
(* does to the load balancer manager: the clients of the loxilb instances, the *)
(* table of address pools and the map of host addresses, whose changes the     *)
(* life cycle goroutine shows in the status of services on a 0.0.0.0 pool.     *)
(*                                                                          *)
(* The informer's cache and its events move together; the work queue holds     *)
(* objects, not keys.  The health checks and the purge channel of the clients  *)
(* the worker creates and removes are in AgentLoop.                           *)
(***************************************************************************)
EXTENDS Naturals, FiniteSets, WorkQueue

CONSTANTS
  Name,        \* names of LoxiURL objects
  PoolName,    \* those of type cidrpool
  HostName,    \* those of type hostcidr; the others have the default type
  OtherZone,   \* those of another zone
  URL,         \* the values of spec.loxiURL, singly or in a list
  Bad,         \* those that do not parse
  Configured,  \* --loxiURL
  ZeroCIDR,    \* some service uses a pool of 0.0.0.0
  Lists,       \* the lists of URLs that objects of the default type have
  Updates,     \* objects are updated, not only created and deleted
  Overlap,     \* two objects may list one URL
  Paced,       \* an object is edited only when the last edit has been handled
  MaxEdits     \* bound

VARIABLES
  crd,              \* crd[n]: the URLs of object n in the lister, {} without one
  edits,            \* edits so far
  queue,            \* the work queue
  worker,           \* where the worker stands
  clients,          \* LoxiClients.Clients
  crdControlOn,     \* crdControlOn
  ipPoolTbl,        \* ipPoolTbl[n]: the CIDR of a pool, {} without one
  loxiInstAddrMap,  \* loxiInstAddrMap[n], {} without one
  life,             \* manageLoxiLbLifeCycle: at its select or updating services
  status            \* the addresses the services on a 0.0.0.0 pool show

vars == <<crd, edits, queue, worker, clients, crdControlOn, ipPoolTbl,
          loxiInstAddrMap, life, status>>

Object == [name : Name, urls : SUBSET URL \ {{}}]
LoxiClient == [url : URL, name : Name \cup {"host"}]
Idle == [at |-> "idle"]

TypeOK ==
  /\ crd \in [Name -> SUBSET URL] /\ edits \in 0..MaxEdits
  /\ IsQueue(queue, Object)
  /\ worker \in {Idle} \cup [at : {"sync", "signal"}, obj : Object]
  /\ clients \subseteq LoxiClient
  /\ \A c, d \in clients : c.url = d.url => c = d
  /\ crdControlOn \in BOOLEAN
  /\ ipPoolTbl \in [Name -> SUBSET URL] /\ loxiInstAddrMap \in [Name -> SUBSET URL]
  /\ life \in {"select", "update"} /\ status \subseteq URL \cup {"llbanyextip"}

Init ==
  /\ crd = [n \in Name |-> {}] /\ edits = 0 /\ queue = EmptyQueue /\ worker = Idle
  /\ clients = {[url |-> u, name |-> "host"] : u \in Configured} /\ crdControlOn = FALSE
  /\ ipPoolTbl = [n \in Name |-> {}] /\ loxiInstAddrMap = [n \in Name |-> {}]
  /\ life = "select" /\ status = {"llbanyextip"}

manager == <<clients, crdControlOn, ipPoolTbl, loxiInstAddrMap>>

-----------------------------------------------------------------------------
(* Nothing is left to do but retrying what failed. *)
Handled == worker = Idle /\ queue.fifo = <<>> /\ life = "select"

URLs(n) == IF n \in PoolName \cup HostName THEN {{u} : u \in URL} ELSE Lists

(* An object is created, updated or deleted, and enqueueService is told: of a  *)
(* deleted object, its last state.                                           *)
Edit(n) ==
  /\ edits < MaxEdits /\ edits' = edits + 1 /\ (Paced => Handled)
  /\ \E U \in URLs(n) \cup {{}} :
       /\ U # crd[n] /\ crd' = [crd EXCEPT ![n] = U]
       /\ Updates \/ {} \in {U, crd[n]}
       /\ Overlap \/ \A m \in Name \ {n} : U \cap crd[m] = {}
       /\ queue' = Add(queue, [name |-> n, urls |-> IF U = {} THEN crd[n] ELSE U])
  /\ UNCHANGED <<worker, manager, life, status>>

(* The informer's resync, every minute. *)
Resync(n) ==
  /\ crd[n] # {} /\ queue' = Add(queue, [name |-> n, urls |-> crd[n]])
  /\ UNCHANGED <<crd, edits, worker, manager, life, status>>

-----------------------------------------------------------------------------
(* processNextWorkItem takes an object ... *)
GetWork ==
  /\ worker = Idle /\ CanGet(queue)
  /\ queue' = Get(queue) /\ worker' = [at |-> "sync", obj |-> Head(queue.fifo)]
  /\ UNCHANGED <<crd, edits, manager, life, status>>

(* ... and ends with Forget, or AddRateLimited after an error.               *)
Finish(ok) ==
  LET o == worker.obj IN
  /\ queue' = IF ok THEN Done(queue, o) ELSE Done(AddRateLimited(queue, o), o)
  /\ worker' = Idle

(* deleteSingleLoxiClientsWithName, deleteAllLoxiClients *)
DeleteSingleLoxiClientsWithName(C, n) == {c \in C : c.name # n}

AddKeepsConfigured(o) ==
  LET new == o.urls \ {c.url : c \in clients} IN
  /\ crdControlOn' = TRUE
  /\ clients' = IF new = {} THEN clients
                ELSE DeleteSingleLoxiClientsWithName(clients, o.name)
                     \cup {[url |-> u, name |-> o.name] : u \in new}
  /\ Finish(TRUE)
  /\ UNCHANGED <<ipPoolTbl, loxiInstAddrMap, life, status>>

(* addLoxiLBURL, default type: the first object takes over from --loxiURL.  If *)
(* the object names a URL that no client has, its clients are replaced by      *)
(* clients for those new URLs.                                               *)
AddLoxiLBURL(o) ==
  LET curr == IF crdControlOn THEN clients ELSE {}
      new == o.urls \ {c.url : c \in curr}
      bad == o.urls \cap Bad # {} IN
  /\ IF Configured = {} THEN UNCHANGED <<clients, crdControlOn>>
     ELSE /\ crdControlOn' = TRUE
          /\ clients' = IF bad \/ new = {} THEN curr
                        ELSE DeleteSingleLoxiClientsWithName(curr, o.name)
                             \cup {[url |-> u, name |-> o.name] : u \in new}
  /\ Finish(Configured = {} \/ ~bad)
  /\ UNCHANGED <<ipPoolTbl, loxiInstAddrMap, life, status>>

(* deleteLoxiLBURL: only if the object's clients are just those it listed. *)
DeleteLoxiLBURL(o) ==
  LET mine == {[url |-> u, name |-> o.name] : u \in o.urls}
      bad == o.urls \cap Bad # {} IN
  /\ clients' = IF Configured # {} /\ ~bad /\ mine \subseteq clients
                THEN clients \ mine ELSE clients
  /\ Finish(Configured = {} \/ ~bad)
  /\ UNCHANGED <<crdControlOn, ipPoolTbl, loxiInstAddrMap, life, status>>

(* AddLoxiCIDRPool: the pool for a changed CIDR goes into a table that is then *)
(* dropped.                                                                  *)
AddLoxiCIDRPool(o) ==
  /\ ipPoolTbl' = IF o.urls \cap Bad = {} /\ ipPoolTbl[o.name] = {}
                  THEN [ipPoolTbl EXCEPT ![o.name] = o.urls] ELSE ipPoolTbl
  /\ Finish(o.urls \cap Bad = {})
  /\ UNCHANGED <<clients, crdControlOn, loxiInstAddrMap, life, status>>

DeletePoolIgnored(o) ==
  /\ Finish(TRUE)
  /\ UNCHANGED <<clients, crdControlOn, ipPoolTbl, loxiInstAddrMap, life, status>>

DeleteLoxiCIDRPool(o) ==
  /\ ipPoolTbl' = IF o.urls \cap Bad = {} THEN [ipPoolTbl EXCEPT ![o.name] = {}]
                  ELSE ipPoolTbl
  /\ Finish(o.urls \cap Bad = {})
  /\ UNCHANGED <<clients, crdControlOn, loxiInstAddrMap, life, status>>

(* AddLoxiInstAddr: a new name is announced on instAddrApplyCh, with m.mtx     *)
(* held; another address for a known name is not.                            *)
AddLoxiInstAddr(o) ==
  LET bad == o.urls \cap Bad # {}
      fresh == loxiInstAddrMap[o.name] = {} IN
  /\ loxiInstAddrMap' = IF bad THEN loxiInstAddrMap
                        ELSE [loxiInstAddrMap EXCEPT ![o.name] = o.urls]
  /\ IF ~bad /\ fresh THEN worker' = [worker EXCEPT !.at = "signal"] /\ UNCHANGED queue
                      ELSE Finish(~bad)
  /\ UNCHANGED <<clients, crdControlOn, ipPoolTbl, life, status>>

DeleteInstAddrSilently(o) ==
  /\ loxiInstAddrMap' = [loxiInstAddrMap EXCEPT ![o.name] = {}]
  /\ Finish(TRUE)
  /\ UNCHANGED <<clients, crdControlOn, ipPoolTbl, life, status>>

DeleteLoxiInstAddr(o) ==
  LET bad == o.urls \cap Bad # {}
      known == loxiInstAddrMap[o.name] # {} IN
  /\ loxiInstAddrMap' = IF bad THEN loxiInstAddrMap
                        ELSE [loxiInstAddrMap EXCEPT ![o.name] = {}]
  /\ IF ~bad /\ known THEN worker' = [worker EXCEPT !.at = "signal"] /\ UNCHANGED queue
                      ELSE Finish(~bad)
  /\ UNCHANGED <<clients, crdControlOn, ipPoolTbl, life, status>>

(* syncLBURLs: what the lister knows now decides between adding the object as  *)
(* it was enqueued and deleting it.                                          *)
SyncLBURLs ==
  /\ worker.at = "sync"
  /\ LET o == worker.obj  exists == crd[o.name] # {} IN
     CASE o.name \in OtherZone -> Finish(TRUE) /\ UNCHANGED <<manager, life, status>>
       [] o.name \in PoolName \ OtherZone ->
            IF exists THEN AddLoxiCIDRPool(o) ELSE DeleteLoxiCIDRPool(o)
       [] o.name \in HostName \ OtherZone ->
            IF exists THEN AddLoxiInstAddr(o) ELSE DeleteLoxiInstAddr(o)
       [] OTHER -> IF exists THEN AddLoxiLBURL(o) ELSE DeleteLoxiLBURL(o)
  /\ UNCHANGED <<crd, edits>>

(* instAddrApplyCh is unbuffered: the life cycle goroutine must be at its      *)
(* select.  The worker then unlocks m.mtx.                                    *)
InstAddrApply ==
  /\ worker.at = "signal" /\ life = "select"
  /\ life' = "update" /\ Finish(TRUE)
  /\ UNCHANGED <<crd, edits, manager, status>>

Hosts == UNION {loxiInstAddrMap[n] : n \in Name}

(* updateAllLoxiLBServiceStatus; genExtIPName takes m.mtx, which the worker     *)
(* holds while it waits to announce an address.                              *)
UpdateAllLoxiLBServiceStatus ==
  /\ life = "update" /\ life' = "select"
  /\ IF ZeroCIDR THEN /\ worker.at # "signal"
                      /\ status' = IF Hosts = {} THEN {"llbanyextip"} ELSE Hosts
                 ELSE UNCHANGED status
  /\ UNCHANGED <<crd, edits, queue, worker, manager>>

(* A rate limited object comes back. *)
Retry(o) ==
  /\ o \in queue.later /\ queue' = Elapse(queue, o)
  /\ UNCHANGED <<crd, edits, worker, manager, life, status>>

Next ==
  \/ \E n \in Name : Edit(n) \/ Resync(n)
  \/ GetWork \/ SyncLBURLs \/ InstAddrApply \/ UpdateAllLoxiLBServiceStatus
  \/ \E o \in Object : Retry(o)

Spec == Init /\ [][Next]_vars

(* The worker, the life cycle goroutine and the informer's resync run.        *)
Fairness ==
  /\ WF_vars(GetWork) /\ WF_vars(SyncLBURLs) /\ WF_vars(InstAddrApply)
  /\ WF_vars(UpdateAllLoxiLBServiceStatus)
  /\ \A n \in Name : WF_vars(Resync(n))
  /\ \A o \in Object : WF_vars(Retry(o))

FairSpec == Spec /\ Fairness

-----------------------------------------------------------------------------
InZone == Name \ OtherZone
Wanted == UNION {crd[n] : n \in InZone \ (PoolName \cup HostName)}
ClientURLs == {c.url : c \in clients}

(* A URL that objects list in the end gets a client again and again, however     *)
(* the lists were edited and whatever versions the queue still holds: addLoxiLBURL *)
(* adds what it misses at every resync.                                         *)
ListedGetClients ==
  Configured # {} =>
    \A u \in URL \ Bad : <>[](u \in Wanted /\ crdControlOn) => []<>(u \in ClientURLs)

(* The clients follow the objects whose list is never replaced by one that shares  *)
(* only a part of it: when the objects no longer change, the clients are in the    *)
(* end those of the URLs they list, although addLoxiLBURL and deleteLoxiLBURL each  *)
(* look at one object only, and two may list one URL.  Of a list that grows        *)
(* addLoxiLBURL replaces the clients by those for the new URLs and back at the     *)
(* next resync, and of one that shrinks it keeps them all.                         *)
ClientsFollowCRDs ==
  (Configured # {} /\ \A L, M \in Lists : L = M \/ L \cap M = {}) =>
    \A U \in SUBSET (URL \ Bad) :
      <>[](Wanted = U /\ crdControlOn) => <>[](ClientURLs = U)

(* The pools follow the objects of type cidrpool.                            *)
PoolsFollowCRDs ==
  \A n \in PoolName \cap InZone, U \in SUBSET (URL \ Bad) :
    <>[](crd[n] = U) => <>[](ipPoolTbl[n] = U)

(* The hosts are shown: when the objects of type hostcidr no longer change, the *)
(* services on a 0.0.0.0 pool in the end show their addresses, so the worker    *)
(* and the life cycle goroutine do not block each other for ever.  With Paced:   *)
(* a second announcement while the goroutine waits for m.mtx blocks both.        *)
HostsShown ==
  ZeroCIDR =>
    \A U \in SUBSET (URL \ Bad) :
      <>[](U = UNION {crd[n] : n \in HostName \cap InZone}) =>
        <>[](status = IF U = {} THEN {"llbanyextip"} ELSE U)

=============================================================================
