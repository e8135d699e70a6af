------------------------------ MODULE Reinstall ------------------------------
(***************************************************************************)
(* Rules and instances that come back: the worker of the load-balancer      *)
(* manager installs and deletes the rules of services, while the life-cycle *)
(* goroutine (manageLoxiLbLifeCycle) installs all rules of the cache again  *)
(* on an instance the health check has found alive.  The two share lbCache  *)
(* without a lock.                                                          *)
(*                                                                          *)
(* A service has one rule, whose model is a version number; 0 is no rule.   *)
(* An entry of the cache is NoEntry, or the version of its service pair (0:    *)
(* the entry has none).  An instance that restarts has lost its rules.      *)
(***************************************************************************)
EXTENDS Naturals, Sequences, FiniteSets

CONSTANTS
  NoEntry,
  Service, Client,
  Stable,       \* services installed from the beginning that never change
  MaxVersion,   \* bound on the changes of a service
  MaxCrashes,   \* bound on crashes of instances
  Retries,      \* attempts at each rule
  MaxRefusals,  \* how often an instance may refuse a rule when reinstalled
  Overlap,      \* may the two goroutines work at the same time?
  Late,         \* may delete calls that are not waited for take effect late?
  Recreate      \* may a service come back before its deletion has succeeded?

ASSUME ReinstallAssumption ==
  /\ {MaxVersion, MaxCrashes, Retries, MaxRefusals} \subseteq Nat /\ MaxVersion > 0
  /\ Stable \subseteq Service /\ NoEntry \notin 0..MaxVersion
  /\ {Overlap, Late, Recreate} \subseteq BOOLEAN

VARIABLES
  want,     \* the services of the cluster: the version, 0 if there is none
  queue,    \* services the worker has to sync
  lbCache,  \* m.lbCache
  rules,    \* rules[c][s]
  up,       \* instances that run
  isAlive,  \* client.IsAlive
  aliveCh,  \* m.ClientAliveCh
  w,        \* the worker
  r,        \* the life-cycle goroutine
  late,     \* delete calls no one waits for
  exited,   \* klog.Exit was called
  crashes, refusals

cluster == <<want, up, isAlive, crashes>>
vars == <<cluster, queue, lbCache, rules, aliveCh, w, r, late, exited, refusals>>

Idle == [at |-> "idle"]
Waiting == [at |-> "wait"]

Init ==
  /\ want = [s \in Service |-> IF s \in Stable THEN 1 ELSE 0]
  /\ queue = {}
  /\ lbCache = [s \in Service |-> IF s \in Stable THEN 1 ELSE NoEntry]
  /\ rules = [c \in Client |-> [s \in Service |-> IF s \in Stable THEN 1 ELSE 0]]
  /\ up = Client /\ isAlive = Client
  /\ aliveCh = <<>>
  /\ w = Idle /\ r = Waiting
  /\ late = {}
  /\ exited = FALSE
  /\ crashes = 0 /\ refusals = 0

-----------------------------------------------------------------------------
(* The cluster and the instances. *)

(* A service is created, changed or deleted, and its key queued. *)
ChangeService(s) ==
  /\ s \notin Stable /\ want[s] < MaxVersion
  /\ want[s] = 0 => Recreate \/ lbCache[s] = NoEntry
  /\ \E v \in {0} \cup ((want[s] + 1)..MaxVersion) : v # want[s] /\ want' = [want EXCEPT ![s] = v]
  /\ queue' = queue \cup {s}
  /\ UNCHANGED <<up, isAlive, crashes, lbCache, rules, aliveCh, w, r, late, exited, refusals>>

Crash(c) ==
  /\ c \in up /\ crashes < MaxCrashes
  /\ crashes' = crashes + 1
  /\ up' = up \ {c}
  /\ rules' = [rules EXCEPT ![c] = [s \in Service |-> 0]]
  /\ UNCHANGED <<want, isAlive, queue, lbCache, aliveCh, w, r, late, exited, refusals>>

(* The health check misses no crash. *)
Recover(c) ==
  /\ c \notin up \cup isAlive
  /\ up' = up \cup {c}
  /\ UNCHANGED <<want, isAlive, crashes, queue, lbCache, rules, aliveCh, w, r, late, exited, refusals>>

(* StartLoxiHealthCheckChan *)
HealthCheck(c) ==
  /\ ~exited
  /\ (c \in up) # (c \in isAlive)
  /\ isAlive' = IF c \in up THEN isAlive \cup {c} ELSE isAlive \ {c}
  /\ aliveCh' = IF c \in up THEN Append(aliveCh, c) ELSE aliveCh
  /\ UNCHANGED <<want, up, crashes, queue, lbCache, rules, w, r, late, exited, refusals>>

-----------------------------------------------------------------------------
(* The worker. *)

WorkerMay == ~exited /\ (Overlap \/ r = Waiting)

(* Both go on with the version v that the sync has read. *)
Deleting(s, v, then) ==
  [at |-> "delete", s |-> s, v |-> v, todo |-> IF lbCache[s] = 0 THEN {} ELSE Client, failed |-> FALSE,
   then |-> then]
Installing(s, v) == [at |-> "install", s |-> s, v |-> v, todo |-> Client, errs |-> 0]

(* syncLoadBalancer: what is to be done with the service that is next.  A    *)
(* change of what is installed deletes the rule first.                       *)
SyncLoadBalancer(s) ==
  /\ WorkerMay /\ w = Idle
  /\ s \in queue /\ queue' = queue \ {s}
  /\ \/ /\ (want[s] = 0 /\ lbCache[s] = NoEntry) \/ (want[s] # 0 /\ lbCache[s] = want[s])
        /\ w' = Idle /\ UNCHANGED lbCache
     \/ /\ want[s] = 0 /\ lbCache[s] # NoEntry
        /\ w' = Deleting(s, 0, "release") /\ UNCHANGED lbCache
     \/ /\ want[s] # 0 /\ lbCache[s] \in {NoEntry, 0}
        /\ w' = Installing(s, want[s]) /\ lbCache' = [lbCache EXCEPT ![s] = 0]
     \/ /\ want[s] # 0 /\ lbCache[s] \notin {NoEntry, 0, want[s]}
        /\ w' = Deleting(s, want[s], "install") /\ UNCHANGED lbCache
  /\ UNCHANGED <<cluster, rules, aliveCh, r, late, exited, refusals>>

(* deleteLoadBalancer: one call to each instance, at the same time; a call   *)
(* to an instance that is down fails.  After the first failure the others     *)
(* are not waited for.                                                       *)
DeleteCall(c) ==
  /\ ~exited /\ w.at = "delete" /\ c \in w.todo /\ ~w.failed
  /\ LET others == IF c \in up THEN {} ELSE w.todo \ {c}
         done == IF Late THEN {c} ELSE {c} \cup others
     IN /\ rules' = [d \in Client |-> IF d \in done THEN [rules[d] EXCEPT ![w.s] = 0] ELSE rules[d]]
        /\ late' = late \cup {<<d, w.s>> : d \in others \ done}
  /\ w' = [w EXCEPT !.todo = w.todo \ {c}, !.failed = c \notin up]
  /\ UNCHANGED <<cluster, queue, lbCache, aliveCh, r, exited, refusals>>

LateDelete ==
  /\ ~exited
  /\ \E l \in late :
       /\ late' = late \ {l}
       /\ rules' = [rules EXCEPT ![l[1]] = [rules[l[1]] EXCEPT ![l[2]] = 0]]
  /\ UNCHANGED <<cluster, queue, lbCache, aliveCh, w, r, exited, refusals>>

(* The entry of a deleted service goes only when every call succeeded. *)
Releases == w.then = "release" /\ ~w.failed

(* A failed deletion of a service is tried again; before an update the       *)
(* failure is ignored, and the entry's pairs are dropped.                    *)
DeleteEnds ==
  /\ ~exited /\ w.at = "delete" /\ (w.failed \/ w.todo = {})
  /\ w' = IF w.then = "install" THEN Installing(w.s, w.v) ELSE Idle
  /\ lbCache' = IF w.then = "install" THEN [lbCache EXCEPT ![w.s] = 0]
                ELSE IF Releases THEN [lbCache EXCEPT ![w.s] = NoEntry] ELSE lbCache
  /\ queue' = IF w.then = "release" /\ ~Releases THEN queue \cup {w.s} ELSE queue
  /\ UNCHANGED <<cluster, rules, aliveCh, r, late, exited, refusals>>

(* What an instance has after a call to install v: a rule that exists stays. *)
Installed(c, s, v) == [rules EXCEPT ![c] = [rules[c] EXCEPT ![s] = IF rules[c][s] = 0 THEN v ELSE rules[c][s]]]

InstallCall(c) ==
  /\ ~exited /\ w.at = "install" /\ c \in w.todo
  /\ rules' = IF c \in up THEN Installed(c, w.s, w.v) ELSE rules
  /\ w' = [w EXCEPT !.todo = w.todo \ {c}, !.errs = IF c \in up THEN w.errs ELSE w.errs + 1]
  /\ UNCHANGED <<cluster, queue, lbCache, aliveCh, r, late, exited, refusals>>

(* One instance that took the rule is enough. *)
InstallEnds ==
  /\ ~exited /\ w.at = "install" /\ w.todo = {}
  /\ w' = Idle
  /\ IF w.errs = Cardinality(Client)
       THEN queue' = queue \cup {w.s} /\ UNCHANGED lbCache
       ELSE lbCache' = [lbCache EXCEPT ![w.s] = w.v] /\ UNCHANGED queue
  /\ UNCHANGED <<cluster, rules, aliveCh, r, late, exited, refusals>>

Worker ==
  \/ \E s \in Service : SyncLoadBalancer(s)
  \/ \E c \in Client : DeleteCall(c) \/ InstallCall(c)
  \/ DeleteEnds \/ InstallEnds

-----------------------------------------------------------------------------
(* The life-cycle goroutine. *)

TakeAlive ==
  /\ ~exited /\ (Overlap \/ w = Idle)
  /\ r = Waiting /\ aliveCh # <<>>
  /\ r' = [at |-> "range", c |-> Head(aliveCh), todo |-> Service, ok |-> FALSE]
  /\ aliveCh' = Tail(aliveCh)
  /\ UNCHANGED <<cluster, queue, lbCache, rules, w, late, exited, refusals>>

(* The next entry of the map, in any order: one that was removed before it    *)
(* is reached does not come, one that was added may.  The model of its rule   *)
(* is copied.                                                                *)
RangeNext ==
  /\ ~exited /\ r.at = "range" /\ r.todo # {}
  /\ \E s \in r.todo :
       r' = IF lbCache[s] \in {NoEntry, 0} THEN [r EXCEPT !.todo = r.todo \ {s}]
            ELSE [at |-> "install", c |-> r.c, todo |-> r.todo \ {s}, ok |-> r.ok,
                  s |-> s, v |-> lbCache[s], retry |-> 0]
  /\ UNCHANGED <<cluster, queue, lbCache, rules, aliveCh, w, late, exited, refusals>>

NoMoreTries(n) == n >= 1

GivesUp(n) == n >= Retries

RangeOn(ok) == [at |-> "range", c |-> r.c, todo |-> r.todo, ok |-> ok]

(* An attempt at the rule in hand.  An instance that is down, or refuses,    *)
(* fails the call.  isSuccess is what it was for the rules before.           *)
ReinstallOnce ==
  /\ ~exited /\ r.at = "install" /\ ~GivesUp(r.retry)
  /\ \/ /\ r.c \in up
        /\ rules' = Installed(r.c, r.s, r.v)
        /\ r' = RangeOn(TRUE)
        /\ UNCHANGED refusals
     \/ /\ r.c \in up /\ refusals < MaxRefusals
        /\ refusals' = refusals + 1
        /\ r' = [r EXCEPT !.retry = r.retry + 1]
        /\ UNCHANGED rules
     \/ /\ r.c \notin up
        /\ r' = [r EXCEPT !.retry = r.retry + 1]
        /\ UNCHANGED <<rules, refusals>>
  /\ UNCHANGED <<cluster, queue, lbCache, aliveCh, w, late, exited>>

(* isSuccess says whether any rule of this round could be installed. *)
Exits == ~r.ok /\ r.c \in isAlive

ReinstallFailed ==
  /\ ~exited /\ r.at = "install" /\ GivesUp(r.retry)
  /\ IF Exits THEN exited' = TRUE /\ r' = Waiting
       ELSE r' = RangeOn(r.ok) /\ UNCHANGED exited
  /\ UNCHANGED <<cluster, queue, lbCache, rules, aliveCh, w, late, refusals>>

RangeEnds ==
  /\ ~exited /\ r.at = "range" /\ r.todo = {}
  /\ r' = Waiting
  /\ UNCHANGED <<cluster, queue, lbCache, rules, aliveCh, w, late, exited, refusals>>

LifeCycle == TakeAlive \/ RangeNext \/ ReinstallOnce \/ ReinstallFailed \/ RangeEnds

Next ==
  \/ \E s \in Service : ChangeService(s)
  \/ \E c \in Client : Crash(c) \/ Recover(c) \/ HealthCheck(c)
  \/ Worker \/ LateDelete \/ LifeCycle

Spec == Init /\ [][Next]_vars

-----------------------------------------------------------------------------
(* What the worker and the life-cycle goroutine hold between two steps. *)
WorkerState ==
  {Idle} \cup [at : {"delete"}, s : Service, v : 0..MaxVersion, todo : SUBSET Client,
               failed : BOOLEAN, then : {"release", "install"}]
         \cup [at : {"install"}, s : Service, v : 0..MaxVersion, todo : SUBSET Client, errs : Nat]
LifeState ==
  {Waiting} \cup [at : {"range"}, c : Client, todo : SUBSET Service, ok : BOOLEAN]
            \cup [at : {"install"}, c : Client, todo : SUBSET Service, ok : BOOLEAN,
                  s : Service, v : 0..MaxVersion, retry : 0..Retries]

TypeOK ==
  /\ want \in [Service -> 0..MaxVersion]
  /\ queue \subseteq Service
  /\ lbCache \in [Service -> (0..MaxVersion) \cup {NoEntry}]
  /\ rules \in [Client -> [Service -> 0..MaxVersion]]
  /\ up \subseteq Client /\ isAlive \subseteq Client /\ aliveCh \in Seq(Client)
  /\ w \in WorkerState /\ r \in LifeState
  /\ late \subseteq Client \X Service
  /\ exited \in BOOLEAN /\ crashes \in 0..MaxCrashes /\ refusals \in 0..MaxRefusals

(* Nothing is left to do. *)
Quiet ==
  /\ ~exited
  /\ w = Idle /\ r = Waiting
  /\ queue = {} /\ aliveCh = <<>> /\ late = {}
  /\ up = isAlive

(* A service nobody touches gets its rule back on every instance that         *)
(* restarts, although the worker changes the cache while the life-cycle        *)
(* goroutine ranges over it; if the instance goes on refusing the rule, the     *)
(* agent exits, and is restarted, rather than leave it out.                    *)
StableRestored ==
  Quiet => \A c \in up, s \in Stable : rules[c][s] = want[s]
=============================================================================
