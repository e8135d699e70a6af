--------------------------- MODULE InformerFactory ---------------------------
(***************************************************************************)
(* The shared informer factories of the three generated clients (BGP,      *)
(* LoxiURL and Egress): which informers were asked for, which were         *)
(* started, the goroutines they run in, and callers that wait for caches   *)
(* or for the shutdown.  Every method takes the factory's lock, so its     *)
(* locked part is one step; what it waits for after the lock is released   *)
(* is a step of its own.                                                   *)
(***************************************************************************)
EXTENDS Naturals, FiniteSets

CONSTANTS
  Factory,
  TypesOf,  \* for each factory the object types it has informers for
  Caller    \* goroutines that wait for caches or for the shutdown

VARIABLES
  informers,  \* for each factory, f.informers
  started,    \* f.startedInformers
  running,    \* the goroutines counted by f.wg
  synced,     \* informers whose cache is complete (HasSynced)
  shutting,   \* f.shuttingDown
  stopped,    \* stopCh is closed
  pc          \* what each caller is doing

factories == <<informers, started, running, synced, shutting>>

factoriesVars == <<factories, stopped, pc>>

NoCall == [op |-> "idle"]

FactoriesInit ==
  /\ informers = [f \in Factory |-> {}]
  /\ started = [f \in Factory |-> {}]
  /\ running = [f \in Factory |-> {}]
  /\ synced = [f \in Factory |-> {}]
  /\ shutting = [f \in Factory |-> FALSE]
  /\ stopped = FALSE
  /\ pc = [c \in Caller |-> NoCall]

Available(c) == pc[c].op \in {"idle", "down", "answered"}

-----------------------------------------------------------------------------
(* InformerFor: one informer for a type, made when it is first asked for. *)
InformerFor(f, t) ==
  /\ informers' = [informers EXCEPT ![f] = informers[f] \cup {t}]
  /\ UNCHANGED <<started, running, synced, shutting, stopped, pc>>

StartUnguarded(f) ==
  /\ started' = [started EXCEPT ![f] = started[f] \cup informers[f]]
  /\ running' = [running EXCEPT ![f] = running[f] \cup (informers[f] \ started[f])]
  /\ UNCHANGED <<informers, synced, shutting, stopped, pc>>

(* Start: a goroutine for each informer that has none yet. *)
Start(f) ==
  /\ ~shutting[f]
  /\ started' = [started EXCEPT ![f] = started[f] \cup informers[f]]
  /\ running' = [running EXCEPT ![f] = running[f] \cup (informers[f] \ started[f])]
  /\ UNCHANGED <<informers, synced, shutting, stopped, pc>>

(* Shutdown: forbid new goroutines, then wait for the ones there are. *)
Shutdown(f, c) ==
  /\ Available(c)
  /\ shutting' = [shutting EXCEPT ![f] = TRUE]
  /\ pc' = [pc EXCEPT ![c] = [op |-> "shutdown", f |-> f]]
  /\ UNCHANGED <<informers, started, running, synced, stopped>>

ShutdownReturns(c) ==
  /\ pc[c].op = "shutdown"
  /\ running[pc[c].f] = {}
  /\ pc' = [pc EXCEPT ![c] = [op |-> "down", f |-> pc[c].f]]
  /\ UNCHANGED <<factories, stopped>>

StartedAny(f) == informers[f]

(* The informers WaitForCacheSync waits for. *)
StartedInformers(f) == informers[f] \cap started[f]

WaitForCacheSync(f, c) ==
  /\ Available(c)
  /\ pc' = [pc EXCEPT ![c] = [op |-> "wait", f |-> f, all |-> StartedInformers(f),
                              todo |-> StartedInformers(f), ok |-> {}]]
  /\ UNCHANGED <<factories, stopped>>

WaitedForNothing(c, t) == TRUE

(* cache.WaitForCacheSync ends when the cache is complete or the agent stops. *)
WaitedFor(c, t) == t \in synced[pc[c].f] \/ stopped

WaitOne(c) ==
  /\ pc[c].op = "wait"
  /\ \E t \in pc[c].todo :
       /\ WaitedFor(c, t)
       /\ pc' = [pc EXCEPT ![c] = [op |-> "wait", f |-> pc[c].f, all |-> pc[c].all,
                                   todo |-> pc[c].todo \ {t},
                                   ok |-> IF stopped /\ t \notin synced[pc[c].f] THEN pc[c].ok
                                                                               ELSE pc[c].ok \cup {t}]]
  /\ UNCHANGED <<factories, stopped>>

WaitReturns(c) ==
  /\ pc[c].op = "wait"
  /\ pc[c].todo = {}
  /\ pc' = [pc EXCEPT ![c] = [op |-> "answered", f |-> pc[c].f, all |-> pc[c].all, ok |-> pc[c].ok]]
  /\ UNCHANGED <<factories, stopped>>

-----------------------------------------------------------------------------
(* The informers themselves, and the end of the agent. *)

CacheSyncs(f) ==
  /\ \E t \in running[f] \ synced[f] : synced' = [synced EXCEPT ![f] = synced[f] \cup {t}]
  /\ UNCHANGED <<informers, started, running, shutting, stopped, pc>>

RunReturnsNoDone(f) == stopped /\ running[f] # {} /\ UNCHANGED factoriesVars

RunReturns(f) ==
  /\ stopped
  /\ \E t \in running[f] : running' = [running EXCEPT ![f] = running[f] \ {t}]
  /\ UNCHANGED <<informers, started, synced, shutting, stopped, pc>>

Close ==
  /\ ~stopped
  /\ stopped' = TRUE
  /\ UNCHANGED <<factories, pc>>

FactoriesNext ==
  \/ \E f \in Factory :
       \/ \E t \in TypesOf[f] : InformerFor(f, t)
       \/ Start(f) \/ CacheSyncs(f) \/ RunReturns(f)
       \/ \E c \in Caller : Shutdown(f, c) \/ WaitForCacheSync(f, c)
  \/ \E c \in Caller : ShutdownReturns(c) \/ WaitOne(c) \/ WaitReturns(c)
  \/ Close

FactoriesSpec == FactoriesInit /\ [][FactoriesNext]_factoriesVars

(* Goroutines that can go on do, and the API server answers. *)
FactoriesFairness ==
  /\ \A f \in Factory : /\ WF_factoriesVars(CacheSyncs(f))
                       /\ WF_factoriesVars(RunReturns(f))
  /\ \A c \in Caller : /\ WF_factoriesVars(ShutdownReturns(c))
                      /\ WF_factoriesVars(WaitOne(c))
                      /\ WF_factoriesVars(WaitReturns(c))

FactoriesFairSpec == FactoriesSpec /\ FactoriesFairness

-----------------------------------------------------------------------------
FactoriesTypeOK ==
  /\ informers \in [Factory -> SUBSET UNION {TypesOf[f] : f \in Factory}]
  /\ started \in [Factory -> SUBSET UNION {TypesOf[f] : f \in Factory}]
  /\ running \in [Factory -> SUBSET UNION {TypesOf[f] : f \in Factory}]
  /\ synced \in [Factory -> SUBSET UNION {TypesOf[f] : f \in Factory}]
  /\ shutting \in [Factory -> BOOLEAN]
  /\ stopped \in BOOLEAN
  /\ DOMAIN pc = Caller
  /\ \A c \in Caller : pc[c].op \in {"idle", "shutdown", "down", "wait", "answered"}

(* Once a call of Shutdown has returned no goroutine of the factory runs,   *)
(* whatever is asked for and started by others meanwhile and afterwards.    *)
ShutdownIsFinal ==
  \A c \in Caller : pc[c].op = "down" => running[pc[c].f] = {}

(* Unless the agent stops, WaitForCacheSync answers yes for every informer  *)
(* it found started, and their caches are then complete.                    *)
SyncAnswerTrue ==
  \A c \in Caller : pc[c].op = "answered" /\ ~stopped =>
    pc[c].ok = pc[c].all /\ pc[c].all \subseteq synced[pc[c].f]

(* WaitForCacheSync returns: it does not wait for informers nobody started. *)
WaitEnds == \A c \in Caller : pc[c].op = "wait" ~> pc[c].op # "wait"

(* Shutdown returns once stopCh is closed. *)
ShutdownEnds == \A c \in Caller : (stopped /\ pc[c].op = "shutdown") ~> pc[c].op # "shutdown"
=============================================================================
