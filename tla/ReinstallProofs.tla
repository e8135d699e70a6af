--------------------------- MODULE ReinstallProofs ---------------------------
(***************************************************************************)
(* An instance that comes back gets the rules of all services nobody        *)
(* touches, for any number of services, instances, crashes and refusals,     *)
(* and however the worker and the life-cycle goroutine interleave.           *)
(***************************************************************************)
EXTENDS Reinstall, TLAPS

(* An instance refuses a rule less often than it is tried, or there is only   *)
(* one service: then nothing has set isSuccess before a rule is given up.      *)
Patient == MaxRefusals < Retries
Single == \A s, t \in Service : s = t

(* The worker leaves the stable services alone. *)
Untouched ==
  /\ queue \cap Stable = {}
  /\ w.at # "idle" => w.s \notin Stable
  /\ \A l \in late : l[2] \notin Stable
  /\ \A s \in Stable : want[s] = 1 /\ lbCache[s] = 1
  /\ \A c \in Client, s \in Stable : rules[c][s] \in {0, 1}
  /\ r.at = "install" /\ r.s \in Stable => r.v = 1

InChannel(c) == \E i \in 1..Len(aliveCh) : aliveCh[i] = c

(* The life-cycle goroutine still has to install s on c: it will reach it in    *)
(* the map, or is at it with attempts left.                                    *)
Reaching(c, s) == r.at \in {"range", "install"} /\ r.c = c /\ s \in r.todo
Trying(c, s) == r.at = "install" /\ r.c = c /\ r.s = s /\ (Patient => r.retry <= refusals)

Restores(c, s) == rules[c][s] = 1 \/ InChannel(c) \/ Reaching(c, s) \/ Trying(c, s)

Promised ==
  ~exited => \A c \in up \cap isAlive, s \in Stable : Restores(c, s)

(* With one service nothing succeeded before it. *)
NothingYet ==
  Single => /\ r.at = "install" => ~r.ok /\ r.todo = {}
            /\ r.at = "range" /\ r.todo # {} => ~r.ok

IInv == TypeOK /\ Untouched /\ Promised /\ NothingYet

-----------------------------------------------------------------------------
(* The types. *)

LEMMA InstalledType ==
  ASSUME TypeOK, NEW c \in Client, NEW s \in Service, NEW v \in 0..MaxVersion
  PROVE  /\ Installed(c, s, v) \in [Client -> [Service -> 0..MaxVersion]]
         /\ \A d \in Client, t \in Service :
              Installed(c, s, v)[d][t] = IF d = c /\ t = s /\ rules[c][s] = 0 THEN v ELSE rules[d][t]
<1> DEFINE row == [rules[c] EXCEPT ![s] = IF rules[c][s] = 0 THEN v ELSE rules[c][s]]
<1>1. row \in [Service -> 0..MaxVersion] /\ rules \in [Client -> [Service -> 0..MaxVersion]]
  BY DEF TypeOK
<1>2. \A t \in Service : row[t] = IF t = s /\ rules[c][s] = 0 THEN v ELSE rules[c][t]
  BY <1>1 DEF TypeOK
<1>3. Installed(c, s, v) = [rules EXCEPT ![c] = row]
  BY DEF Installed
<1> HIDE DEF row
<1> QED BY <1>1, <1>2, <1>3

LEMMA InstanceTypes ==
  ASSUME TypeOK, NEW c \in Client, Crash(c) \/ Recover(c) \/ HealthCheck(c)
  PROVE  TypeOK'
<1>2. CASE Crash(c)
  BY <1>2, ReinstallAssumption DEF Crash, TypeOK
<1>3. CASE Recover(c)
  BY <1>3 DEF Recover, TypeOK
<1>4. CASE HealthCheck(c)
  BY <1>4 DEF HealthCheck, TypeOK
<1> QED BY <1>2, <1>3, <1>4

LEMMA WorkerTypes ==
  ASSUME TypeOK, Worker \/ LateDelete  PROVE TypeOK'
<1>1. ASSUME NEW s \in Service, SyncLoadBalancer(s)  PROVE TypeOK'
  <2>0. want[s] \in 0..MaxVersion /\ 0 \in 0..MaxVersion
    BY ReinstallAssumption DEF TypeOK
  <2>1. Deleting(s, 0, "release") \in WorkerState /\ Deleting(s, want[s], "install") \in WorkerState
    BY <2>0 DEF Deleting, WorkerState
  <2>2. Installing(s, want[s]) \in WorkerState
    BY <2>0 DEF Installing, WorkerState
  <2>3. w' \in WorkerState
    BY <1>1, <2>1, <2>2 DEF SyncLoadBalancer, WorkerState
  <2>4. lbCache' \in [Service -> (0..MaxVersion) \cup {NoEntry}]
    BY <1>1, ReinstallAssumption DEF SyncLoadBalancer, TypeOK
  <2> QED BY <1>1, <2>3, <2>4 DEF SyncLoadBalancer, TypeOK, cluster
<1>2. ASSUME NEW c \in Client, DeleteCall(c)  PROVE TypeOK'
  <2>0. w \in [at : {"delete"}, s : Service, v : 0..MaxVersion, todo : SUBSET Client, failed : BOOLEAN,
               then : {"release", "install"}]
    BY <1>2 DEF DeleteCall, TypeOK, WorkerState, Idle
  <2>1. w.s \in Service /\ w' \in WorkerState
    <3>1. w' = [w EXCEPT !.todo = w.todo \ {c}, !.failed = c \notin up]
      BY <1>2 DEF DeleteCall
    <3>2. (c \notin up) \in BOOLEAN
      OBVIOUS
    <3> QED BY <2>0, <3>1, <3>2, Zenon DEF WorkerState
  <2>2. rules' \in [Client -> [Service -> 0..MaxVersion]]
    BY <1>2, <2>1, ReinstallAssumption DEF DeleteCall, TypeOK
  <2>3. late' \subseteq Client \X Service
    BY <1>2, <2>1 DEF DeleteCall, TypeOK, WorkerState, Idle
  <2> QED BY <1>2, <2>1, <2>2, <2>3 DEF DeleteCall, TypeOK, cluster
<1>3. ASSUME NEW c \in Client, InstallCall(c)  PROVE TypeOK'
  <2>0. w \in [at : {"install"}, s : Service, v : 0..MaxVersion, todo : SUBSET Client, errs : Nat]
    BY <1>3 DEF InstallCall, TypeOK, WorkerState, Idle
  <2>1. w.s \in Service /\ w.v \in 0..MaxVersion /\ w' \in WorkerState
    <3>1. w' = [w EXCEPT !.todo = w.todo \ {c}, !.errs = IF c \in up THEN w.errs ELSE w.errs + 1]
      BY <1>3 DEF InstallCall
    <3>2. (IF c \in up THEN w.errs ELSE w.errs + 1) \in Nat
      BY <2>0
    <3> QED BY <2>0, <3>1, <3>2, Zenon DEF WorkerState
  <2>2. rules' \in [Client -> [Service -> 0..MaxVersion]]
    BY <1>3, <2>1, InstalledType, Zenon DEF InstallCall, TypeOK
  <2> QED BY <1>3, <2>1, <2>2 DEF InstallCall, TypeOK, cluster
<1>4. CASE DeleteEnds
  <2>1. w.s \in Service /\ w.v \in 0..MaxVersion
    BY <1>4 DEF DeleteEnds, TypeOK, WorkerState, Idle
  <2>2. w' \in WorkerState
    BY <1>4, <2>1 DEF DeleteEnds, TypeOK, WorkerState, Installing
  <2>3. lbCache' \in [Service -> (0..MaxVersion) \cup {NoEntry}]
    BY <1>4, <2>1, ReinstallAssumption DEF DeleteEnds, TypeOK
  <2> QED BY <1>4, <2>1, <2>2, <2>3 DEF DeleteEnds, TypeOK, cluster
<1>5. CASE InstallEnds
  <2>1. w.s \in Service /\ w.v \in 0..MaxVersion
    BY <1>5 DEF InstallEnds, TypeOK, WorkerState, Idle
  <2> QED BY <1>5, <2>1, Zenon DEF InstallEnds, TypeOK, WorkerState, cluster
<1>6. CASE LateDelete
  <2>1. PICK l \in late : /\ late' = late \ {l}
                          /\ rules' = [rules EXCEPT ![l[1]] = [rules[l[1]] EXCEPT ![l[2]] = 0]]
    BY <1>6, Zenon DEF LateDelete
  <2>2. l[1] \in Client /\ l[2] \in Service
    BY DEF TypeOK
  <2>3. [rules[l[1]] EXCEPT ![l[2]] = 0] \in [Service -> 0..MaxVersion]
    BY <2>2, ReinstallAssumption DEF TypeOK
  <2> QED BY <1>6, <2>1, <2>2, <2>3 DEF LateDelete, TypeOK, cluster
<1> QED BY <1>1, <1>2, <1>3, <1>4, <1>5, <1>6 DEF Worker

LEMMA LifeCycleTypes ==
  ASSUME TypeOK, LifeCycle  PROVE TypeOK'
<1>1. CASE TakeAlive
  BY <1>1 DEF TakeAlive, TypeOK, LifeState, cluster
<1>2. CASE RangeNext
  <2>1. r \in [at : {"range"}, c : Client, todo : SUBSET Service, ok : BOOLEAN]
    BY <1>2 DEF RangeNext, TypeOK, LifeState, Waiting
  <2>2. PICK s \in r.todo :
          r' = IF lbCache[s] \in {NoEntry, 0} THEN [r EXCEPT !.todo = r.todo \ {s}]
               ELSE [at |-> "install", c |-> r.c, todo |-> r.todo \ {s}, ok |-> r.ok,
                     s |-> s, v |-> lbCache[s], retry |-> 0]
    BY <1>2, Zenon DEF RangeNext
  <2>3. s \in Service /\ (lbCache[s] # NoEntry => lbCache[s] \in 0..MaxVersion)
    BY <2>1 DEF TypeOK
  <2>4. r' \in LifeState
    BY <2>1, <2>2, <2>3, ReinstallAssumption DEF LifeState
  <2> QED BY <1>2, <2>4 DEF RangeNext, TypeOK, cluster
<1>3. CASE ReinstallOnce
  <2>1. r \in [at : {"install"}, c : Client, todo : SUBSET Service, ok : BOOLEAN,
               s : Service, v : 0..MaxVersion, retry : 0..Retries]
    BY <1>3 DEF ReinstallOnce, TypeOK, LifeState, Waiting
  <2>2. r.retry + 1 \in 0..Retries /\ RangeOn(TRUE) \in LifeState
    BY <1>3, <2>1, ReinstallAssumption DEF ReinstallOnce, GivesUp, RangeOn, LifeState
  <2>3. [r EXCEPT !.retry = r.retry + 1] \in LifeState
    BY <2>1, <2>2 DEF LifeState
  <2>4. r' \in LifeState
    BY <1>3, <2>2, <2>3, Zenon DEF ReinstallOnce
  <2>5. rules' \in [Client -> [Service -> 0..MaxVersion]] /\ refusals' \in 0..MaxRefusals
    <3>1. /\ rules' = rules \/ rules' = Installed(r.c, r.s, r.v)
          /\ refusals' = refusals \/ (refusals < MaxRefusals /\ refusals' = refusals + 1)
      BY <1>3, Zenon DEF ReinstallOnce
    <3>2. Installed(r.c, r.s, r.v) \in [Client -> [Service -> 0..MaxVersion]]
      BY <2>1, InstalledType
    <3>3. /\ rules \in [Client -> [Service -> 0..MaxVersion]] /\ refusals \in 0..MaxRefusals
          /\ MaxRefusals \in Nat
      BY ReinstallAssumption DEF TypeOK
    <3> QED BY <3>1, <3>2, <3>3
  <2> QED BY <1>3, <2>4, <2>5 DEF ReinstallOnce, TypeOK, cluster
<1>4. CASE ReinstallFailed
  <2>0. r \in [at : {"install"}, c : Client, todo : SUBSET Service, ok : BOOLEAN,
               s : Service, v : 0..MaxVersion, retry : 0..Retries]
    BY <1>4 DEF ReinstallFailed, TypeOK, LifeState, Waiting
  <2>1. r' \in LifeState /\ exited' \in BOOLEAN
    <3>1. RangeOn(r.ok) \in LifeState /\ Waiting \in LifeState
      BY <2>0 DEF RangeOn, LifeState
    <3>2. \/ exited' = TRUE /\ r' = Waiting
          \/ exited' = exited /\ r' = RangeOn(r.ok)
      BY <1>4 DEF ReinstallFailed
    <3> QED BY <3>1, <3>2, Zenon DEF TypeOK
  <2> QED BY <1>4, <2>1 DEF ReinstallFailed, TypeOK, cluster
<1>5. CASE RangeEnds
  BY <1>5 DEF RangeEnds, TypeOK, LifeState, cluster
<1> QED BY <1>1, <1>2, <1>3, <1>4, <1>5 DEF LifeCycle

LEMMA TypesKept == ASSUME TypeOK, [Next]_vars  PROVE TypeOK'
<1>1. CASE UNCHANGED vars
  BY <1>1 DEF vars, cluster, TypeOK
<1>2. ASSUME NEW s \in Service, ChangeService(s)  PROVE TypeOK'
  BY <1>2, ReinstallAssumption DEF ChangeService, TypeOK
<1>3. ASSUME NEW c \in Client, Crash(c) \/ Recover(c) \/ HealthCheck(c)  PROVE TypeOK'
  BY <1>3, InstanceTypes
<1>4. CASE Worker \/ LateDelete
  BY <1>4, WorkerTypes
<1>5. CASE LifeCycle
  BY <1>5, LifeCycleTypes
<1> QED BY <1>1, <1>2, <1>3, <1>4, <1>5 DEF Next

-----------------------------------------------------------------------------
(* The worker leaves the stable services alone. *)

LEMMA ServiceUntouched ==
  ASSUME IInv, NEW s \in Service, ChangeService(s)  PROVE Untouched'
<1>1. \A t \in Stable : want'[t] = want[t]
  BY ReinstallAssumption DEF IInv, ChangeService, TypeOK
<1> QED BY <1>1 DEF IInv, ChangeService, Untouched

LEMMA InstancesUntouched ==
  ASSUME IInv, NEW c \in Client, Crash(c) \/ Recover(c) \/ HealthCheck(c)
  PROVE  Untouched'
<1> USE DEF IInv
<1>1. CASE Crash(c)
  <2>1. \A d \in Client, t \in Stable : rules'[d][t] \in {0, rules[d][t]}
    BY <1>1, ReinstallAssumption DEF Crash, TypeOK
  <2> QED BY <1>1, <2>1 DEF Crash, Untouched
<1>2. CASE Recover(c) \/ HealthCheck(c)
  BY <1>2 DEF Recover, HealthCheck, Untouched
<1> QED BY <1>1, <1>2

(* What a step of the worker changes, of a service that is not stable. *)
LEMMA WorkerEffect ==
  ASSUME IInv, Worker \/ LateDelete
  PROVE  /\ Untouched'
         /\ \A c \in Client, s \in Stable : rules'[c][s] = rules[c][s]
         /\ UNCHANGED <<up, isAlive, aliveCh, r, exited, refusals>>
<1> USE DEF IInv
<1>0. UNCHANGED <<want, up, isAlive, aliveCh, r, exited, refusals>>
  BY Zenon DEF Worker, LateDelete, SyncLoadBalancer, DeleteCall, InstallCall, DeleteEnds, InstallEnds, cluster
<1>c. Stable \subseteq Service
  BY ReinstallAssumption
<1>1. ASSUME NEW s \in Service, SyncLoadBalancer(s)
      PROVE  Untouched' /\ rules' = rules
  <2>1. s \notin Stable /\ queue' \subseteq queue /\ UNCHANGED <<rules, late>>
    BY <1>1 DEF SyncLoadBalancer, Untouched
  <2>2. w'.at # "idle" => w'.s = s
    BY <1>1 DEF SyncLoadBalancer, Idle, Deleting, Installing
  <2>3. \A t \in Stable : lbCache'[t] = lbCache[t]
    BY <1>1, <1>c, <2>1 DEF SyncLoadBalancer, TypeOK
  <2> QED BY <1>0, <2>1, <2>2, <2>3 DEF Untouched
<1>2. ASSUME NEW c \in Client, DeleteCall(c)
      PROVE  Untouched' /\ \A d \in Client, s \in Stable : rules'[d][s] = rules[d][s]
  <2>1. w.s \notin Stable /\ w'.s = w.s /\ UNCHANGED <<queue, lbCache>>
    BY <1>2 DEF DeleteCall, Untouched, TypeOK, WorkerState, Idle
  <2>2. \A d \in Client, s \in Stable : rules'[d][s] = rules[d][s]
    BY <1>2, <1>c, <2>1 DEF DeleteCall, TypeOK
  <2>3. \A l \in late' : l \in late \/ l[2] = w.s
    BY <1>2 DEF DeleteCall
  <2> QED BY <1>0, <2>1, <2>2, <2>3 DEF Untouched
<1>3. ASSUME NEW c \in Client, InstallCall(c)
      PROVE  Untouched' /\ \A d \in Client, s \in Stable : rules'[d][s] = rules[d][s]
  <2>1. /\ w.s \notin Stable /\ w'.s = w.s /\ w.s \in Service /\ w.v \in 0..MaxVersion
        /\ UNCHANGED <<queue, lbCache, late>>
    BY <1>3 DEF InstallCall, Untouched, TypeOK, WorkerState, Idle
  <2>2. \A d \in Client, s \in Stable : rules'[d][s] = rules[d][s]
    <3>1. CASE rules' = rules
      BY <3>1
    <3>2. CASE rules' = Installed(c, w.s, w.v)
      <4>1. \A d \in Client, t \in Service :
              Installed(c, w.s, w.v)[d][t]
                = IF d = c /\ t = w.s /\ rules[c][w.s] = 0 THEN w.v ELSE rules[d][t]
        BY <2>1, InstalledType, ZenonT(40)
      <4> QED BY <1>c, <2>1, <3>2, <4>1
    <3> QED BY <1>3, <3>1, <3>2 DEF InstallCall
  <2> QED BY <1>0, <2>1, <2>2 DEF Untouched
<1>4. CASE DeleteEnds
  <2>1. w.s \notin Stable /\ UNCHANGED <<rules, late>> /\ queue' \subseteq queue \cup {w.s}
    BY <1>4 DEF DeleteEnds, Untouched
  <2>2. w'.at # "idle" => w'.s = w.s
    BY <1>4 DEF DeleteEnds, Installing, Idle
  <2>3. \A t \in Stable : lbCache'[t] = lbCache[t]
    BY <1>4, <1>c, <2>1 DEF DeleteEnds, TypeOK
  <2> QED BY <1>0, <2>1, <2>2, <2>3 DEF Untouched
<1>5. CASE InstallEnds
  <2>1. w.s \notin Stable /\ UNCHANGED <<rules, late>> /\ queue' \subseteq queue \cup {w.s}
    BY <1>5 DEF InstallEnds, Untouched
  <2>2. w' = Idle /\ \A t \in Stable : lbCache'[t] = lbCache[t]
    BY <1>5, <1>c, <2>1 DEF InstallEnds, TypeOK
  <2> QED BY <1>0, <2>1, <2>2 DEF Untouched, Idle
<1>6. CASE LateDelete
  <2>1. PICK l \in late : /\ late' = late \ {l}
                          /\ rules' = [rules EXCEPT ![l[1]] = [rules[l[1]] EXCEPT ![l[2]] = 0]]
    BY <1>6, Zenon DEF LateDelete
  <2>2. l[1] \in Client /\ l[2] \in Service \ Stable
    BY DEF TypeOK, Untouched
  <2>3. \A d \in Client, s \in Stable : rules'[d][s] = rules[d][s]
    <3>1. rules[l[1]] \in [Service -> 0..MaxVersion]
      BY <2>2 DEF TypeOK
    <3> DEFINE row == [rules[l[1]] EXCEPT ![l[2]] = 0]
    <3>2. \A s \in Stable : row[s] = rules[l[1]][s]
      BY <1>c, <2>2, <3>1
    <3> HIDE DEF row
    <3> QED BY <2>1, <2>2, <3>2 DEF TypeOK, row
  <2>4. UNCHANGED <<queue, lbCache, w>>
    BY <1>6 DEF LateDelete
  <2> QED BY <1>0, <2>1, <2>3, <2>4 DEF Untouched
<1>7. CASE Worker
  <2>1. CASE \E s \in Service : SyncLoadBalancer(s)
    BY <1>0, <1>1, <2>1
  <2>2. CASE \E c \in Client : DeleteCall(c) \/ InstallCall(c)
    BY <1>0, <1>2, <1>3, <2>2
  <2> QED BY <1>4, <1>5, <1>7, <2>1, <2>2 DEF Worker
<1> QED BY <1>6, <1>7

-----------------------------------------------------------------------------
(* What a step of the life-cycle goroutine does, and that its promises stay. *)

Attempt ==
  [at : {"install"}, c : Client, todo : SUBSET Service, ok : BOOLEAN,
   s : Service, v : 0..MaxVersion, retry : 0..Retries]

LEMMA TakeAliveKeeps ==
  ASSUME IInv, TakeAlive  PROVE Untouched' /\ Promised' /\ NothingYet'
<1> USE DEF IInv
<1>1. /\ r'.at = "range" /\ r'.c = aliveCh[1] /\ r'.todo = Service /\ r'.ok = FALSE
      /\ aliveCh # <<>> /\ aliveCh' = Tail(aliveCh) /\ aliveCh \in Seq(Client)
      /\ r.at = "wait"
      /\ UNCHANGED <<want, queue, lbCache, rules, w, late, up, isAlive, exited, refusals>>
  BY DEF TakeAlive, cluster, Waiting, TypeOK
<1>2. Untouched' /\ NothingYet'
  BY <1>1 DEF Untouched, NothingYet
<1>3. ASSUME ~exited', NEW c \in up' \cap isAlive', NEW s \in Stable
      PROVE  Restores(c, s)'
  <2>1. Restores(c, s)
    BY <1>1, <1>3 DEF Promised
  <2>2. CASE rules[c][s] = 1
    BY <1>1, <2>2 DEF Restores
  <2>3. ASSUME NEW i \in 1..Len(aliveCh), aliveCh[i] = c  PROVE Restores(c, s)'
    <3>1. CASE i = 1
      <4>1. r'.c = c /\ s \in r'.todo
        BY <1>1, <2>3, <3>1, ReinstallAssumption
      <4> QED BY <1>1, <4>1 DEF Restores, Reaching
    <3>2. CASE i # 1
      <4>1. i - 1 \in 1..Len(aliveCh') /\ aliveCh'[i - 1] = c
        BY <1>1, <2>3, <3>2
      <4> QED BY <4>1 DEF Restores, InChannel
    <3> QED BY <3>1, <3>2
  <2> QED BY <1>1, <2>1, <2>2, <2>3, Zenon DEF Restores, InChannel, Reaching, Trying
<1> QED BY <1>2, <1>3 DEF Promised

LEMMA RangeNextKeeps ==
  ASSUME IInv, RangeNext  PROVE Untouched' /\ Promised' /\ NothingYet'
<1> USE DEF IInv
<1>1. r \in [at : {"range"}, c : Client, todo : SUBSET Service, ok : BOOLEAN]
  BY DEF RangeNext, TypeOK, LifeState, Waiting
<1>2. PICK t \in r.todo :
        r' = IF lbCache[t] \in {NoEntry, 0} THEN [r EXCEPT !.todo = r.todo \ {t}]
             ELSE [at |-> "install", c |-> r.c, todo |-> r.todo \ {t}, ok |-> r.ok,
                   s |-> t, v |-> lbCache[t], retry |-> 0]
  BY Zenon DEF RangeNext
<1>3. UNCHANGED <<want, queue, lbCache, rules, aliveCh, w, late, up, isAlive, exited, refusals>>
  BY DEF RangeNext, cluster
<1>4. /\ r'.at \in {"range", "install"} /\ r'.c = r.c /\ r'.todo = r.todo \ {t} /\ r'.ok = r.ok
      /\ r'.at = "install" => r'.s = t /\ r'.v = lbCache[t] /\ r'.retry = 0
      /\ lbCache[t] \notin {NoEntry, 0} => r'.at = "install"
  BY <1>1, <1>2
<1>5. Untouched'
  BY <1>3, <1>4 DEF Untouched
<1>6. NothingYet'
  BY <1>1, <1>4 DEF NothingYet, Single
<1>7. ASSUME ~exited', NEW c \in up' \cap isAlive', NEW s \in Stable
      PROVE  Restores(c, s)'
  <2>1. Restores(c, s)
    BY <1>3, <1>7 DEF Promised
  <2>2. CASE rules[c][s] = 1 \/ InChannel(c)
    BY <1>3, <2>2 DEF Restores, InChannel
  <2>3. CASE Reaching(c, s) /\ s # t
    BY <1>4, <2>3 DEF Restores, Reaching
  <2>4. CASE Reaching(c, s) /\ s = t
    <3>1. lbCache[t] \notin {NoEntry, 0} /\ 0 <= refusals
      BY <2>4, ReinstallAssumption DEF Untouched, TypeOK
    <3> QED BY <1>3, <1>4, <2>4, <3>1 DEF Restores, Trying, Reaching
  <2> QED BY <1>1, <2>1, <2>2, <2>3, <2>4 DEF Restores, Trying
<1> QED BY <1>5, <1>6, <1>7 DEF Promised

LEMMA ReinstallOnceKeeps ==
  ASSUME IInv, ReinstallOnce  PROVE Untouched' /\ Promised' /\ NothingYet'
<1> USE DEF IInv
<1>1. r \in Attempt /\ r.retry < Retries
  BY ReinstallAssumption DEF ReinstallOnce, GivesUp, TypeOK, LifeState, Waiting, Attempt
<1>2. UNCHANGED <<want, queue, lbCache, aliveCh, w, late, up, isAlive, exited>>
  BY DEF ReinstallOnce, cluster
<1>3. CASE r.c \in up /\ rules' = Installed(r.c, r.s, r.v) /\ r' = RangeOn(TRUE) /\ UNCHANGED refusals
  <2>1. r'.at = "range" /\ r'.c = r.c /\ r'.todo = r.todo
    BY <1>3 DEF RangeOn
  <2>2. \A d \in Client, t \in Service :
          rules'[d][t] = IF d = r.c /\ t = r.s /\ rules[r.c][r.s] = 0 THEN r.v ELSE rules[d][t]
    <3>1. r.c \in Client /\ r.s \in Service /\ r.v \in 0..MaxVersion
      BY <1>1 DEF Attempt
    <3>2. \A d \in Client, t \in Service :
            Installed(r.c, r.s, r.v)[d][t]
              = IF d = r.c /\ t = r.s /\ rules[r.c][r.s] = 0 THEN r.v ELSE rules[d][t]
      BY <3>1, InstalledType, ZenonT(40)
    <3> QED BY <1>3, <3>2
  <2>3. /\ Stable \subseteq Service
        /\ \A d \in Client, t \in Stable :
             rules'[d][t] = IF d = r.c /\ t = r.s THEN 1 ELSE rules[d][t]
    BY <1>1, <2>2, ReinstallAssumption DEF Untouched, Attempt
  <2>4. Untouched'
    BY <1>2, <2>1, <2>3 DEF Untouched
  <2>5. NothingYet'
    BY <1>1, <2>1 DEF NothingYet, Attempt
  <2>6. ASSUME ~exited', NEW c \in up' \cap isAlive', NEW s \in Stable
        PROVE  Restores(c, s)'
    <3>1. Restores(c, s) /\ c \in Client
      BY <1>2, <2>6 DEF Promised, TypeOK
    <3>2. CASE rules[c][s] = 1 \/ Trying(c, s)
      BY <2>3, <3>1, <3>2 DEF Restores, Trying
    <3>3. CASE InChannel(c) \/ Reaching(c, s)
      BY <1>2, <2>1, <3>3 DEF Restores, InChannel, Reaching
    <3> QED BY <3>1, <3>2, <3>3 DEF Restores
  <2> QED BY <2>4, <2>5, <2>6 DEF Promised
<1>4. CASE /\ r' = [r EXCEPT !.retry = r.retry + 1] /\ UNCHANGED rules
           /\ r.c \in up => refusals' = refusals + 1
           /\ r.c \notin up => refusals' = refusals
  <2>1. /\ r'.at = "install" /\ r'.c = r.c /\ r'.todo = r.todo /\ r'.ok = r.ok /\ r'.s = r.s /\ r'.v = r.v
        /\ r'.retry = r.retry + 1 /\ r.at = "install"
    BY <1>1, <1>4 DEF Attempt
  <2>2. Untouched' /\ NothingYet'
    BY <1>2, <1>4, <2>1 DEF Untouched, NothingYet
  <2>3. ASSUME ~exited', NEW c \in up' \cap isAlive', NEW s \in Stable
        PROVE  Restores(c, s)'
    <3>1. Restores(c, s)
      BY <1>2, <2>3 DEF Promised
    <3>2. CASE rules[c][s] = 1 \/ InChannel(c) \/ Reaching(c, s)
      BY <1>2, <1>4, <2>1, <3>2 DEF Restores, InChannel, Reaching
    <3>3. CASE Trying(c, s)
      <4>1. r.c = c /\ r.s = s /\ refusals' = refusals + 1 /\ refusals \in Nat /\ r.retry \in Nat
        BY <1>1, <1>2, <1>4, <2>3, <3>3, ReinstallAssumption DEF Trying, TypeOK, Attempt
      <4>2. Patient => r'.retry <= refusals'
        BY <2>1, <3>3, <4>1 DEF Trying
      <4> QED BY <2>1, <4>1, <4>2 DEF Restores, Trying
    <3> QED BY <3>1, <3>2, <3>3 DEF Restores
  <2> QED BY <2>2, <2>3 DEF Promised
<1> QED BY <1>3, <1>4, Zenon DEF ReinstallOnce

(* Where a rule is given up: its instance is gone, or the agent exits. *)
LEMMA ReinstallFailedKeeps ==
  ASSUME Patient \/ Single, IInv, ReinstallFailed
  PROVE  Untouched' /\ Promised' /\ NothingYet'
<1> USE DEF IInv
<1>1. r \in Attempt /\ r.retry = Retries /\ Retries \in Nat /\ MaxRefusals \in Nat
  <2>1. Retries \in Nat /\ MaxRefusals \in Nat
    BY ReinstallAssumption
  <2> QED BY <2>1 DEF ReinstallFailed, GivesUp, TypeOK, LifeState, Waiting, Attempt
<1>2. UNCHANGED <<want, queue, lbCache, rules, aliveCh, w, late, up, isAlive, refusals>>
  BY DEF ReinstallFailed, cluster
<1>3. CASE Exits
  <2>1. exited' = TRUE /\ r'.at = "wait"
    BY <1>3 DEF ReinstallFailed, Waiting
  <2> QED BY <1>2, <2>1 DEF Untouched, Promised, NothingYet
<1>4. CASE ~Exits
  <2>1. r'.at = "range" /\ r'.c = r.c /\ r'.todo = r.todo /\ r'.ok = r.ok /\ exited' = exited
    BY <1>4 DEF ReinstallFailed, RangeOn
  <2>2. Untouched'
    BY <1>2, <2>1 DEF Untouched
  <2>3. NothingYet'
    BY <1>1, <2>1 DEF NothingYet, Attempt
  <2>4. ASSUME ~exited', NEW c \in up' \cap isAlive', NEW s \in Stable
        PROVE  Restores(c, s)'
    <3>1. Restores(c, s)
      BY <1>2, <2>1, <2>4 DEF Promised
    <3>2. CASE rules[c][s] = 1 \/ InChannel(c) \/ Reaching(c, s)
      BY <1>2, <2>1, <3>2 DEF Restores, InChannel, Reaching
    <3>3. ~Trying(c, s)
      <4>1. SUFFICES ASSUME Trying(c, s)  PROVE FALSE
        OBVIOUS
      <4>2. CASE Patient
        BY <1>1, <4>1, <4>2 DEF Trying, Patient, TypeOK
      <4>3. CASE Single
        <5>1. ~r.ok /\ r.c = c /\ c \in isAlive
          BY <1>1, <1>2, <2>4, <4>1, <4>3 DEF NothingYet, Trying, Attempt
        <5> QED BY <1>4, <5>1 DEF Exits
      <4> QED BY <4>2, <4>3
    <3> QED BY <3>1, <3>2, <3>3 DEF Restores
  <2> QED BY <2>2, <2>3, <2>4 DEF Promised
<1> QED BY <1>3, <1>4

LEMMA RangeEndsKeeps ==
  ASSUME IInv, RangeEnds  PROVE Untouched' /\ Promised' /\ NothingYet'
<1> USE DEF IInv
<1>1. /\ r'.at = "wait" /\ r.at = "range" /\ r.todo = {}
      /\ UNCHANGED <<want, queue, lbCache, rules, aliveCh, w, late, up, isAlive, exited, refusals>>
  BY DEF RangeEnds, Waiting, cluster
<1>2. Untouched' /\ NothingYet'
  BY <1>1 DEF Untouched, NothingYet
<1>3. Promised'
  BY <1>1 DEF Promised, Restores, InChannel, Reaching, Trying
<1> QED BY <1>2, <1>3

-----------------------------------------------------------------------------
(* Crashes, recoveries and health checks. *)

LEMMA InstancesKeep ==
  ASSUME IInv, NEW c \in Client, Crash(c) \/ Recover(c) \/ HealthCheck(c)
  PROVE  Promised' /\ NothingYet'
<1> USE DEF IInv
<1>1. UNCHANGED <<r, exited, refusals>>
  BY DEF Crash, Recover, HealthCheck
<1>2. NothingYet'
  BY <1>1 DEF NothingYet
<1>3. ASSUME ~exited', NEW d \in up' \cap isAlive', NEW s \in Stable
      PROVE  Restores(d, s)'
  <2>1. CASE Crash(c)
    <3>1. d # c /\ d \in up \cap isAlive /\ aliveCh' = aliveCh
      BY <1>3, <2>1 DEF Crash
    <3>2. rules'[d] = rules[d]
      BY <2>1, <3>1 DEF Crash, TypeOK
    <3>3. Restores(d, s)
      BY <1>1, <1>3, <3>1 DEF Promised
    <3> QED BY <1>1, <3>1, <3>2, <3>3 DEF Restores, InChannel, Reaching, Trying
  <2>2. CASE Recover(c)
    <3>1. d \in up \cap isAlive /\ UNCHANGED <<aliveCh, rules>>
      BY <1>3, <2>2 DEF Recover
    <3>2. Restores(d, s)
      BY <1>1, <1>3, <3>1 DEF Promised
    <3> QED BY <1>1, <3>1, <3>2 DEF Restores, InChannel, Reaching, Trying
  <2>3. CASE HealthCheck(c)
    <3>1. d \in up /\ UNCHANGED rules /\ aliveCh \in Seq(Client)
      BY <1>3, <2>3 DEF HealthCheck, TypeOK
    <3>2. InChannel(d) => InChannel(d)'
      BY <2>3, <3>1 DEF HealthCheck, InChannel
    <3>3. CASE d \in isAlive
      <4>1. Restores(d, s)
        BY <1>1, <1>3, <3>1, <3>3 DEF Promised
      <4> QED BY <1>1, <3>1, <3>2, <4>1 DEF Restores, Reaching, Trying
    <3>4. CASE d \notin isAlive
      <4>1. d = c /\ aliveCh' = Append(aliveCh, c)
        BY <1>3, <2>3, <3>1, <3>4 DEF HealthCheck
      <4>2. Len(aliveCh') \in 1..Len(aliveCh') /\ aliveCh'[Len(aliveCh')] = d
        BY <3>1, <4>1
      <4> QED BY <4>2 DEF Restores, InChannel
    <3> QED BY <3>3, <3>4
  <2> QED BY <2>1, <2>2, <2>3
<1> QED BY <1>2, <1>3 DEF Promised

(* A step that leaves the rules of stable services, the instances and the    *)
(* life-cycle goroutine alone keeps the promises.                           *)
LEMMA OthersKeep ==
  ASSUME IInv, UNCHANGED <<up, isAlive, aliveCh, r, exited, refusals>>,
         \A c \in Client, s \in Stable : rules'[c][s] = rules[c][s]
  PROVE  Promised' /\ NothingYet'
<1> USE DEF IInv
<1>1. \A c \in up \cap isAlive, s \in Stable : Restores(c, s) => Restores(c, s)'
  BY DEF TypeOK, Restores, InChannel, Reaching, Trying
<1>2. Promised'
  BY <1>1 DEF Promised
<1> QED BY <1>2 DEF NothingYet

LEMMA InitIInv == Init => IInv
<1> SUFFICES ASSUME Init  PROVE IInv
  OBVIOUS
<1>0. /\ 0 \in 0..MaxVersion /\ 1 \in 0..MaxVersion /\ 0 \in 0..MaxCrashes /\ 0 \in 0..MaxRefusals
      /\ Stable \subseteq Service
  BY ReinstallAssumption
<1>1. TypeOK
  <2>1. w \in WorkerState /\ r \in LifeState /\ aliveCh \in Seq(Client)
    BY DEF Init, WorkerState, LifeState
  <2> QED BY <1>0, <2>1, Zenon DEF Init, TypeOK
<1>2. Untouched
  BY <1>0 DEF Init, Untouched, Idle, Waiting
<1>3. Promised /\ NothingYet
  BY <1>0 DEF Init, Promised, Restores, NothingYet, Waiting
<1> QED BY <1>1, <1>2, <1>3 DEF IInv

LEMMA NextIInv ==
  ASSUME Patient \/ Single, IInv, [Next]_vars  PROVE IInv'
<1>1. TypeOK'
  BY TypesKept DEF IInv
<1>2. Untouched' /\ Promised' /\ NothingYet'
  <2>1. ASSUME NEW s \in Service, ChangeService(s)  PROVE Untouched' /\ Promised' /\ NothingYet'
    <3>1. Untouched'
      BY <2>1, ServiceUntouched
    <3>2. UNCHANGED <<up, isAlive, aliveCh, r, exited, refusals, rules>>
      BY <2>1 DEF ChangeService
    <3> QED BY <3>1, <3>2, OthersKeep
  <2>2. ASSUME NEW c \in Client, Crash(c) \/ Recover(c) \/ HealthCheck(c)
        PROVE  Untouched' /\ Promised' /\ NothingYet'
    BY <2>2, InstancesKeep, InstancesUntouched
  <2>3. CASE Worker \/ LateDelete
    BY <2>3, WorkerEffect, OthersKeep
  <2>4. CASE LifeCycle
    BY <2>4, TakeAliveKeeps, RangeNextKeeps, ReinstallOnceKeeps, ReinstallFailedKeeps, RangeEndsKeeps
       DEF LifeCycle
  <2>5. CASE UNCHANGED vars
    <3>1. /\ UNCHANGED <<up, isAlive, aliveCh, r, exited, refusals, rules>>
          /\ UNCHANGED <<want, queue, lbCache, w, late>>
      BY <2>5 DEF vars, cluster
    <3>2. Untouched'
      BY <3>1 DEF Untouched, IInv
    <3> QED BY <3>1, <3>2, OthersKeep
  <2> QED BY <2>1, <2>2, <2>3, <2>4, <2>5 DEF Next
<1> QED BY <1>1, <1>2 DEF IInv

(* The variables have their types: the retry counter stops at the bound of      *)
(* the loop in reinstallLoxiLbRules, whatever the worker does meanwhile.         *)
THEOREM TypeCorrect == Spec => []TypeOK
<1>1. Init => TypeOK
  BY InitIInv DEF IInv
<1>2. TypeOK /\ [Next]_vars => TypeOK'
  BY TypesKept
<1> QED BY <1>1, <1>2, PTL DEF Spec

(* When nothing is left to do, every running instance has the rule of every     *)
(* service nobody touched, for any services, instances, crashes and             *)
(* interleavings of the worker with manageLoxiLbLifeCycle: provided the          *)
(* instances refuse a rule less often than it is tried, or, if they go on, that  *)
(* no other rule's success hides it from the agent, which then exits.            *)
THEOREM StableServicesRestored ==
  ASSUME Patient \/ Single  PROVE Spec => []StableRestored
<1>1. IInv => StableRestored
  <2> SUFFICES ASSUME IInv, Quiet, NEW c \in up, NEW s \in Stable  PROVE rules[c][s] = want[s]
    BY DEF StableRestored
  <2>1. Restores(c, s) /\ want[s] = 1
    BY DEF IInv, Promised, Quiet, Untouched
  <2> QED BY <2>1 DEF Restores, InChannel, Reaching, Trying, Quiet, Waiting
<1> QED BY <1>1, InitIInv, NextIInv, PTL DEF Spec
=============================================================================
