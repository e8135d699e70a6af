----------------------------- MODULE RoleElection -----------------------------
(***************************************************************************)
(* The election of a master loxilb instance per zone instance: with          *)
(* --setRoles, SelectLoxiLBRoles gives every zone instance (CONSTANT         *)
(* NumZoneInst of them) one master among the instances of the client pool.   *)
(* The pool is the one of --loxiURL, 1..N in pool order.                     *)
(*                                                                           *)
(* Two goroutines run the election and no lock protects it: the agent's       *)
(* select loop (a ticker, or the dead signal of a master), and the instance   *)
(* life cycle goroutine, as long as no election has been run.  The health     *)
(* checks write IsAlive at any time.  One step is one visit of a client.      *)
(***************************************************************************)
EXTENDS Integers, FiniteSets

CONSTANTS
  N,            \* clients in the pool
  NumZoneInst,  \* --numZoneInstances
  NoRole,       \* clients of --excludeRoleList
  ExclIPAM,     \* --setUniqueIP
  Elector       \* the goroutines that run elections

ASSUME RoleElectionAssumption ==
  /\ N \in Nat \ {0}
  /\ NumZoneInst \in Nat \ {0}
  /\ NoRole \subseteq 1..N
  /\ ExclIPAM \in BOOLEAN
  /\ Elector \subseteq {"agent", "lifecycle"}

Client == 1..N

(* zoneInstRoleMap: a zone instance is named by its instID. *)
Inst == 0..(NumZoneInst - 1)

VARIABLES
  isAlive,          \* IsAlive of every client
  master,           \* master[i]: the clients with InstRoles[i].MasterLB
  electionRunOnce,  \* ElectionRunOnce
  el                \* el[e]: where elector e stands in SelectLoxiLBRoles

electionVars == <<isAlive, master, electionRunOnce, el>>

Idle ==
  [pc |-> "idle", left |-> {}, inst |-> 0, pselhint |-> 0, i |-> 0, nproc |-> 0,
   reElect |-> FALSE, hasMaster |-> FALSE, selMaster |-> FALSE, sel |-> -1,
   any |-> FALSE]

ElectorState ==
  [pc : {"idle", "called", "next", "scan", "elect"}, left : SUBSET Inst, inst : Inst,
   pselhint : (-1)..(N + NumZoneInst), i : 0..(N + NumZoneInst), nproc : 0..N,
   reElect : BOOLEAN, hasMaster : BOOLEAN, selMaster : BOOLEAN,
   sel : (-1)..(N - 1), any : BOOLEAN]

TypeOK ==
  /\ isAlive \in [Client -> BOOLEAN]
  /\ master \in [Inst -> SUBSET Client]
  /\ electionRunOnce \in BOOLEAN
  /\ el \in [Elector -> ElectorState]
  /\ \A e \in Elector : el[e].pc \in {"scan", "elect"} => el[e].inst \notin el[e].left

ElectionInit ==
  /\ isAlive = [c \in Client |-> FALSE]
  /\ master = [i \in Inst |-> {}]
  /\ electionRunOnce = FALSE
  /\ el = [e \in Elector |-> Idle]

(* StartLoxiHealthCheckChan: the health check of c notes that the instance   *)
(* answers again, or no longer.                                              *)
HealthCheck(c) ==
  /\ isAlive' = [isAlive EXCEPT ![c] = ~@]
  /\ UNCHANGED <<master, electionRunOnce, el>>

MasterRoles(c) == Cardinality({i \in Inst : c \in master[i]})

(* One client holds every role although there are clients for all of them.   *)
NeedRebalance ==
  /\ ExclIPAM
  /\ Cardinality({c \in Client : isAlive[c]}) >= NumZoneInst
  /\ \E c \in Client : MasterRoles(c) >= NumZoneInst

ResetRolesOnNeedRebalanceInstLoxiLBRoles ==
  master' = IF NeedRebalance THEN [i \in Inst |-> {}] ELSE master

LifeCycleAlways(e) ==
  /\ e = "lifecycle"
  /\ el[e].pc = "idle"
  /\ el' = [el EXCEPT ![e] = [Idle EXCEPT !.pc = "called"]]
  /\ UNCHANGED <<isAlive, master, electionRunOnce>>

(* manageLoxiLbLifeCycle, at an alive event: it calls SelectLoxiLBRoles if no  *)
(* election has been run, which may no longer be so when the call begins.     *)
ManageLoxiLbLifeCycle(e) ==
  /\ e = "lifecycle"
  /\ el[e].pc = "idle" /\ ~electionRunOnce
  /\ el' = [el EXCEPT ![e] = [Idle EXCEPT !.pc = "called"]]
  /\ UNCHANGED <<isAlive, master, electionRunOnce>>

(* SelectLoxiLBRoles is entered: by the agent's loop at any time. *)
SelectLoxiLBRoles(e) ==
  /\ el[e].pc = (IF e = "lifecycle" THEN "called" ELSE "idle")
  /\ ResetRolesOnNeedRebalanceInstLoxiLBRoles
  /\ el' = [el EXCEPT ![e] = [Idle EXCEPT !.pc = "next", !.left = Inst]]
  /\ UNCHANGED <<isAlive, electionRunOnce>>

(* The next zone instance, in the order of a Go map, and the client its       *)
(* selection starts from.                                                    *)
NextInst(e) ==
  LET s == el[e] IN
  /\ s.pc = "next"
  /\ \E i \in s.left :
       el' = [el EXCEPT ![e] =
               [s EXCEPT !.pc = "scan", !.left = s.left \ {i}, !.inst = i, !.i = 0,
                         !.pselhint = IF s.pselhint = 0 THEN i ELSE s.pselhint + 1,
                         !.reElect = FALSE, !.hasMaster = FALSE]]
  /\ UNCHANGED <<isAlive, master, electionRunOnce>>

(* SelectInstLoxiLBRoles, first loop: is there a master, did one die? *)
ScanForgetsToClear(e) ==
  LET s == el[e]  c == s.i + 1  m == c \in master[s.inst] IN
  /\ s.pc = "scan" /\ s.i < N
  /\ master' = master
  /\ el' = [el EXCEPT ![e] = [@ EXCEPT !.i = @ + 1,
                                       !.reElect = @ \/ (m /\ ~isAlive[c]),
                                       !.hasMaster = @ \/ (m /\ isAlive[c])]]
  /\ UNCHANGED <<isAlive, electionRunOnce>>

ScanIgnoresHealth(e) ==
  LET s == el[e]  m == (s.i + 1) \in master[s.inst] IN
  /\ s.pc = "scan" /\ s.i < N
  /\ el' = [el EXCEPT ![e] = [@ EXCEPT !.i = @ + 1, !.hasMaster = @ \/ m]]
  /\ UNCHANGED <<isAlive, master, electionRunOnce>>

Scan(e) ==
  LET s == el[e]  c == s.i + 1  m == c \in master[s.inst] IN
  /\ s.pc = "scan" /\ s.i < N
  /\ master' = IF m /\ ~isAlive[c] THEN [master EXCEPT ![s.inst] = @ \ {c}]
                                   ELSE master
  /\ el' = [el EXCEPT ![e] = [s EXCEPT !.i = c,
                                       !.reElect = s.reElect \/ (m /\ ~isAlive[c]),
                                       !.hasMaster = s.hasMaster \/ (m /\ isAlive[c])]]
  /\ UNCHANGED <<isAlive, electionRunOnce>>

(* An election is needed, or this zone instance is done with hint -1. *)
ScanDone(e) ==
  LET s == el[e]  elects == s.reElect \/ ~s.hasMaster IN
  /\ s.pc = "scan" /\ s.i >= N
  /\ el' = [el EXCEPT ![e] =
             IF elects THEN [s EXCEPT !.pc = "elect", !.i = s.pselhint,
                                      !.nproc = 0, !.selMaster = FALSE, !.sel = -1]
             ELSE [s EXCEPT !.pc = "next", !.pselhint = -1]]
  /\ UNCHANGED <<isAlive, master, electionRunOnce>>

(* Second loop: from the hint on, wrapping at the end of the pool, the first  *)
(* client that is alive and may have a role.                                 *)
Elect(e) ==
  LET s == el[e]
      i == IF s.i >= N THEN 0 ELSE s.i
      c == i + 1
      chosen == c \notin NoRole /\ ~s.selMaster /\ isAlive[c] IN
  /\ s.pc = "elect" /\ s.nproc < N
  /\ master' = CASE chosen -> [master EXCEPT ![s.inst] = @ \cup {c}]
                 [] c \notin NoRole /\ s.selMaster -> [master EXCEPT ![s.inst] = @ \ {c}]
                 [] OTHER -> master
  /\ el' = [el EXCEPT ![e] = [s EXCEPT !.i = c, !.nproc = s.nproc + 1,
                                       !.selMaster = s.selMaster \/ chosen,
                                       !.sel = IF chosen THEN i ELSE s.sel]]
  /\ UNCHANGED <<isAlive, electionRunOnce>>

ElectDone(e) ==
  LET s == el[e] IN
  /\ s.pc = "elect" /\ s.nproc >= N
  /\ el' = [el EXCEPT ![e] = [s EXCEPT !.pc = "next", !.pselhint = s.sel,
                                       !.any = s.any \/ s.selMaster]]
  /\ UNCHANGED <<isAlive, master, electionRunOnce>>

(* SelectLoxiLBRoles returns. *)
Finish(e) ==
  /\ el[e].pc = "next" /\ el[e].left = {}
  /\ electionRunOnce' = (electionRunOnce \/ el[e].any)
  /\ el' = [el EXCEPT ![e] = Idle]
  /\ UNCHANGED <<isAlive, master>>

Step(e) ==
  ManageLoxiLbLifeCycle(e) \/ SelectLoxiLBRoles(e) \/ NextInst(e) \/ Scan(e) \/ ScanDone(e) \/ Elect(e)
  \/ ElectDone(e) \/ Finish(e)

ElectionNext == (\E c \in Client : HealthCheck(c)) \/ (\E e \in Elector : Step(e))

ElectionSpec == ElectionInit /\ [][ElectionNext]_electionVars

(* The agent's ticker calls SelectLoxiLBRoles again and again; the life cycle *)
(* goroutine goes on, but nothing obliges it to call an election.            *)
ElectionFairness ==
  \A e \in Elector :
    /\ WF_electionVars(NextInst(e) \/ Scan(e) \/ ScanDone(e) \/ Elect(e) \/ ElectDone(e)
               \/ Finish(e))
    /\ WF_electionVars(SelectLoxiLBRoles(e))

ElectionFairSpec == ElectionSpec /\ ElectionFairness

-----------------------------------------------------------------------------
(* Two masters: no zone instance ever has two clients flagged as its master   *)
(* (SelectInstLoxiLBRoles clears a dead master before it elects and elects    *)
(* only one), whatever the health checks report during an election.          *)
AtMostOneMaster == \A i \in Inst : \A c, d \in master[i] : c = d

(* No election is going on, and the life cycle goroutine will call none. *)
FirstElectionOver == electionRunOnce /\ \A e \in Elector : el[e].pc = "idle"

(* The elections of two goroutines may overlap, and then leave two masters, only at *)
(* the start: if the zone instances have one master each when the first election is *)
(* over, none ever gets a second one, whatever the health checks report.            *)
MastersStayOne == [](FirstElectionOver /\ AtMostOneMaster => []AtMostOneMaster)

(* Arbitration: while an instance that may have roles is alive for good, every    *)
(* zone instance has, again and again, a master that is alive, however the health  *)
(* of the other instances changes between and during the elections.               *)
Arbitrated ==
  \A c \in Client \ NoRole : <>[]isAlive[c] =>
    \A i \in Inst : []<>(\E d \in master[i] : isAlive[d])
=============================================================================
