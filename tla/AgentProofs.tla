---------------------------- MODULE AgentProofs ----------------------------
(***************************************************************************)
(* Two parts of the agent, each for every value of its constants: when the      *)
(* first election, which two goroutines may run at once, has left one master    *)
(* per zone instance there is never a second one, whatever the health checks    *)
(* write to IsAlive between two steps of an election; and the monitor of the    *)
(* log files removes none that is being written.                               *)
(***************************************************************************)
EXTENDS RoleElection, LogFiles, FiniteSetTheorems, TLAPS

-----------------------------------------------------------------------------
(* RoleElection. *)

(* What holds of an elector although another one elects: its indices.          *)
IndexInv(e) ==
  LET s == el[e] IN
  /\ s.pc = "next" => s.pselhint < N
  /\ s.pc = "scan" => s.i <= N /\ s.pselhint >= 0
  /\ s.pc = "elect" => s.i >= 0

OverlapInv == TypeOK /\ \A e \in Elector : IndexInv(e)

(* After the first election only the agent's loop elects.                      *)
Alone == electionRunOnce /\ \A e \in Elector : e # "agent" => el[e].pc = "idle"

(* What the election then knows of master[inst] at each of its points: the scan *)
(* has seen no master it does not remember, and a selection that has not yet    *)
(* chosen starts without a master.                                             *)
ElectorInv(e) ==
  LET s == el[e] IN
  /\ s.pc = "scan" => /\ s.reElect => master[s.inst] = {}
                      /\ ~s.hasMaster => \A c \in master[s.inst] : c > s.i
  /\ s.pc = "elect" => (~s.selMaster => master[s.inst] = {})

ElectionInv == Alone /\ AtMostOneMaster /\ \A e \in Elector : ElectorInv(e)

LEMMA IdleType == Idle \in ElectorState
  BY RoleElectionAssumption DEF Idle, ElectorState, Inst

LEMMA ElectionBegins == ElectionInit => OverlapInv
  <1> SUFFICES ASSUME ElectionInit PROVE OverlapInv
    OBVIOUS
  <1>1. TypeOK
    BY IdleType, Zenon DEF ElectionInit, TypeOK, Idle
  <1>2. \A e \in Elector : IndexInv(e)
    BY DEF ElectionInit, IndexInv, Idle
  <1> QED
    BY <1>1, <1>2 DEF OverlapInv

(* The bounds of an elector's indices. *)
LEMMA Bounds ==
  /\ 0 \in 0..(N + NumZoneInst) /\ 0 \in 0..N /\ -1 \in (-1)..(N - 1)
  /\ -1 \in (-1)..(N + NumZoneInst)
  /\ \A k \in (-1)..(N + NumZoneInst) : k >= 0 => k \in 0..(N + NumZoneInst)
  /\ \A k \in (-1)..(N - 1) : k \in (-1)..(N + NumZoneInst) /\ k < N
  /\ \A c \in Client : c \in 0..(N + NumZoneInst)
  BY RoleElectionAssumption DEF Client

(* A step of one elector leaves the others where they are. *)
LEMMA OthersStay ==
  ASSUME OverlapInv, NEW e \in Elector, Step(e), NEW f \in Elector, f # e
  PROVE  el'[f] = el[f]
  BY DEF Step, ManageLoxiLbLifeCycle, SelectLoxiLBRoles, NextInst, Scan, ScanDone, Elect, ElectDone,
         Finish, OverlapInv, TypeOK

(* After the first election the life cycle goroutine stays idle.               *)
LEMMA StaysAlone ==
  ASSUME OverlapInv, Alone, NEW e \in Elector, Step(e)
  PROVE  e = "agent" /\ Alone'
  <1>1. e \in {"agent", "lifecycle"}
    BY RoleElectionAssumption
  <1>2. e = "agent"
    BY <1>1 DEF Alone, Step, ManageLoxiLbLifeCycle, SelectLoxiLBRoles, NextInst, Scan, ScanDone, Elect,
                ElectDone, Finish
  <1>3. electionRunOnce'
    BY DEF Alone, Step, ManageLoxiLbLifeCycle, SelectLoxiLBRoles, NextInst, Scan, ScanDone, Elect,
           ElectDone, Finish
  <1>4. \A f \in Elector : f # "agent" => el'[f].pc = "idle"
    BY <1>2, OthersStay DEF Alone
  <1> QED
    BY <1>2, <1>3, <1>4 DEF Alone

(* So it is enough to look at the elector that takes the step. *)
LEMMA StepKeeps ==
  ASSUME OverlapInv, NEW e \in Elector, Step(e), TypeOK', IndexInv(e)',
         ElectionInv => AtMostOneMaster' /\ ElectorInv(e)'
  PROVE  OverlapInv' /\ (ElectionInv => ElectionInv')
  <1>1. ASSUME NEW f \in Elector PROVE IndexInv(f)'
    <2>1. CASE f = e
      BY <2>1
    <2>2. CASE f # e
      BY <2>2, OthersStay DEF IndexInv, OverlapInv
    <2> QED
      BY <2>1, <2>2
  <1>2. ASSUME ElectionInv, NEW f \in Elector PROVE ElectorInv(f)'
    <2>1. CASE f = e
      BY <1>2, <2>1
    <2>2. CASE f # e
      <3>1. el'[f] = el[f] /\ f # "agent"
        BY <1>2, <2>2, OthersStay, StaysAlone DEF ElectionInv
      <3>2. el'[f].pc = "idle"
        BY <1>2, <3>1 DEF ElectionInv, Alone
      <3> QED
        BY <3>2 DEF ElectorInv
    <2> QED
      BY <2>1, <2>2
  <1>3. ElectionInv => Alone'
    BY StaysAlone DEF ElectionInv
  <1> QED
    BY <1>1, <1>2, <1>3 DEF OverlapInv, ElectionInv

LEMMA ElectionStep ==
  ASSUME OverlapInv, [ElectionNext]_electionVars
  PROVE  OverlapInv' /\ (ElectionInv => ElectionInv')
  <1> DEFINE Kept == OverlapInv' /\ (ElectionInv => ElectionInv')
  <1>0. ASSUME NEW e \in Elector
        PROVE  el[e] \in ElectorState /\ IndexInv(e) /\ (ElectionInv => ElectorInv(e))
    BY DEF OverlapInv, ElectionInv, TypeOK
  <1>1. CASE UNCHANGED electionVars
    BY <1>1 DEF electionVars, OverlapInv, IndexInv, ElectionInv, Alone, TypeOK, AtMostOneMaster, ElectorInv
  <1>2. ASSUME NEW c \in Client, HealthCheck(c) PROVE Kept
    BY <1>2 DEF HealthCheck, OverlapInv, IndexInv, ElectionInv, Alone, TypeOK, AtMostOneMaster, ElectorInv
  <1>10. ASSUME NEW e \in Elector, ManageLoxiLbLifeCycle(e) PROVE Kept
    <2>1. PICK s : s = [Idle EXCEPT !.pc = "called"]
      OBVIOUS
    <2>2. s \in ElectorState
      BY <2>1, IdleType, Zenon DEF ElectorState
    <2>3. s.pc = "called"
      BY <2>1 DEF Idle
    <2>4. /\ el' = [el EXCEPT ![e] = s] /\ el'[e] = s
          /\ UNCHANGED <<isAlive, master, electionRunOnce>>
      BY <1>10, <2>1 DEF ManageLoxiLbLifeCycle, OverlapInv, TypeOK
    <2>5. TypeOK'
      BY <2>2, <2>3, <2>4 DEF OverlapInv, TypeOK
    <2>6. IndexInv(e)' /\ ElectorInv(e)' /\ (ElectionInv => AtMostOneMaster')
      BY <2>3, <2>4 DEF IndexInv, ElectorInv, ElectionInv, AtMostOneMaster
    <2> QED
      BY <1>10, <2>5, <2>6, StepKeeps DEF Step
  <1>3. ASSUME NEW e \in Elector, SelectLoxiLBRoles(e) PROVE Kept
    <2>1. PICK s : s = [Idle EXCEPT !.pc = "next", !.left = Inst]
      OBVIOUS
    <2>2. s \in ElectorState
      BY <2>1, IdleType, Zenon DEF ElectorState
    <2>3. s.pc = "next" /\ s.pselhint = 0
      BY <2>1 DEF Idle
    <2>4. el' = [el EXCEPT ![e] = s] /\ el'[e] = s
      BY <1>3, <2>1 DEF SelectLoxiLBRoles, OverlapInv, TypeOK
    <2>5. TypeOK'
      BY <1>3, <2>2, <2>3, <2>4 DEF SelectLoxiLBRoles, OverlapInv, TypeOK,
                                    ResetRolesOnNeedRebalanceInstLoxiLBRoles
    <2>6. ElectionInv => AtMostOneMaster'
      BY <1>3 DEF SelectLoxiLBRoles, OverlapInv, ElectionInv, AtMostOneMaster, TypeOK,
                  ResetRolesOnNeedRebalanceInstLoxiLBRoles
    <2>7. IndexInv(e)' /\ ElectorInv(e)'
      BY RoleElectionAssumption, <2>3, <2>4 DEF IndexInv, ElectorInv
    <2> QED
      BY <1>3, <2>5, <2>6, <2>7, StepKeeps DEF Step
  <1>4. ASSUME NEW e \in Elector, NextInst(e) PROVE Kept
    <2> DEFINE hint(i) == IF el[e].pselhint = 0 THEN i ELSE el[e].pselhint + 1
    <2>0. PICK i \in el[e].left :
            el' = [el EXCEPT ![e] = [el[e] EXCEPT !.pc = "scan", !.left = el[e].left \ {i},
                                                  !.inst = i, !.i = 0, !.pselhint = hint(i),
                                                  !.reElect = FALSE, !.hasMaster = FALSE]]
      BY <1>4, Zenon DEF NextInst
    <2>1. PICK s :
            /\ s = [el[e] EXCEPT !.pc = "scan", !.left = el[e].left \ {i},
                                 !.inst = i, !.i = 0, !.pselhint = hint(i),
                                 !.reElect = FALSE, !.hasMaster = FALSE]
            /\ el' = [el EXCEPT ![e] = s]
      BY <2>0, Zenon
    <2>2. i \in Inst /\ el[e].left \ {i} \in SUBSET Inst
      BY <1>0 DEF ElectorState
    <2>3. el[e].pselhint \in (-1)..(N + NumZoneInst) /\ el[e].pselhint < N
      BY <1>0, <1>4 DEF NextInst, ElectorState, IndexInv
    <2>4. hint(i) \in (-1)..(N + NumZoneInst) /\ hint(i) >= 0
      BY <2>2, <2>3, RoleElectionAssumption DEF Inst
    <2> HIDE DEF hint
    <2>5. s \in ElectorState
      <3>1. 0 \in 0..(N + NumZoneInst)
        BY Bounds
      <3> QED
        BY <1>0, <2>1, <2>2, <2>4, <3>1, ZenonT(40) DEF ElectorState
    <2>6. /\ s.pc = "scan" /\ s.i = 0 /\ s.pselhint = hint(i) /\ s.inst = i
          /\ s.left = el[e].left \ {i} /\ s.reElect = FALSE /\ s.hasMaster = FALSE
      BY <1>0, <2>1 DEF ElectorState
    <2>7. el'[e] = s /\ UNCHANGED <<isAlive, master, electionRunOnce>>
      BY <1>4, <2>1 DEF NextInst, OverlapInv, TypeOK
    <2>8. TypeOK'
      BY <2>1, <2>5, <2>6, <2>7 DEF OverlapInv, TypeOK
    <2>9. IndexInv(e)' /\ ElectorInv(e)'
      BY RoleElectionAssumption, <2>2, <2>4, <2>6, <2>7 DEF IndexInv, ElectorInv, OverlapInv, TypeOK, Client
    <2>10. ElectionInv => AtMostOneMaster'
      BY <2>7 DEF ElectionInv, AtMostOneMaster
    <2> QED
      BY <1>4, <2>8, <2>9, <2>10, StepKeeps DEF Step
  <1>5. ASSUME NEW e \in Elector, Scan(e) PROVE Kept
    <2> DEFINE c == el[e].i + 1
               m == c \in master[el[e].inst]
    <2>1. /\ el[e].pc = "scan" /\ el[e].i \in 0..(N - 1) /\ el[e].i < c
          /\ c \in Client /\ c <= N /\ el[e].inst \in Inst
          /\ el[e].inst \notin el[e].left
      BY RoleElectionAssumption, <1>0, <1>5 DEF Scan, ElectorState, Client, OverlapInv, TypeOK
    <2>2. PICK s :
            /\ s = [el[e] EXCEPT !.i = c,
                                 !.reElect = el[e].reElect \/ (m /\ ~isAlive[c]),
                                 !.hasMaster = el[e].hasMaster \/ (m /\ isAlive[c])]
            /\ el' = [el EXCEPT ![e] = s]
      BY <1>5, Zenon DEF Scan
    <2>3. s \in ElectorState
      <3>1. c \in 0..(N + NumZoneInst)
        BY <2>1, Bounds
      <3> HIDE DEF c, m
      <3> QED
        BY <1>0, <2>2, <3>1, ZenonT(40) DEF ElectorState
    <2>4. /\ s.pc = "scan" /\ s.i = c /\ s.inst = el[e].inst
          /\ s.left = el[e].left /\ s.pselhint = el[e].pselhint
          /\ s.reElect = (el[e].reElect \/ (m /\ ~isAlive[c]))
          /\ s.hasMaster = (el[e].hasMaster \/ (m /\ isAlive[c]))
      BY <1>0, <2>1, <2>2 DEF ElectorState
    <2>5. el'[e] = s /\ UNCHANGED <<isAlive, electionRunOnce>>
      BY <1>5, <2>2 DEF Scan, OverlapInv, TypeOK
    <2>6. /\ master' \in [Inst -> SUBSET Client]
          /\ \A i \in Inst : master'[i] \subseteq master[i]
          /\ m /\ ~isAlive[c] => master'[el[e].inst] = master[el[e].inst] \ {c}
      BY <1>5, <2>1 DEF Scan, OverlapInv, TypeOK
    <2>7. TypeOK'
      BY <2>1, <2>2, <2>3, <2>4, <2>5, <2>6 DEF OverlapInv, TypeOK
    <2>12. IndexInv(e)'
      BY <1>0, <2>1, <2>4, <2>5 DEF IndexInv
    <2> SUFFICES ASSUME ElectionInv PROVE AtMostOneMaster' /\ ElectorInv(e)'
      BY <1>5, <2>7, <2>12, StepKeeps DEF Step
    <2>8. AtMostOneMaster'
      BY <2>6 DEF ElectionInv, AtMostOneMaster
    <2>9. s.reElect => master'[el[e].inst] = {}
      <3>1. CASE m /\ ~isAlive[c]
        BY <2>1, <2>6, <3>1 DEF ElectionInv, AtMostOneMaster
      <3>2. CASE ~(m /\ ~isAlive[c])
        BY <1>0, <2>1, <2>4, <2>6, <3>2, Zenon DEF ElectorInv
      <3> QED
        BY <3>1, <3>2
    <2>10. ~s.hasMaster => \A d \in master'[el[e].inst] : d > c
      <3> SUFFICES ASSUME ~s.hasMaster, NEW d \in master'[el[e].inst] PROVE d > c
        OBVIOUS
      <3>1. d \in master[el[e].inst] /\ d \in Client
        BY <2>1, <2>6
      <3>2. d > el[e].i
        BY <1>0, <2>1, <2>4, <3>1, Zenon DEF ElectorInv
      <3>3. d # c
        BY <2>4, <2>6, <3>1, Zenon
      <3> QED
        BY <2>1, <3>1, <3>2, <3>3 DEF Client
    <2>11. ElectorInv(e)'
      BY <1>0, <2>1, <2>4, <2>5, <2>9, <2>10 DEF ElectorInv
    <2> QED
      BY <2>8, <2>11
  <1>6. ASSUME NEW e \in Elector, ScanDone(e) PROVE Kept
    <2>1. /\ el[e].pc = "scan" /\ el[e].i >= N /\ el[e].i = N
          /\ el[e].pselhint >= 0 /\ el[e].pselhint \in (-1)..(N + NumZoneInst)
          /\ el[e].inst \in Inst /\ el[e].inst \notin el[e].left
          /\ UNCHANGED <<isAlive, master, electionRunOnce>>
      BY RoleElectionAssumption, <1>0, <1>6 DEF ScanDone, ElectorState, IndexInv, OverlapInv, TypeOK
    <2>2. CASE el[e].reElect \/ ~el[e].hasMaster
      <3>1. PICK s :
              /\ s = [el[e] EXCEPT !.pc = "elect", !.i = el[e].pselhint, !.nproc = 0,
                                   !.selMaster = FALSE, !.sel = -1]
              /\ el' = [el EXCEPT ![e] = s]
        BY <1>6, <2>2, Zenon DEF ScanDone
      <3>2. s \in ElectorState
        <4>1. /\ el[e].pselhint \in 0..(N + NumZoneInst)
              /\ 0 \in 0..N /\ -1 \in (-1)..(N - 1)
          BY <2>1, Bounds
        <4> QED
          BY <1>0, <3>1, <4>1, Zenon DEF ElectorState
      <3>3. /\ s.pc = "elect" /\ s.i >= 0 /\ s.inst = el[e].inst
            /\ s.left = el[e].left
        BY <1>0, <2>1, <3>1 DEF ElectorState
      <3>4. ElectionInv => master[el[e].inst] = {}
        BY RoleElectionAssumption, <1>0, <2>1, <2>2 DEF ElectorInv, OverlapInv, TypeOK, Client
      <3>5. TypeOK'
        BY <2>1, <3>1, <3>2, <3>3 DEF OverlapInv, TypeOK
      <3>6. IndexInv(e)' /\ (ElectionInv => ElectorInv(e)')
        BY <2>1, <3>1, <3>3, <3>4 DEF IndexInv, ElectorInv, OverlapInv, TypeOK
      <3>7. ElectionInv => AtMostOneMaster'
        BY <2>1 DEF ElectionInv, AtMostOneMaster
      <3> QED
        BY <1>6, <3>5, <3>6, <3>7, StepKeeps DEF Step
    <2>3. CASE ~(el[e].reElect \/ ~el[e].hasMaster)
      <3>1. PICK s :
              /\ s = [el[e] EXCEPT !.pc = "next", !.pselhint = -1]
              /\ el' = [el EXCEPT ![e] = s]
        BY <1>6, <2>3, Zenon DEF ScanDone
      <3>2. s \in ElectorState
        BY <1>0, <3>1, Bounds, Zenon DEF ElectorState
      <3>3. s.pc = "next" /\ s.pselhint = -1 /\ -1 < N
        BY RoleElectionAssumption, <1>0, <3>1 DEF ElectorState
      <3>4. TypeOK'
        BY <2>1, <3>1, <3>2, <3>3 DEF OverlapInv, TypeOK
      <3>5. IndexInv(e)' /\ ElectorInv(e)'
        BY <3>1, <3>3 DEF IndexInv, ElectorInv, OverlapInv, TypeOK
      <3>6. ElectionInv => AtMostOneMaster'
        BY <2>1 DEF ElectionInv, AtMostOneMaster
      <3> QED
        BY <1>6, <3>4, <3>5, <3>6, StepKeeps DEF Step
    <2> QED
      BY <2>2, <2>3
  <1>7. ASSUME NEW e \in Elector, Elect(e) PROVE Kept
    <2> DEFINE i == IF el[e].i >= N THEN 0 ELSE el[e].i
               c == i + 1
               chosen == c \notin NoRole /\ ~el[e].selMaster /\ isAlive[c]
    <2>1. /\ el[e].pc = "elect" /\ el[e].nproc + 1 \in 0..N
          /\ i \in (-1)..(N - 1) /\ c \in Client /\ c >= 0 /\ el[e].inst \in Inst
          /\ el[e].inst \notin el[e].left
      BY RoleElectionAssumption, <1>0, <1>7 DEF Elect, ElectorState, Client, IndexInv, OverlapInv, TypeOK
    <2>2. PICK s :
            /\ s = [el[e] EXCEPT !.i = c, !.nproc = el[e].nproc + 1,
                                 !.selMaster = el[e].selMaster \/ chosen,
                                 !.sel = IF chosen THEN i ELSE el[e].sel]
            /\ el' = [el EXCEPT ![e] = s]
      BY <1>7, Zenon DEF Elect
    <2>3. (IF chosen THEN i ELSE el[e].sel) \in (-1)..(N - 1)
      BY <1>0, <2>1 DEF ElectorState
    <2>4. s \in ElectorState
      <3>1. c \in 0..(N + NumZoneInst)
        BY <2>1, Bounds
      <3> HIDE DEF i, c, chosen
      <3> QED
        BY <1>0, <2>1, <2>2, <2>3, <3>1, ZenonT(40) DEF ElectorState
    <2>5. /\ s.pc = "elect" /\ s.i = c /\ s.inst = el[e].inst
          /\ s.left = el[e].left /\ s.selMaster = (el[e].selMaster \/ chosen)
      BY <1>0, <2>1, <2>2 DEF ElectorState
    <2>6. el'[e] = s /\ UNCHANGED <<isAlive, electionRunOnce>>
      BY <1>7, <2>2 DEF Elect, OverlapInv, TypeOK
    <2>7. /\ master' \in [Inst -> SUBSET Client]
          /\ \A j \in Inst : j # el[e].inst => master'[j] = master[j]
          /\ chosen => master'[el[e].inst] = master[el[e].inst] \cup {c}
          /\ ~chosen => master'[el[e].inst] \subseteq master[el[e].inst]
      <3>1. CASE chosen
        <4>1. master' = [master EXCEPT ![el[e].inst] = @ \cup {c}]
          BY <1>7, <3>1 DEF Elect
        <4> QED
          BY <2>1, <3>1, <4>1 DEF OverlapInv, TypeOK
      <3>2. CASE ~chosen
        <4>1. master' = [master EXCEPT ![el[e].inst] = @ \ {c}] \/ master' = master
          BY <1>7, <3>2 DEF Elect
        <4> QED
          BY <2>1, <3>2, <4>1 DEF OverlapInv, TypeOK
      <3> QED
        BY <3>1, <3>2
    <2>8. TypeOK'
      BY <2>1, <2>2, <2>4, <2>5, <2>6, <2>7 DEF OverlapInv, TypeOK
    <2>9. IndexInv(e)'
      BY <2>1, <2>5, <2>6 DEF IndexInv
    <2> SUFFICES ASSUME ElectionInv PROVE AtMostOneMaster' /\ ElectorInv(e)'
      BY <1>7, <2>8, <2>9, StepKeeps DEF Step
    <2>10. ~el[e].selMaster => master[el[e].inst] = {}
      BY <1>0, <2>1 DEF ElectorInv
    <2>11. chosen => master'[el[e].inst] = {c}
      BY <2>7, <2>10
    <2>12. AtMostOneMaster'
      BY <2>1, <2>7, <2>11 DEF ElectionInv, AtMostOneMaster
    <2>13. ~s.selMaster => master'[s.inst] = {}
      BY <2>1, <2>5, <2>7, <2>10
    <2>14. ElectorInv(e)'
      BY <2>1, <2>5, <2>6, <2>13 DEF ElectorInv
    <2> QED
      BY <2>12, <2>14
  <1>8. ASSUME NEW e \in Elector, ElectDone(e) PROVE Kept
    <2>1. PICK s :
            /\ s = [el[e] EXCEPT !.pc = "next", !.pselhint = el[e].sel,
                                 !.any = el[e].any \/ el[e].selMaster]
            /\ el' = [el EXCEPT ![e] = s]
      BY <1>8, Zenon DEF ElectDone
    <2>2. el[e].sel \in (-1)..(N - 1)
      BY <1>0 DEF ElectorState
    <2>3. s \in ElectorState
      BY <1>0, <2>1, <2>2, Bounds, Zenon DEF ElectorState
    <2>4. s.pc = "next" /\ s.pselhint < N
      BY <1>0, <2>1, <2>2, Bounds DEF ElectorState
    <2>5. el'[e] = s /\ UNCHANGED <<isAlive, master, electionRunOnce>>
      BY <1>8, <2>1 DEF ElectDone, OverlapInv, TypeOK
    <2>6. TypeOK'
      BY <2>1, <2>3, <2>4, <2>5 DEF OverlapInv, TypeOK
    <2>7. IndexInv(e)' /\ ElectorInv(e)'
      BY <2>4, <2>5 DEF IndexInv, ElectorInv
    <2>8. ElectionInv => AtMostOneMaster'
      BY <2>5 DEF ElectionInv, AtMostOneMaster
    <2> QED
      BY <1>8, <2>6, <2>7, <2>8, StepKeeps DEF Step
  <1>9. ASSUME NEW e \in Elector, Finish(e) PROVE Kept
    <2>1. el' = [el EXCEPT ![e] = Idle] /\ el'[e] = Idle /\ Idle.pc = "idle"
      BY <1>9 DEF Finish, OverlapInv, TypeOK, Idle
    <2>2. electionRunOnce' \in BOOLEAN
      BY <1>0, <1>9 DEF Finish, OverlapInv, TypeOK, ElectorState
    <2>3. TypeOK'
      BY <1>9, <2>1, <2>2, IdleType DEF Finish, OverlapInv, TypeOK
    <2>4. IndexInv(e)' /\ ElectorInv(e)'
      BY <2>1 DEF IndexInv, ElectorInv
    <2>5. ElectionInv => AtMostOneMaster'
      BY <1>9 DEF Finish, ElectionInv, AtMostOneMaster
    <2> QED
      BY <1>9, <2>3, <2>4, <2>5, StepKeeps DEF Step
  <1> QED
    BY <1>1, <1>2, <1>3, <1>4, <1>5, <1>6, <1>7, <1>8, <1>9, <1>10 DEF ElectionNext, Step

(* Although two goroutines may elect at the same time until the first election is  *)
(* over, and may then leave two masters: if there is one master per zone instance  *)
(* when it is over none ever gets a second, for any number of clients and zone      *)
(* instances, with rebalancing or without, and whatever the health checks write     *)
(* between two steps of an election.                                               *)
THEOREM OneMaster == ElectionSpec => MastersStayOne
  <1>1. OverlapInv /\ FirstElectionOver /\ AtMostOneMaster => ElectionInv
    BY DEF FirstElectionOver, ElectionInv, Alone, ElectorInv
  <1>2. ElectionInv => AtMostOneMaster
    BY DEF ElectionInv
  <1> QED
    BY ElectionBegins, ElectionStep, <1>1, <1>2, PTL DEF ElectionSpec, MastersStayOne

-----------------------------------------------------------------------------
(* LogFiles. *)

(* klog always writes the latest file of a severity, in the directory and in     *)
(* the listing the monitor works from, however old that is.                      *)
Severities == {Levels[i] : i \in DOMAIN Levels}
File == [sev : Severities, id : Nat, time : Nat]

Latest(dir) ==
  \A f, g \in dir : f.id = current[f.sev] /\ g.sev = f.sev => g.time <= f.time

Past(dir) == dir \subseteq File /\ \A f \in dir : f.id <= clock /\ f.time <= clock

Removing == [at : {"remove"}, todo : Seq({"INFO", "WARNING", "ERROR"}), dir : SUBSET File]

LogsInv ==
  /\ clock \in Nat /\ maxNum \in Nat
  /\ current \in [Severities -> Nat \cup {NoFile}]
  /\ Past(files) /\ Latest(files)
  /\ mon = [at |-> "rest"] \/ (mon \in Removing /\ maxNum # 0 /\ Past(mon.dir) /\ Latest(mon.dir))
  /\ CurrentKept

LEMMA LogsBegin == LogsInit => LogsInv
<1> SUFFICES ASSUME LogsInit  PROVE LogsInv
  OBVIOUS
<1>1. maxNum \in Nat
  BY LogFilesAssumption DEF LogsInit, InitLogFileLimits
<1>2. current = [s \in Severities |-> NoFile] /\ files = {} /\ clock = 0 /\ mon = [at |-> "rest"]
  BY DEF LogsInit, Severities
<1> QED BY <1>1, <1>2 DEF LogsInv, Past, Latest, CurrentKept

(* A message makes the file it goes to the latest, and changes no listing. *)
LEMMA WriteKeeps ==
  ASSUME LogsInv, NEW sev \in Severity, Write(sev)  PROVE LogsInv'
<1> USE DEF LogsInv
<1>1. PICK full \in SUBSET Severity :
        LET to == {s \in DOMAIN current : Rank(s) <= Rank(sev)}
            new == {s \in to : current[s] = NoFile \/ s \in full}
            id(s) == IF s \in new THEN clock + 1 ELSE current[s]
        IN  /\ current' = [s \in DOMAIN current |-> IF sev = "FATAL" THEN NoFile
                                                    ELSE IF s \in to THEN id(s) ELSE current[s]]
            /\ files' = {IF f.sev \in to \ new /\ f.id = current[f.sev] THEN [f EXCEPT !.time = clock + 1] ELSE f : f \in files}
                        \cup {[sev |-> s, id |-> clock + 1, time |-> clock + 1] : s \in new}
  BY DEF Write
<1> DEFINE to == {s \in DOMAIN current : Rank(s) <= Rank(sev)}
           new == {s \in to : current[s] = NoFile \/ s \in full}
           old == to \ new
           Touched(f) == IF f.sev \in old /\ f.id = current[f.sev] THEN [f EXCEPT !.time = clock + 1] ELSE f
           Fresh(s) == [sev |-> s, id |-> clock + 1, time |-> clock + 1]
<1>2. /\ new \subseteq Severities /\ old \subseteq Severities /\ old \cap new = {}
      /\ \A s \in Severities \ (old \cup new) : s \notin to
      /\ \A s \in old : s \in to /\ s \notin new /\ current[s] # NoFile
      /\ \A s \in new : s \in to
  OBVIOUS
<1>3. files' = {Touched(f) : f \in files} \cup {Fresh(s) : s \in new}
  BY <1>1
<1>4. current' = [s \in Severities |-> IF sev = "FATAL" THEN NoFile
                                       ELSE IF s \in new THEN clock + 1 ELSE current[s]]
  BY <1>1, <1>2
<1>5. clock' = clock + 1 /\ UNCHANGED maxNum /\ mon' \in {mon, [at |-> "rest"]}
  BY DEF Write
<1> HIDE DEF to, new, old
<1>6. \A f \in files : /\ Touched(f) \in File /\ Touched(f).sev = f.sev /\ Touched(f).id = f.id
                       /\ Touched(f).time = IF f.sev \in old /\ f.id = current[f.sev] THEN clock + 1 ELSE f.time
  BY DEF Past, File
<1>7. \A s \in new : Fresh(s) \in File /\ Fresh(s).sev = s /\ Fresh(s).id = clock + 1 /\ Fresh(s).time = clock + 1
  BY <1>2 DEF File
<1> HIDE DEF Touched, Fresh
<1>8. \A f \in files' : \/ \E e \in files : f = Touched(e)
                        \/ \E s \in new : f = Fresh(s)
  BY <1>3
<1>9. Past(files)'
  BY <1>5, <1>6, <1>7, <1>8 DEF Past, File
<1>10. current' \in [Severities -> Nat \cup {NoFile}]
  BY <1>4
<1>11. Latest(files)'
  <2> SUFFICES ASSUME NEW f \in files', NEW g \in files', f.id = current'[f.sev], g.sev = f.sev
               PROVE  g.time <= f.time
    BY DEF Latest
  <2>1. f \in File /\ g \in File /\ g.time <= clock + 1 /\ f.id \in Nat
    BY <1>5, <1>9 DEF Past, File
  <2>2. sev # "FATAL"
    BY <1>4, <2>1, LogFilesAssumption DEF File
  <2>3. CASE \E s \in new : f = Fresh(s)
    BY <1>7, <2>1, <2>3 DEF File
  <2>4. ASSUME NEW e \in files, f = Touched(e)  PROVE g.time <= f.time
    <3>1. f.sev \notin new /\ f.id = current[f.sev]
      BY <1>4, <1>6, <2>1, <2>2, <2>4 DEF Past, File
    <3>2. CASE f.sev \in old
      BY <1>6, <2>1, <2>4, <3>1, <3>2 DEF File
    <3>3. CASE f.sev \notin old
      <4>1. PICK d \in files : g = Touched(d)
        BY <1>7, <1>8, <3>1
      <4>2. f.time = e.time /\ g.time = d.time /\ d.sev = e.sev /\ e.id = current[e.sev]
        BY <1>6, <2>4, <3>1, <3>3, <4>1
      <4> QED BY <4>2 DEF Latest
    <3> QED BY <3>2, <3>3
  <2> QED BY <1>8, <2>3, <2>4
<1>12. mon' = [at |-> "rest"] \/ (mon' \in Removing /\ maxNum' # 0 /\ Past(mon.dir)' /\ Latest(mon.dir)')
  <2> SUFFICES ASSUME mon' = mon, mon \in Removing, maxNum # 0, Past(mon.dir), Latest(mon.dir)
               PROVE  Past(mon.dir)' /\ Latest(mon.dir)'
    BY <1>5
  <2>1. mon.dir' = mon.dir
    OBVIOUS
  <2>2. Past(mon.dir)'
    BY <1>5, <2>1 DEF Past, File
  <2>3. \A f \in mon.dir : f.id = current'[f.sev] => f.id = current[f.sev]
    BY <1>4, LogFilesAssumption DEF Past, File
  <2> QED BY <2>1, <2>2, <2>3 DEF Latest
<1>13. CurrentKept'
  <2> SUFFICES ASSUME NEW s \in Severities, current'[s] # NoFile
               PROVE  \E f \in files' : f.sev = s /\ f.id = current'[s]
    BY <1>4 DEF CurrentKept
  <2>1. CASE s \in new
    <3>1. Fresh(s) \in files'
      BY <1>3, <2>1
    <3> QED BY <1>4, <1>7, <2>1, <3>1
  <2>2. CASE s \notin new
    <3>1. current'[s] = current[s]
      BY <1>4, <2>2
    <3>2. PICK f \in files : f.sev = s /\ f.id = current[s]
      BY <3>1 DEF CurrentKept
    <3>3. Touched(f) \in files'
      BY <1>3
    <3> QED BY <1>6, <3>1, <3>2, <3>3
  <2> QED BY <2>1, <2>2
<1> QED BY <1>5, <1>9, <1>10, <1>11, <1>12, <1>13

(* The monitor removes a file only if the listing has a later one. *)
LEMMA RemoveFileKeeps ==
  ASSUME LogsInv, RemoveFile  PROVE LogsInv'
<1> USE DEF LogsInv
<1>0. UNCHANGED <<current, clock, maxNum>> /\ maxNum \in Nat /\ maxNum # 0
      /\ mon \in Removing /\ Past(mon.dir) /\ Latest(mon.dir) /\ mon.todo # <<>>
  BY DEF RemoveFile
<1>1. CASE mon' = [mon EXCEPT !.todo = Tail(mon.todo)] /\ UNCHANGED files
  <2>1. mon' \in Removing /\ mon'.dir = mon.dir
    <3>1. mon.todo \in Seq({"INFO", "WARNING", "ERROR"}) /\ mon.todo # <<>>
      BY <1>0 DEF Removing
    <3>2. Tail(mon.todo) \in Seq({"INFO", "WARNING", "ERROR"})
      BY <3>1
    <3> QED BY <1>0, <1>1, <3>2 DEF Removing
  <2> QED BY <1>0, <1>1, <2>1 DEF Past, Latest, CurrentKept
<1>2. ASSUME NEW f \in Surplus({e \in mon.dir : e.sev = Head(mon.todo)}),
             files' = {g \in files : <<g.sev, g.id>> # <<f.sev, f.id>>},
             mon' = [mon EXCEPT !.dir = mon.dir \ {f}]
      PROVE  LogsInv'
  <2> DEFINE later == {g \in {e \in mon.dir : e.sev = Head(mon.todo)} : g.time > f.time}
  <2>1. f \in mon.dir /\ f.sev = Head(mon.todo) /\ Cardinality(later) >= maxNum
    BY <1>2 DEF Surplus
  <2>2. f.id # current[f.sev]
    <3> SUFFICES ASSUME f.id = current[f.sev]  PROVE FALSE
      OBVIOUS
    <3>1. \A g \in mon.dir : g.sev = f.sev => ~(g.time > f.time)
      BY <1>0, <2>1 DEF Latest, Past, File
    <3>2. later = {}
      BY <2>1, <3>1
    <3> HIDE DEF later
    <3>3. Cardinality(later) = 0
      BY <3>2, FS_EmptySet
    <3> QED BY <1>0, <2>1, <3>3
  <2>3. mon' \in Removing /\ mon'.dir = mon.dir \ {f}
    BY <1>0, <1>2 DEF Removing
  <2>4. files' \subseteq files
    BY <1>2
  <2>5. CurrentKept'
    <3> SUFFICES ASSUME NEW s \in Severities, current[s] # NoFile
                 PROVE  \E g \in files' : g.sev = s /\ g.id = current[s]
      BY <1>0 DEF CurrentKept
    <3>1. PICK g \in files : g.sev = s /\ g.id = current[s]
      BY DEF CurrentKept
    <3> QED BY <1>2, <2>2, <3>1
  <2>6. Past(files)' /\ Latest(files)'
    BY <1>0, <2>4 DEF Past, Latest
  <2>7. Past(mon.dir)' /\ Latest(mon.dir)'
    BY <1>0, <2>3 DEF Past, Latest
  <2> QED BY <1>0, <2>3, <2>5, <2>6, <2>7
<1> QED BY <1>1, <1>2 DEF RemoveFile

LEMMA LogsStep == ASSUME LogsInv, [LogsNext]_logsVars  PROVE LogsInv'
<1> USE DEF LogsInv
<1>1. CASE \E s \in Severity : Write(s)
  BY <1>1, WriteKeeps
<1>2. CASE Restart
  <2>1. current' = [s \in Severities |-> NoFile] /\ mon' = [at |-> "rest"] /\ UNCHANGED <<files, clock, maxNum>>
    BY <1>2 DEF Restart
  <2> QED BY <2>1, LogFilesAssumption DEF Past, Latest, CurrentKept, File
<1>3. CASE CheckLogFiles
  <2>1. mon' = [at |-> "remove", todo |-> Checked, dir |-> files] /\ maxNum # 0
        /\ UNCHANGED <<files, current, clock, maxNum>>
    BY <1>3 DEF CheckLogFiles, StartLogFileNumberMonitor
  <2>2. mon' \in Removing /\ mon'.dir = files
    BY <2>1 DEF Removing, Checked, Past
  <2> QED BY <2>1, <2>2 DEF Past, Latest, CurrentKept
<1>4. CASE RemoveFile
  BY <1>4, RemoveFileKeeps
<1>5. CASE CheckEnds
  BY <1>5 DEF CheckEnds, Past, Latest, CurrentKept
<1>6. CASE UNCHANGED logsVars
  BY <1>6 DEF logsVars, Past, Latest, CurrentKept
<1> QED BY <1>1, <1>2, <1>3, <1>4, <1>5, <1>6 DEF LogsNext, Monitor

(* checkLogFiles never removes a file that klog is writing, for any limits,       *)
(* messages and restarts, although the directory may have changed since it was     *)
(* read.                                                                         *)
THEOREM CurrentFilesKept == LogsSpec => []CurrentKept
<1>1. LogsInv => CurrentKept
  BY DEF LogsInv
<1> QED BY <1>1, LogsBegin, LogsStep, PTL DEF LogsSpec
=============================================================================
