----------------------------- MODULE MCMasters ------------------------------
(* RoleElection and AgentLoop for TLC: one elector and rebalancing ("election"),    *)
(* both electors ("start"), the select loop with roles ("loop").  A component stays *)
(* in its initial state in the others' parts.                                      *)
EXTENDS RoleElection, Sequences

CONSTANTS a, b

VARIABLES
  part,
  startAlive, startMaster, startOnce, startEl,
  up, role, aliveSet, downs, hc, clients, peers, masters, runOnce, live, dead, purge, agent,
  aliveCh, deadCh, purgeCh, life, doBGPCfg, egressCh

startVars == <<startAlive, startMaster, startOnce, startEl>>
loopVars ==
  <<up, role, aliveSet, downs, hc, clients, peers, masters, runOnce, live, dead, purge, agent,
    aliveCh, deadCh, purgeCh, life, doBGPCfg, egressCh>>
allVars == <<part, electionVars, startVars, loopVars>>

Start == INSTANCE RoleElection WITH
  N <- 2, NumZoneInst <- 1, NoRole <- {}, ExclIPAM <- FALSE, Elector <- {"agent", "lifecycle"},
  isAlive <- startAlive, master <- startMaster, electionRunOnce <- startOnce, el <- startEl

Loop == INSTANCE AgentLoop WITH
  Client <- {a, b}, Peer <- {}, Configured <- {a, b}, Discovery <- FALSE, SetRoles <- TRUE,
  SetBGP <- FALSE, LiveCap <- 1, DeadCap <- 1, PurgeCap <- 1, AliveCap <- 1, ClientDeadCap <- 2,
  ClientPurgeCap <- 1, EgressCap <- 1, MaxDown <- 1, FastRestart <- FALSE,
  isAlive <- aliveSet, master <- masters

AllInit ==
  part \in {"election", "start", "loop"} /\ ElectionInit /\ Start!ElectionInit /\ Loop!Init

AllNext ==
  \/ part = "election" /\ ElectionNext /\ UNCHANGED <<part, startVars, loopVars>>
  \/ part = "start" /\ Start!ElectionNext /\ UNCHANGED <<part, electionVars, loopVars>>
  \/ part = "loop" /\ Loop!Next /\ UNCHANGED <<part, electionVars, startVars>>

(* The behaviour is one of the part, which never changes. *)
Of(name) == []<>(part = name)

AllSpec ==
  /\ AllInit /\ [][AllNext]_allVars
  /\ \/ Of("election") /\ ElectionFairness
     \/ Of("start") /\ Start!ElectionFairness
     \/ Of("loop") /\ Loop!SelectsFair

(* While a client of the pool is alive for good, a master that is down does not stay *)
(* the only one: in the select loop, and where both goroutines elect step by step.   *)
DeadMasterReplaced == Loop!DeadMasterReplaced /\ Start!Arbitrated

(* Both goroutines run the first election; when it is over with one master no zone  *)
(* instance gets a second one.                                                      *)
OneMasterFromThen == Start!MastersStayOne

(* An instance that stays up and in the pool is in the end told the role that the     *)
(* elections gave it, however announcements and alive events interleave.             *)
RolesArrive == Loop!RolesArrive

=============================================================================
