------------------------------ MODULE MCStartup ------------------------------
(* The process around the managers, for TLC: the start of the agent (Startup) with        *)
(* other options and other managers in each part, and the log files (LogFiles).  A          *)
(* behaviour is one of one part; the other component stays in its initial states.          *)
EXTENDS Startup, LogFiles

VARIABLE part

startVars == vars
allVars == <<part, startVars, logsVars>>

-----------------------------------------------------------------------------
Def == [name |-> "defaultPool", range |-> "v4"]
Def6 == [name |-> "defaultPool", range |-> "v6"]
P(n, r) == [name |-> n, range |-> r]

Plain == [pools |-> None, pools6 |-> None, peers |-> None, cidr |-> None, zone |-> None, noZone |-> FALSE,
          bgp |-> FALSE, usePodNetwork |-> FALSE, useExternalEndpoint |-> FALSE,
          gatewayAPI |-> FALSE, bgpCRDs |-> FALSE, metadata |-> FALSE]
Nothing == [x \in DOMAIN Plain |-> None]

(* The switches that decide which managers there are. *)
AllOn == {[Plain EXCEPT !.gatewayAPI = g, !.bgpCRDs = b, !.metadata = d] : g, b, d \in BOOLEAN}
NoFiles == {None}

(* Lists of pools and peers, good and bad, by flag and by file. *)
PoolLists == {None, <<Def>>, <<Def, P("p", "range")>>, <<Def, Def>>, <<P("p", "mixed")>>}
Pool6Lists == {None, <<Def6>>, <<Def6, P("p", "v4")>>, <<Def6, Def6>>}
OptionFlags ==
  {[Plain EXCEPT !.pools = p, !.pools6 = q, !.cidr = c, !.peers = e, !.bgp = b] :
     p \in PoolLists, q \in Pool6Lists, c \in {None, "bad"},
     e \in {None, <<"ip:as">>, <<"ip:as", "ip">>, <<"bad">>}, b \in BOOLEAN}
OptionFiles == {None, [Nothing EXCEPT !.pools = <<Def>>, !.zone = "y", !.bgp = TRUE]}

(* Which managers' goroutines are started differs between the parts. *)
Given == INSTANCE Startup WITH Flags <- OptionFlags, Files <- OptionFiles
Options == INSTANCE Startup WITH Flags <- OptionFlags, Files <- OptionFiles, Manager <- {}
Agent == INSTANCE Startup WITH Manager <- {"url", "class", "definedsets"}
Core == INSTANCE Startup WITH Manager <- {"lb"}
WithMetadata == Init /\ given.flags = [Plain EXCEPT !.metadata = TRUE]

-----------------------------------------------------------------------------
Started(p) == part = p /\ LogsInit /\ (p # "logs" => maxNum = 0)

AllInit ==
  \/ Started("options") /\ Given!Init
  \/ Started("agent") /\ Init
  \/ Started("core") /\ WithMetadata
  \/ Started("logs") /\ WithMetadata

AllNext ==
  /\ UNCHANGED part
  /\ \/ /\ \/ part = "options" /\ Options!Next
           \/ part = "agent" /\ Agent!Next
           \/ part = "core" /\ Core!Next
        /\ UNCHANGED logsVars
     \/ part = "logs" /\ LogsNext /\ UNCHANGED startVars

Of(name) == []<>(part = name)

(* Goroutines that can go on do, the CRDs are installed some time, and the API server     *)
(* answers the informers.                                                                 *)
AllSpec ==
  /\ AllInit /\ [][AllNext]_allVars
  /\ Of("agent") => Agent!Fairness

-----------------------------------------------------------------------------
(* Every manager that is enabled serves in the end, unless the agent is stopped: no one   *)
(* waits for an informer that is never started.                                           *)
AgentServes == Of("agent") => Agent!ManagersServe
=============================================================================
