------------------------------- MODULE Startup -------------------------------
(***************************************************************************)
(* The start of the agent: the options from flags, file and defaults, their *)
(* validation, the pools, the managers and their informers, and the         *)
(* goroutines that serve once their caches are complete (cmd/loxilb-agent    *)
(* and the constructors and Run methods of the managers).                    *)
(*                                                                         *)
(* A pool definition is [name, range]; a range is "v4", "v6", "range" (two   *)
(* addresses), "mixed" (of two families) or "bad".  A BGP peer is "ip:as",   *)
(* "ip" or "bad".  The informer factories are those of InformerFactory.        *)
(***************************************************************************)
EXTENDS Naturals, Sequences, FiniteSets

CONSTANTS
  None,
  Flags,    \* what the command line may give
  Files,    \* what the configuration file may give, None without a file
  Manager   \* the managers of this instance of the model

VARIABLES
  stage,    \* how far the main goroutine is
  given,    \* [flags, file] of this process
  config,   \* o.config
  net,      \* the network configuration the managers get
  pools, pools6,  \* names in ipPoolTbl and ip6PoolTbl
  mgr,      \* what each manager's goroutine does
  crds,     \* the CRDs that are installed
  signals,  \* signals so far
  informers, started, running, synced, shutting, stopped  \* of InformerFactory

Factory == {"core", "bgp", "klb", "egress", "sigs"}

Types == [core |-> {"services", "nodes", "slices", "pods"},
          bgp |-> {"peers", "definedsets", "definitions", "applies"},
          klb |-> {"loxiurls"}, egress |-> {"egresses"},
          sigs |-> {"classes", "gateways", "tcproutes", "udproutes", "httproutes"}]

NoCaller == {}

F == INSTANCE InformerFactory
       WITH TypesOf <- Types, Caller <- NoCaller, pc <- [c \in NoCaller |-> None]

factoryVars == <<informers, started, running, synced, shutting, stopped>>
optionVars == <<given, config, net, pools, pools6>>
vars == <<stage, optionVars, mgr, crds, signals, factoryVars>>

Exited == stage \in {"exit", "panic", "returned"}

-----------------------------------------------------------------------------
(* Options. *)

(* Fields the file has replace what flags were bound to them. *)
LoadConfigFromFile(flags, file) == [x \in DOMAIN flags |-> IF file # None /\ file[x] # None THEN file[x] ELSE flags[x]]

Lists == {"pools", "pools6", "peers"}

(* The lists of the command line are kept in variables of their own, and     *)
(* replace those of the file.                                              *)
UpdateConfigFromCommandLine(c, flags) ==
  [x \in DOMAIN c |-> IF x \in Lists /\ flags[x] # None THEN flags[x] ELSE c[x]]

Default(v, d) == IF v = None THEN d ELSE v

SetDefaults(c) ==
  [c EXCEPT !.pools = IF c.cidr # None THEN <<[name |-> "defaultPool", range |-> c.cidr]>>
                      ELSE Default(c.pools, <<[name |-> "defaultPool", range |-> "v4"]>>),
            !.pools6 = Default(c.pools6, <<[name |-> "defaultPool", range |-> "v6"]>>),
            !.peers = Default(c.peers, <<>>),
            !.zone = Default(c.zone, IF c.noZone THEN "" ELSE "llb")]

Complete ==
  /\ stage = "complete"
  /\ config' = SetDefaults(UpdateConfigFromCommandLine(
                 LoadConfigFromFile(given.flags, given.file), given.flags))
  /\ stage' = "validate"
  /\ UNCHANGED <<given, net, pools, pools6, mgr, crds, signals, factoryVars>>

PoolsValid(ps, cidr) == \A i \in DOMAIN ps : ps[i].range \in {cidr, "range"}

PeersValid(c) ==
  /\ c.peers # <<>> => c.bgp
  /\ \A i \in DOMAIN c.peers : c.peers[i] # "bad"

(* The peer whose AS number is read although it has none.                    *)
PeersPanic(c) ==
  /\ c.bgp
  /\ \E i \in DOMAIN c.peers : c.peers[i] = "ip" /\ \A j \in 1..i-1 : c.peers[j] # "bad"

PoolsOk(c) == PoolsValid(c.pools, "v4") /\ PoolsValid(c.pools6, "v6")

Validate ==
  /\ stage = "validate"
  /\ stage' = CASE PoolsOk(config) /\ PeersPanic(config) -> "panic"
                [] PoolsOk(config) /\ ~PeersPanic(config) /\ PeersValid(config) -> "pools"
                [] OTHER -> "exit"
  /\ UNCHANGED <<optionVars, mgr, crds, signals, factoryVars>>

-----------------------------------------------------------------------------
(* run. *)

NetworkConfig(c) == [bgp |-> c.bgp, peers |-> c.peers, zone |-> c.zone, usePodNetwork |-> c.usePodNetwork,
                     useExternalEndpoint |-> FALSE]

Names(ps) == {ps[i].name : i \in DOMAIN ps}

Distinct(ps) == Cardinality(Names(ps)) = Len(ps)

(* ipPoolTbl: a name that is defined twice ends the agent. *)
CreatePools ==
  /\ stage = "pools"
  /\ net' = NetworkConfig(config)
  /\ pools' = Names(config.pools)
  /\ stage' = IF Distinct(config.pools) THEN "pools6" ELSE "exit"
  /\ UNCHANGED <<given, config, pools6, mgr, crds, signals, factoryVars>>

CreatePools6 ==
  /\ stage = "pools6"
  /\ pools6' = Names(config.pools6)
  /\ stage' = IF Distinct(config.pools6) THEN "managers" ELSE "exit"
  /\ UNCHANGED <<given, config, net, pools, mgr, crds, signals, factoryVars>>

(* What the constructors ask their factories for. *)
NewLoadBalancerManager == {"services", "nodes", "slices"}
NewBGPPeerManager == {"peers"}
NewBGPPolicyDefinedSetsManager == {"definedsets"}
NewBGPPolicyDefinitionManager == {"definitions"}
NewBGPPolicyApplyManager == {"applies"}
NewLoxiLBURLManager == {"loxiurls"}
NewEgressManager == {"egresses"}
NewMetaManager == {"pods", "services", "nodes"}
NewGatewayClassManager == {"classes"}
NewGatewayManager == {"gateways"}
NewTCPRouteManager == {"tcproutes"}
NewUDPRouteManager == {"udproutes"}
NewHTTPRouteManager == {"httproutes"}

Caches ==
  [lb |-> NewLoadBalancerManager, bgppeer |-> NewBGPPeerManager,
   definedsets |-> NewBGPPolicyDefinedSetsManager, definition |-> NewBGPPolicyDefinitionManager,
   apply |-> NewBGPPolicyApplyManager, url |-> NewLoxiLBURLManager, egress |-> NewEgressManager,
   meta |-> NewMetaManager, class |-> NewGatewayClassManager, gateway |-> NewGatewayManager,
   tcp |-> NewTCPRouteManager, udp |-> NewUDPRouteManager, http |-> NewHTTPRouteManager]

ASSUME ManagerAssumption == Manager \subseteq DOMAIN Caches

FactoryOf(m) == CHOOSE f \in Factory : Caches[m] \subseteq Types[f]

GatewayManagers == {"class", "gateway", "tcp", "udp", "http"} \cap Manager
BGPManager == {"bgppeer", "definedsets", "definition", "apply"} \cap Manager
CRDManager == {"url", "egress"} \cap Manager

NextStage(s) ==
  CASE s = "managers" -> "core" [] s = "core" -> "bgp" [] s = "bgp" -> "crds" [] s = "crds" -> "meta"
    [] s = "meta" -> "gateways" [] s = "gateways" -> "sigs" [] s = "sigs" -> "up"

(* The informers of the managers ms, one after the other. *)
AskForInformers(s, ms, on) ==
  /\ stage = s
  /\ LET missing == {<<FactoryOf(m), t>> : m \in ms, t \in UNION {Caches[k] : k \in ms}}
         todo == {p \in missing : p[2] \in Types[p[1]] \ informers[p[1]]}
     IN  IF on /\ todo # {}
           THEN LET p == CHOOSE p \in todo : TRUE
                IN  F!InformerFor(p[1], p[2]) /\ UNCHANGED stage
           ELSE stage' = NextStage(s) /\ UNCHANGED factoryVars
  /\ UNCHANGED <<optionVars, mgr, crds, signals>>

NewManagers == AskForInformers("managers", Manager \ GatewayManagers, TRUE)

NewGatewayManagersNever == AskForInformers("gateways", GatewayManagers, FALSE)

NewGatewayManagers == AskForInformers("gateways", GatewayManagers, config.gatewayAPI)

(* Goroutines of managers that wait for their caches. *)
Waiting(ms) == [m \in DOMAIN mgr |-> IF m \in ms THEN "waiting" ELSE mgr[m]]

(* The factories of the three generated clients. *)
StartBgpFactory == F!Start("bgp")

StartEgressFactory == F!Start("egress")

StartKlbFactory == F!Start("klb")

StartCore ==
  /\ stage = "core"
  /\ F!Start("core")
  /\ mgr' = Waiting({"lb"} \cap Manager)
  /\ stage' = NextStage(stage)
  /\ UNCHANGED <<optionVars, crds, signals>>

StartBGP ==
  /\ stage = "bgp"
  /\ IF config.bgpCRDs THEN StartBgpFactory /\ mgr' = Waiting(BGPManager)
                       ELSE UNCHANGED <<factoryVars, mgr>>
  /\ stage' = NextStage(stage)
  /\ UNCHANGED <<optionVars, crds, signals>>

(* The Start methods of these managers poll for the CRD first. *)
StartCRDManagers ==
  /\ stage = "crds"
  /\ mgr' = [m \in DOMAIN mgr |-> IF m \in CRDManager THEN "polling" ELSE mgr[m]]
  /\ stage' = NextStage(stage)
  /\ UNCHANGED <<optionVars, crds, signals, factoryVars>>

StartMeta ==
  /\ stage = "meta"
  /\ mgr' = IF config.metadata THEN Waiting({"meta"} \cap Manager) ELSE mgr
  /\ stage' = NextStage(stage)
  /\ UNCHANGED <<optionVars, crds, signals, factoryVars>>

StartGateways ==
  /\ stage = "sigs"
  /\ IF config.gatewayAPI THEN F!Start("sigs") /\ mgr' = Waiting(GatewayManagers)
                          ELSE UNCHANGED <<factoryVars, mgr>>
  /\ stage' = NextStage(stage)
  /\ UNCHANGED <<optionVars, crds, signals>>

RunReturns ==
  /\ stage = "up" /\ stopped
  /\ stage' = "returned"
  /\ UNCHANGED <<optionVars, mgr, crds, signals, factoryVars>>

-----------------------------------------------------------------------------
(* The managers' goroutines. *)

StartAfterCRD(m) == IF m = "url" THEN StartKlbFactory ELSE StartEgressFactory

CRDCreated(m) == FactoryOf(m) \in crds \/ stopped

WaitForCRDCreation(m) ==
  /\ ~Exited
  /\ mgr[m] = "polling" /\ CRDCreated(m)
  /\ StartAfterCRD(m)
  /\ mgr' = [mgr EXCEPT ![m] = "waiting"]
  /\ UNCHANGED <<stage, optionVars, crds, signals>>

(* The caches the Run of each manager gives to WaitForNamedCacheSync. *)
WaitsFor ==
  [lb |-> {"services", "nodes", "slices"}, meta |-> {"pods", "services", "nodes"},
   bgppeer |-> {"peers"}, definedsets |-> {"definedsets"}, definition |-> {"definitions"},
   apply |-> {"applies"}, url |-> {"loxiurls"}, egress |-> {"egresses"}, class |-> {"classes"},
   gateway |-> {"gateways"}, tcp |-> {"tcproutes"}, udp |-> {"udproutes"}, http |-> {"httproutes"}]

Run(m) ==
  /\ ~Exited
  /\ mgr[m] = "waiting"
  /\ WaitsFor[m] \subseteq synced[FactoryOf(m)]
  /\ mgr' = [mgr EXCEPT ![m] = "serving"]
  /\ UNCHANGED <<stage, optionVars, crds, signals, factoryVars>>

RunStops(m) ==
  /\ ~Exited
  /\ mgr[m] \in {"waiting", "serving"} /\ stopped
  /\ mgr' = [mgr EXCEPT ![m] = "stopped"]
  /\ UNCHANGED <<stage, optionVars, crds, signals, factoryVars>>

-----------------------------------------------------------------------------
(* The surroundings: signals, CRDs, informers. *)

RegisterSignalHandlers ==
  /\ stage \notin {"complete", "validate"} /\ ~Exited
  /\ signals < 2 /\ signals' = signals + 1
  /\ IF signals = 0 THEN F!Close /\ UNCHANGED stage
                    ELSE stage' = "exit" /\ UNCHANGED factoryVars
  /\ UNCHANGED <<optionVars, mgr, crds>>

InstallCRD ==
  /\ ~Exited
  /\ \E f \in {"klb", "egress"} \ crds : crds' = crds \cup {f}
  /\ UNCHANGED <<stage, optionVars, mgr, signals, factoryVars>>

InformerStep ==
  /\ ~Exited
  /\ \E f \in Factory : F!CacheSyncs(f) \/ F!RunReturns(f)
  /\ UNCHANGED <<stage, optionVars, mgr, crds, signals>>

Init ==
  /\ stage = "complete"
  /\ given \in [flags : Flags, file : Files]
  /\ config = None /\ net = None /\ pools = {} /\ pools6 = {}
  /\ mgr = [m \in Manager |-> "none"]
  /\ crds = {}
  /\ signals = 0
  /\ F!FactoriesInit

Main ==
  \/ Complete \/ Validate \/ CreatePools \/ CreatePools6 \/ NewManagers
  \/ StartCore \/ StartBGP \/ StartCRDManagers \/ StartMeta \/ NewGatewayManagers
  \/ StartGateways \/ RunReturns

Goroutine(m) == WaitForCRDCreation(m) \/ Run(m) \/ RunStops(m)

Next ==
  \/ Main
  \/ \E m \in Manager : Goroutine(m)
  \/ RegisterSignalHandlers \/ InstallCRD \/ InformerStep

Spec == Init /\ [][Next]_vars

(* Goroutines that can go on do, the CRDs are installed some time, and the   *)
(* API server answers the informers.                                         *)
Fairness ==
  /\ WF_vars(Main) /\ WF_vars(InstallCRD) /\ WF_vars(InformerStep)
  /\ \A m \in Manager : WF_vars(Goroutine(m))

FairSpec == Spec /\ Fairness

-----------------------------------------------------------------------------
Enabled(m) ==
  /\ m \in BGPManager => config.bgpCRDs
  /\ m \in GatewayManagers => config.gatewayAPI
  /\ m = "meta" => config.metadata

(* Every manager that is enabled serves in the end, unless the agent is      *)
(* stopped: no one waits for an informer that is never started.              *)
ManagersServe ==
  \A m \in Manager : (stage = "up" /\ Enabled(m)) ~> (mgr[m] = "serving" \/ stopped \/ Exited)
=============================================================================
