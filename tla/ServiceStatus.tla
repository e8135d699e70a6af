---------------------------- MODULE ServiceStatus ----------------------------
(***************************************************************************)
(* The status of a service as the memory of its addresses: updateService writes  *)
(* them as names (pkg/agent/manager/common/util_extip.go), and after a restart    *)
(* getLBServiceExternalIPs reads them back.  Agents of several zones write the    *)
(* status of one service.  A name is the sequence of its parts between dashes:    *)
(* an IPv4 address is one part, an IPv6 address the sequence of its groups, and   *)
(* a zone is the sequence of its own parts.                                      *)
(***************************************************************************)
EXTENDS Naturals, Sequences, FiniteSets

CONSTANTS
  Agent,       \* the agents, each of a zone
  ZoneOf,      \* ZoneOf[a]: the parts of the zone's name, <<>> if empty
  PoolOf,      \* PoolOf[a]: the addresses of the pool
  V4,          \* the parts that are IPv4 addresses
  Hex,         \* the parts that are hexadecimal groups
  UserIPs,     \* addresses a user may give the service
  ZeroCIDR,    \* whether the pool is a 0.0.0.0 pool of the configuration
  Hosts,       \* addresses of instances (hostcidr objects)
  MaxRestarts  \* bound on restarts

AnyIP == <<"0.0.0.0">>
Group(s) == \A i \in 1..Len(s) : s[i] \in Hex \cup {""}

(* net.ParseIP on the parts of a name joined by colons. *)
IsV6(s) ==
  /\ Len(s) \in 3..8 /\ Group(s)
  /\ LET gaps == {i \in 1..Len(s) : s[i] = ""} IN
     \/ gaps = {} /\ Len(s) = 8
     \/ Cardinality(gaps) = 1 /\ gaps \cap {1, Len(s)} = {}
IsV4(s) == Len(s) = 1 /\ s[1] \in V4

VARIABLES
  status,    \* the entries of status.loadBalancer.ingress: names and addresses
  cache,     \* cache[a]: the addresses of the service in lbCache of agent a
  hosts,     \* hosts[a]: loxiInstAddrMap of agent a
  given,     \* spec.externalIPs and the staticIP annotation
  taken,     \* taken[a]: the pool address agent a put into the status, as a set
  restarts   \* restarts so far

statusVars == <<status, cache, hosts, given, taken, restarts>>

StatusInit ==
  /\ status = {} /\ cache = [a \in Agent |-> {}] /\ hosts = [a \in Agent |-> {}]
  /\ given = {} /\ taken = [a \in Agent |-> {}] /\ restarts = 0

-----------------------------------------------------------------------------
(* GenExtIPName, and the field of the entry that updateService fills. *)
GenExtIPName(a, ip) ==
  IF ip = AnyIP THEN IF hosts[a] = {} THEN {<<"llbanyextip">>} ELSE hosts[a]
  ELSE {ZoneOf[a] \o ip}

Entry(name) == [field |-> IF IsV4(name) THEN "ip" ELSE "hostname", name |-> name]

ParseForgetsZone(a, name) ==
  IF name = <<"llbanyextip">> THEN {AnyIP}
  ELSE IF IsV4(<<name[1]>>) THEN {<<name[1]>>}
  ELSE IF IsV6(name) THEN {name} ELSE {}

(* ParseIngressHostname: the address, or none. *)
ParseIngressHostname(a, name) ==
  IF name = <<"llbanyextip">> THEN {AnyIP}
  ELSE IF Len(name) < 2 THEN IF IsV4(name) THEN {name} ELSE {}
  ELSE LET rest == IF <<name[1]>> = ZoneOf[a] THEN Tail(name) ELSE name IN
       IF IsV4(<<rest[1]>>) THEN {<<rest[1]>>}
       ELSE IF IsV6(rest) THEN {rest} ELSE {}

IngressIPsIgnoreZero(a) ==
  UNION {IF e.field = "ip" THEN {e.name} ELSE ParseIngressHostname(a, e.name) : e \in status}

(* getServiceIngressIPs, with serviceHasZeroCIDRPool. *)
GetServiceIngressIPs(a) ==
  IF ZeroCIDR THEN {AnyIP : e \in status}
  ELSE UNION {IF e.field = "ip" THEN {e.name} ELSE ParseIngressHostname(a, e.name) : e \in status}

(* getLBServiceExternalIPs, with getServiceExternalIPs and getServiceLoxiStaticIP. *)
GetLBServiceExternalIPs(a) == GetServiceIngressIPs(a) \cup given

(* updateService: what is missing is appended; every address of a service that      *)
(* has one already is static, the others are in range.                            *)
UpdateService(a, ips) == status \cup {Entry(n) : n \in UNION {GenExtIPName(a, ip) : ip \in ips}}

(* A sync of the service.  The status update may fail, which is forgotten. *)
Sync(a) ==
  \E new \in PoolOf[a] :
    LET found == GetLBServiceExternalIPs(a)
        ips == IF found # {} THEN found ELSE IF cache[a] # {} THEN cache[a] ELSE {new}
    IN /\ cache' = [cache EXCEPT ![a] = @ \cup ips]
       /\ \/ /\ status' = UpdateService(a, ips)
             /\ taken' = IF taken[a] = {} THEN [taken EXCEPT ![a] = ips \cap PoolOf[a]] ELSE taken
          \/ UNCHANGED <<status, taken>>
       /\ UNCHANGED <<hosts, given, restarts>>

EditGiven ==
  /\ given' \in (SUBSET UserIPs) \ {given}
  /\ UNCHANGED <<status, cache, hosts, taken, restarts>>

Restart(a) ==
  /\ restarts < MaxRestarts /\ restarts' = restarts + 1
  /\ cache' = [cache EXCEPT ![a] = {}] /\ hosts' = [hosts EXCEPT ![a] = {}]
  /\ UNCHANGED <<status, given, taken>>

(* A hostcidr object appears or goes, and updateAllLoxiLBServiceStatus writes the      *)
(* entries again, all as addresses: the API server refuses the name llbanyextip there.  *)
UpdateAllLoxiLBServiceStatus(a, H) ==
  /\ ZeroCIDR /\ hosts' = [hosts EXCEPT ![a] = H]
  /\ status' = IF H = {} THEN status ELSE {Entry(n) : n \in H}
  /\ UNCHANGED <<cache, given, taken, restarts>>

StatusNext ==
  \/ EditGiven
  \/ \E a \in Agent :
    \/ Sync(a) \/ Restart(a)
    \/ \E H \in SUBSET Hosts : H # hosts[a] /\ UpdateAllLoxiLBServiceStatus(a, H)

StatusSpec == StatusInit /\ [][StatusNext]_statusVars

-----------------------------------------------------------------------------
(* A service keeps the address its status shows, across restarts and beside agents   *)
(* of other zones: apart from those the user gave it, an agent configures only the    *)
(* address of its pool that it wrote first.  So names are read back to what they       *)
(* were written for, and those of other zones are skipped.                           *)
AddressKept ==
  \A a \in Agent : taken[a] # {} => cache[a] \subseteq taken[a] \cup UserIPs

=============================================================================
