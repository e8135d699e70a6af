--------------------------- MODULE ServiceOptions ---------------------------
(***************************************************************************)
(* The options of a load-balancer rule: addLoadBalancer reads them from    *)
(* the service's annotations, compares them with the ones in lbCache and,  *)
(* if any differs, deletes the rule and installs a new one.  The mutual    *)
(* TLS part of a rule is read from annotations and Secrets at every sync   *)
(* and compared with nothing.                                              *)
(*                                                                         *)
(* One service that has endpoints and an address, with one rule for each   *)
(* port, and one instance, which may refuse a rule.  An annotation is None *)
(* where it is missing and Bad where it has a value the code does not      *)
(* know.                                                                   *)
(***************************************************************************)
EXTENDS Integers, FiniteSets

CONSTANTS
  None, Bad,
  NPorts,       \* the ports of the service
  Refuses,      \* the instance may refuse a rule
  Monitor,      \* --monitor
  SetLBMode,    \* --setLBMode
  Annotations,  \* the annotation records a service may have
  FirstTls,     \* [front, secret, cn, verify, client]: mutual TLS annotations
  Secrets,      \* contents of a Secret: sets of keys
  MaxEdits

VARIABLES
  ann,      \* the annotations
  tls,      \* the mutual TLS annotations
  secret,   \* the Secret they name: None or the set of its keys
  entry,    \* the options in lbCache, or None
  pairs,    \* the ports in LbServicePairs
  ruleOf,   \* for each port the installed rule, or None
  asked,    \* the mutual TLS annotations of the last update (a history variable)
  listed,   \* the service's status has its address
  settled,  \* the last sync succeeded and nothing has changed since
  edits

optionsVars == <<ann, tls, secret, entry, pairs, ruleOf, asked, listed, settled, edits>>

Port == 1..NPorts

-----------------------------------------------------------------------------
(* Annotations to options. *)

Yes(v) == v = "yes"

(* strconv.Atoi *)
Atoi(v, default) == IF v \in {None, Bad} THEN default ELSE v

LbModes == {"default", "onearm", "fullnat", "dsr", "fullproxy", "hostonearm"}

LbMode(a) == IF a.mode \in LbModes THEN a.mode ELSE "not supported"

ProbeTypes == {"none", "ping", "udp", "tcp", "http", "https"}

ProbeType(a) == IF a.probe \in ProbeTypes THEN a.probe ELSE ""

(* No port and no messages for these. *)
NoProbe(a) == ProbeType(a) \in {"icmp", "none", ""}

ProbePort(a) == IF NoProbe(a) THEN 0 ELSE Atoi(a.port, 0)

ProbeMsg(a) == IF a.msg = None \/ NoProbe(a) THEN "" ELSE a.msg

EpSelect(a) == IF a.sel \in {"hash", "persist", "lc", "n2", "n2det", "n3"} THEN a.sel ELSE "rr"

Options(a) ==
  [timeout |-> Atoi(a.timeout, 1800), live |-> Yes(a.live), mode |-> LbMode(a),
   probe |-> ProbeType(a), port |-> ProbePort(a), msg |-> ProbeMsg(a),
   retries |-> Atoi(a.retries, 0), sel |-> EpSelect(a), egress |-> Yes(a.egress)]

-----------------------------------------------------------------------------
(* Mutual TLS.  The parts are [ok, cfg]; cfg is None without the annotation. *)

Ok(c) == [ok |-> TRUE, cfg |-> c]

Error == [ok |-> FALSE, cfg |-> None]

(* The first of two keys of the Secret that it has. *)
KeyOf(k, fallback) ==
  CASE secret # None /\ k \in secret -> {k}
    [] secret # None /\ k \notin secret /\ fallback \in secret -> {fallback}
    [] OTHER -> {}

FrontendOff == tls.front \in {None, "disabled"}

GetMtlsFrontendConfig ==
  CASE FrontendOff -> Ok(None)
    [] ~FrontendOff /\ tls.front \in {"optional", "required"} /\ tls.secret
         /\ KeyOf("client-ca.crt", "server.crt") # {} /\ tls.cn # "no pattern" ->
         Ok([mode |-> tls.front, ca |-> KeyOf("client-ca.crt", "server.crt"), cn |-> tls.cn])
    [] OTHER -> Error

(* The CA certificate is looked for and not used. *)
GetMtlsBackendConfig ==
  CASE ~tls.verify -> Ok(None)
    [] tls.verify /\ (tls.secret => KeyOf("backend-ca.crt", "server.crt") # {})
         /\ (tls.client => KeyOf("tls.crt", "server.crt") # {} /\ KeyOf("tls.key", "server.key") # {}) ->
         Ok([client |-> IF tls.client THEN KeyOf("tls.crt", "server.crt") \cup KeyOf("tls.key", "server.key")
                                      ELSE {}])
    [] OTHER -> Error

TlsOk == GetMtlsFrontendConfig.ok /\ GetMtlsBackendConfig.ok

Tls == [front |-> GetMtlsFrontendConfig.cfg, back |-> GetMtlsBackendConfig.cfg]

-----------------------------------------------------------------------------
(* A sync. *)

Uint16(n) == n % 65536

(* The options in the cache: a new entry has egress off. *)
NewEntry(o) == [o EXCEPT !.port = Uint16(@), !.egress = FALSE]

UpdatedEntry(o) == [o EXCEPT !.port = Uint16(@)]

DiffersButProbe(o, c) == \E f \in DOMAIN o \ {"probe"} : o[f] # c[f]

(* The comparisons, one for each option. *)
Differs(o, c) == \E f \in DOMAIN o : o[f] # c[f]

NeedUpdate(o, c) == pairs = {} \/ ~listed \/ Differs(o, c)

(* The rule the instance is asked for. *)
MakeLoxiLoadBalancerModel(c) ==
  [c EXCEPT !.live = c.live \/ Monitor,
            !.mode = IF c.mode = "not supported" THEN SetLBMode ELSE c.mode]

SyncError ==
  /\ ~TlsOk
  /\ settled' = FALSE
  /\ UNCHANGED <<ann, tls, secret, entry, pairs, ruleOf, asked, listed, edits>>

(* What needDelete leaves. *)
Deleted(o, c) == [p \in Port |-> IF entry # None /\ Differs(o, c) /\ p \in pairs THEN None ELSE ruleOf[p]]

(* An update starts with an empty LbServicePairs. *)
Cleared == {}

(* The rules of the first n ports are installed, one after the other; the   *)
(* next one is refused.  A rule the instance has is left as it is.          *)
Install(n, left, c) ==
  /\ ruleOf' = [p \in Port |-> IF p <= n /\ left[p] = None
                                 THEN [options |-> MakeLoxiLoadBalancerModel(c), tls |-> Tls]
                                 ELSE left[p]]
  /\ pairs' = Cleared \cup 1..n
  /\ asked' = tls
  /\ settled' = (n = NPorts)
  /\ listed' = (listed \/ n = NPorts)

SyncOptions ==
  /\ TlsOk
  /\ LET o == Options(ann)
         c == IF entry = None THEN NewEntry(o) ELSE entry
     IN  IF NeedUpdate(o, c)
           THEN /\ entry' = UpdatedEntry(o)
                /\ \E n \in IF Refuses THEN 0..NPorts ELSE {NPorts} :
                     Install(n, Deleted(o, c), entry')
           ELSE settled' = TRUE /\ UNCHANGED <<entry, pairs, ruleOf, asked, listed>>
  /\ UNCHANGED <<ann, tls, secret, edits>>

-----------------------------------------------------------------------------
(* The user edits one annotation, or the Secret. *)

Edit == edits < MaxEdits /\ edits' = edits + 1 /\ settled' = FALSE

EditAnnotation ==
  /\ Edit
  /\ \E a \in Annotations :
       /\ Cardinality({f \in DOMAIN a : a[f] # ann[f]}) = 1
       /\ ann' = a
  /\ UNCHANGED <<tls, secret, entry, pairs, ruleOf, asked, listed>>

EditTls ==
  /\ Edit
  /\ \/ /\ \E t \in FirstTls : /\ Cardinality({f \in DOMAIN t : t[f] # tls[f]}) = 1
                               /\ tls' = t
        /\ UNCHANGED secret
     \/ secret' \in Secrets \cup {None} /\ UNCHANGED tls
  /\ UNCHANGED <<ann, entry, pairs, ruleOf, asked, listed>>

OptionsInit ==
  /\ ann \in Annotations
  /\ tls \in FirstTls
  /\ secret \in Secrets \cup {None}
  /\ entry = None
  /\ pairs = {}
  /\ ruleOf = [p \in Port |-> None]
  /\ asked = None
  /\ listed = FALSE
  /\ settled = FALSE
  /\ edits = 0

OptionsNext == SyncError \/ SyncOptions \/ EditAnnotation \/ EditTls

OptionsSpec == OptionsInit /\ [][OptionsNext]_optionsVars

-----------------------------------------------------------------------------
(* After a successful sync every port's rule has the options the            *)
(* annotations ask for, however they came to be what they are, and also     *)
(* after a sync that changed the cache and then failed (the comparisons     *)
(* with lbCache and the emptied LbServicePairs in addLoadBalancer).         *)
OptionsApplied ==
  settled => \A p \in DOMAIN ruleOf :
    /\ ruleOf[p] # None
    /\ ruleOf[p].options = MakeLoxiLoadBalancerModel([Options(ann) EXCEPT !.port = Uint16(@)])

(* A service nobody has touched is not deleted and installed again by the   *)
(* next periodic sync: what addLoadBalancer parses compares equal to what   *)
(* it has stored.                                                           *)
Steady == settled => ~NeedUpdate(Options(ann), entry)

(* Configuration c is what annotations t ask for. *)
Obeys(t, c) ==
  /\ t.front \in {"optional", "required"} => c.front # None /\ c.front.mode = t.front
  /\ t.front # None /\ t.front # "disabled" => c.front # None
  /\ t.cn # None /\ c.front # None => c.front.cn = "pattern"
  /\ t.verify /\ t.client => Cardinality(c.back.client) = 2

(* A rule is installed with the mutual TLS configuration asked for or not   *)
(* at all: an unknown mode, a missing pattern, Secret or key is an error    *)
(* (getMtlsFrontendConfig, getMtlsBackendConfig).  No sync compares them:   *)
(* what counts is what they were at the last update.                        *)
TlsApplied == settled => \A p \in DOMAIN ruleOf : Obeys(asked, ruleOf[p].tls)

(* After a successful sync every port's rule has the options the annotations *)
(* ask for, and the mutual TLS they and the Secrets asked for when it was    *)
(* last updated (addLoadBalancer, makeLoxiLoadBalancerModel).                *)
RuleFollowsOptions == OptionsApplied /\ TlsApplied

(* A rule with an ICMP probe, or none, has no probe port. *)
NoPortWithoutProbe ==
  \A p \in Port : ruleOf[p] # None =>
    (ruleOf[p].options.probe \in {"ping", "none", ""} => ruleOf[p].options.port = 0)
=============================================================================
