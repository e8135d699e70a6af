------------------------------ MODULE Requests ------------------------------
(***************************************************************************)
(* Requests to loxilb instances (pkg/api): the access token of a host,     *)
(* which one global mutex protects while it is refreshed over the network, *)
(* the request itself, and what the callers make of the answer.            *)
(*                                                                         *)
(* Time is counted in units of the token life.  The hosts modelled are     *)
(* those given a token by the environment; token 0 is that one, and the    *)
(* host numbers those it issues later.                                     *)
(***************************************************************************)
EXTENDS Naturals, FiniteSets

CONSTANTS
  None,
  Host, Thread,
  Ops,          \* the calls the threads make
  Refreshable,  \* hosts with a refresh token in the environment
  Slow,         \* hosts whose token endpoint never answers
  Down,         \* hosts that do not answer, although they may act
  Life,         \* how long a token is valid
  Margin,       \* a token this close to its end is refreshed
  MaxDelay,     \* how long a request may be on its way
  LateClients,  \* time may pass before the client of a host is made
  Restarts,     \* the agent may restart
  Lossy,        \* a token may be issued although the answer is lost
  Refused200,   \* an instance may refuse with status 200
  MaxClock, MaxIssued

ASSUME RequestsAssumption ==
  /\ {Life, Margin, MaxDelay, MaxClock, MaxIssued} \subseteq Nat
  /\ Refreshable \subseteq Host /\ Slow \subseteq Host /\ Down \subseteq Host
  /\ {LateClients, Restarts, Lossy, Refused200} \subseteq BOOLEAN
  /\ None \notin Thread /\ None \notin [id : Nat, exp : Nat]

VARIABLES
  clock,
  tok,     \* tokenManager.Tokens
  lock,    \* the thread that holds tokenManager.mu over a refresh
  issued,  \* for each host its latest token
  ends,    \* for each host and token when the host stops accepting it
  th       \* the threads

vars == <<clock, tok, lock, issued, ends, th>>

Idle == [at |-> "idle"]

Init ==
  /\ clock = 0
  /\ tok = [h \in Host |-> None]
  /\ lock = None
  /\ issued = [h \in Host |-> 0]
  /\ ends = [h \in Host |-> [i \in 0..MaxIssued |-> IF i = 0 THEN Life ELSE 0]]
  /\ th = [t \in Thread |-> Idle]

-----------------------------------------------------------------------------
(* The calls: method, whether status 200 hides an error from the caller, and *)
(* whether its deadline is shorter than the 10 s of a token refresh.         *)

Post(short) == [method |-> "POST", lenient |-> FALSE, short |-> short]
Delete(lenient) == [method |-> "DELETE", lenient |-> lenient, short |-> FALSE]

HealthCheckGet == [method |-> "GET", lenient |-> FALSE, short |-> TRUE]
LoadBalancerCreate == Post(TRUE)
LoadBalancerDelete == Delete(TRUE)
LoadBalancerDeleteByName == Delete(TRUE)
FirewallCreate == Post(FALSE)
FirewallDelete == Delete(TRUE)
SniCertCreate == Post(FALSE)
SniCertDelete == Delete(TRUE)
CiStatusCreate == Post(FALSE)
K8sMetaCreate == Post(FALSE)
CreateGlobalConfig == Post(FALSE)
CreateNeigh == Post(FALSE)
DeleteNeigh == Delete(FALSE)
CreateBGPPolicyApply == Post(FALSE)
DeleteBGPPolicyApply == Delete(FALSE)
CreateBGPPolicyDefinedSets == Post(FALSE)
DeleteBGPPolicyDefinedSets == Delete(FALSE)
CreateBGPPolicyDefinition == Post(FALSE)
DeleteBGPPolicyDefinition == Delete(FALSE)

Call(op) ==
  CASE op = "health" -> HealthCheckGet
    [] op = "lb create" -> LoadBalancerCreate
    [] op = "lb delete" -> LoadBalancerDelete
    [] op = "lb delete by name" -> LoadBalancerDeleteByName
    [] op = "fw create" -> FirewallCreate
    [] op = "fw delete" -> FirewallDelete
    [] op = "sni create" -> SniCertCreate
    [] op = "sni delete" -> SniCertDelete
    [] op = "ci create" -> CiStatusCreate
    [] op = "meta create" -> K8sMetaCreate
    [] op = "global create" -> CreateGlobalConfig
    [] op = "neigh create" -> CreateNeigh
    [] op = "neigh delete" -> DeleteNeigh
    [] op = "apply create" -> CreateBGPPolicyApply
    [] op = "apply delete" -> DeleteBGPPolicyApply
    [] op = "sets create" -> CreateBGPPolicyDefinedSets
    [] op = "sets delete" -> DeleteBGPPolicyDefinedSets
    [] op = "definition create" -> CreateBGPPolicyDefinition
    [] op = "definition delete" -> DeleteBGPPolicyDefinition

VerdictStatusOnly(method, resp) ==
  [status |-> resp.status, err |-> resp.status = 0 \/ (method # "GET" /\ resp.status # 200)]

VerdictOfAll(method, resp) ==
  [status |-> resp.status, err |-> resp.status # 200 \/ resp.result # "Success"]

(* Do, once there is an answer or none (status 0): only calls that change    *)
(* something are validated, the status first and then the result field.      *)
Verdict(method, resp) ==
  [status |-> resp.status,
   err |-> resp.status = 0 \/ (method # "GET" /\ (resp.status # 200 \/ resp.result # "Success"))]

(* The error the call returns. *)
CallFails(call, r) == r.err /\ ~(call.lenient /\ r.status = 200)

-----------------------------------------------------------------------------
(* Tokens. *)

(* The token of the environment, with a life counted from now, unless the    *)
(* host has one already.                                                     *)
LoadTokenForHost(h) ==
  tok' = [tok EXCEPT ![h] = IF tok[h] # None THEN tok[h] ELSE [id |-> 0, exp |-> clock + Life]]

NewLoxiClient(h) ==
  /\ lock = None
  /\ LoadTokenForHost(h)
  /\ UNCHANGED <<clock, lock, issued, ends, th>>

Locking(h, op, late) == [at |-> "lock", host |-> h, op |-> op, late |-> late]

NewLoxiRequest(t) ==
  /\ th[t].at \in {"idle", "done"}
  /\ \E h \in {g \in Host : tok[g] # None}, op \in Ops :
       th' = [th EXCEPT ![t] = Locking(h, op, FALSE)]
  /\ UNCHANGED <<clock, tok, lock, issued, ends>>

Sending(s, late, token, age) ==
  [at |-> "send", host |-> s.host, op |-> s.op, late |-> late, token |-> token, age |-> age]

ValidUntilEnd(k) == clock < k.exp

Valid(k) == clock + Margin < k.exp

TakesLockAnyway(t) == th[t].at = "lock"

(* The mutex is free. *)
TakesLock(t) == th[t].at = "lock" /\ lock = None

GetAccessToken(t) ==
  /\ TakesLock(t)
  /\ LET s == th[t]
         k == tok[s.host]
     IN  CASE Valid(k) ->
                th' = [th EXCEPT ![t] = Sending(s, s.late, k.id, 0)] /\ UNCHANGED lock
           [] ~Valid(k) /\ s.host \notin Refreshable ->
                th' = [th EXCEPT ![t] = Sending(s, s.late, None, 0)] /\ UNCHANGED lock
           [] ~Valid(k) /\ s.host \in Refreshable ->
                /\ th' = [th EXCEPT ![t] = [at |-> "refresh", host |-> s.host, op |-> s.op,
                                            late |-> s.late, cur |-> k.id]]
                /\ lock' = t
  /\ UNCHANGED <<clock, tok, issued, ends>>

(* The host issues a token that is valid from now. *)
Issue(h) ==
  /\ issued[h] < MaxIssued
  /\ issued' = [issued EXCEPT ![h] = issued[h] + 1]
  /\ ends' = [ends EXCEPT ![h] = [ends[h] EXCEPT ![issued[h] + 1] = clock + Life]]

RefreshTokenForHost(t) ==
  /\ th[t].at = "refresh" /\ th[t].host \notin Slow
  /\ LET h == th[t].host
     IN  /\ Issue(h)
         /\ tok' = [tok EXCEPT ![h] = [id |-> issued[h] + 1, exp |-> clock + Life]]
         /\ th' = [th EXCEPT ![t] = Sending(th[t], th[t].late, issued[h] + 1, 0)]
  /\ lock' = None
  /\ UNCHANGED clock

RefreshTimesOutNever(t) == th[t].host \notin Slow

(* The refresh has a deadline of its own. *)
RefreshTimesOut(t) == TRUE

(* An error, a refusal or the deadline: the request goes out without token.  *)
(* Those who waited for the mutex of a slow host, and the thread itself, are   *)
(* 10 s later than they began.                                                *)
RefreshFails(t) ==
  /\ th[t].at = "refresh" /\ RefreshTimesOut(t)
  /\ LET h == th[t].host
         late(s) == s.late \/ h \in Slow
     IN  /\ th' = [u \in Thread |->
                    IF u = t THEN Sending(th[u], late(th[u]), None, 0)
                    ELSE IF th[u].at = "lock" THEN Locking(th[u].host, th[u].op, late(th[u]))
                    ELSE th[u]]
         /\ (Lossy /\ Issue(h)) \/ UNCHANGED <<issued, ends>>
  /\ lock' = None
  /\ UNCHANGED <<clock, tok>>

-----------------------------------------------------------------------------
(* The request on the network, and the instance. *)

Accepted(h, token) == token # None => clock < ends[h][token]

Refusals == {[status |-> 500, result |-> "fail"]}
            \cup IF Refused200 THEN {[status |-> 200, result |-> "fail"]} ELSE {}

(* What the instance may do with a request and what comes back. *)
Outcomes(s) ==
  LET lost == [status |-> 0, result |-> "none"]
  IN  CASE s.late /\ Call(s.op).short -> {[applied |-> FALSE, resp |-> lost]}
        [] ~(s.late /\ Call(s.op).short) /\ s.host \in Down ->
             {[applied |-> a, resp |-> lost] : a \in BOOLEAN}
        [] ~(s.late /\ Call(s.op).short) /\ s.host \notin Down ->
             IF s.token = None \/ ~Accepted(s.host, s.token)
               THEN {[applied |-> FALSE, resp |-> [status |-> 401, result |-> "fail"]]}
               ELSE {[applied |-> TRUE, resp |-> [status |-> 200, result |-> "Success"]]}
                    \cup {[applied |-> FALSE, resp |-> r] : r \in Refusals}

Do(t) ==
  /\ th[t].at = "send"
  /\ \E o \in Outcomes(th[t]) :
       LET call == Call(th[t].op)
       IN  th' = [th EXCEPT ![t] = [at |-> "done", host |-> th[t].host, op |-> th[t].op,
                                    applied |-> o.applied,
                                    err |-> CallFails(call, Verdict(call.method, o.resp))]]
  /\ UNCHANGED <<clock, tok, lock, issued, ends>>

(* Refreshes and waiting for the mutex are short against a unit of time.     *)
Tick ==
  /\ clock < MaxClock /\ clock' = clock + 1
  /\ LateClients \/ \A h \in Host : tok[h] # None
  /\ \A t \in Thread : th[t].at \notin {"lock", "refresh"} /\ (th[t].at = "send" => th[t].age < MaxDelay)
  /\ th' = [t \in Thread |-> IF th[t].at = "send" THEN Sending(th[t], th[t].late, th[t].token, th[t].age + 1)
                            ELSE th[t]]
  /\ UNCHANGED <<tok, lock, issued, ends>>

Restart ==
  /\ Restarts
  /\ tok' = [h \in Host |-> None] /\ lock' = None
  /\ th' = [t \in Thread |-> Idle]
  /\ UNCHANGED <<clock, issued, ends>>

Step(t) == GetAccessToken(t) \/ RefreshTokenForHost(t) \/ RefreshFails(t) \/ Do(t)

Next ==
  \/ \E h \in Host : NewLoxiClient(h)
  \/ \E t \in Thread : NewLoxiRequest(t) \/ Step(t)
  \/ Tick \/ Restart

Spec == Init /\ [][Next]_vars

(* A mutex is handed over in the end, a refresh ends by its deadline and a   *)
(* request by its own.                                                       *)
FairSpec ==
  /\ Spec
  /\ \A t \in Thread : /\ SF_vars(GetAccessToken(t)) /\ WF_vars(RefreshFails(t))
                       /\ WF_vars(Do(t))

-----------------------------------------------------------------------------
TypeOK ==
  /\ clock \in 0..MaxClock
  /\ lock \in Thread \cup {None}
  /\ issued \in [Host -> 0..MaxIssued]
  /\ \A h \in Host : tok[h] = None \/ (tok[h].id \in 0..MaxIssued /\ tok[h].exp \in Nat)
  /\ \A t \in Thread : th[t].at \in {"idle", "lock", "refresh", "send", "done"}

(* A token that is on its way with a request is still accepted when it       *)
(* arrives: GetAccessToken refreshes in time.                                *)
TokenAccepted ==
  \A t \in Thread : th[t].at = "send" /\ th[t].token # None =>
    clock < ends[th[t].host][th[t].token]

(* A refresh presents the host's latest token, although all threads share    *)
(* it: no one refreshes with a token another thread has just replaced.       *)
RefreshPresentsLatest ==
  \A t \in Thread : th[t].at = "refresh" => th[t].cur = issued[th[t].host]

(* A health check fails exactly when its own instance does not answer.       *)
HealthIsOwn ==
  \A t \in Thread : th[t].at = "done" /\ th[t].op = "health" => (th[t].err <=> th[t].host \in Down)

(* A call that changes an instance and returns no error has changed it.      *)
SuccessMeansApplied ==
  \A t \in Thread : th[t].at = "done" /\ Call(th[t].op).method # "GET" /\ ~th[t].err => th[t].applied

(* Every request ends, whichever token endpoints hang.                       *)
RequestsEnd == \A t \in Thread : th[t].at = "lock" ~> th[t].at \in {"done", "idle"}
=============================================================================
