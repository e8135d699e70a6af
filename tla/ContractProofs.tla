---------------------------- MODULE ContractProofs ----------------------------
(***************************************************************************)
(* What the managers rely on: the promises of an IP pool to its users, of   *)
(* the informer factories to their callers, and of the loxilb API client to *)
(* the threads that send requests.  Each is proved of its own module, for   *)
(* any constants.                                                           *)
(***************************************************************************)
EXTENDS IPPoolUsers, InformerFactory, Requests, TLAPS

(* The IP pool. *)

(* A pool that is not shared reports success for an address that is taken   *)
(* (ReserveIPAddr drops the error), so its promise is made only to users    *)
(* that do not ask for a particular address.                                *)
ReportsErrors == Shared \/ Reserver = {}

PoolInv == UsersTypeOK /\ HoldingsAreGrants /\ GrantsDisjoint

(* The identifiers the pool's methods use are identifiers, and what they    *)
(* answer depends on Free alone.                                            *)
LEMMA IdentType ==
  ASSUME NEW port \in Port, NEW ip
  PROVE  NewIdent(port) \in Ident /\ ReservedIdent(ip, port) \in Ident
BY DEF NewIdent, ReservedIdent, IPAMIdent, Ident

(* A grant of what was free keeps the grants apart and recorded. *)
LEMMA GrantKeepsInv ==
  ASSUME PoolInv, NEW u \in User, NEW ip \in PoolIP, NEW ident \in Ident,
         Free(ip, ident),
         held' = held \cup {<<ip, ident>>},
         granted' = granted \cup {[user |-> u, ip |-> ip, ident |-> ident]}
  PROVE  PoolInv'
<1> DEFINE n == [user |-> u, ip |-> ip, ident |-> ident]
<1>0. /\ n \in Grant /\ n.ip = ip /\ n.ident = ident
      /\ granted' = granted \cup {n}
  BY IPPoolAssumption DEF Grant
<1> HIDE DEF n
<1>1. UsersTypeOK'
  BY <1>0 DEF PoolInv, UsersTypeOK, PoolTypeOK
<1>2. HoldingsAreGrants'
  BY <1>0 DEF PoolInv, HoldingsAreGrants
<1>3. ASSUME NEW g \in granted
      PROVE  ~Clash(g, n) /\ ~Clash(n, g)
  <2>1. <<g.ip, g.ident>> \in held /\ g.ident \in Ident
    BY DEF PoolInv, HoldingsAreGrants, UsersTypeOK, Grant
  <2>2. CASE ident = NoIdent
    BY <1>0, <2>1, <2>2 DEF Clash, Free
  <2>3. CASE ident # NoIdent
    BY <1>0, <2>1, <2>3 DEF Clash, Free
  <2> QED BY <2>2, <2>3
<1>4. GrantsDisjoint'
  BY <1>0, <1>3 DEF PoolInv, GrantsDisjoint, Clash
<1> QED BY <1>1, <1>2, <1>4 DEF PoolInv

(* Every call keeps the invariant. *)
LEMMA StepKeepsInv ==
  ASSUME ReportsErrors, PoolInv, UsersNext
  PROVE  PoolInv'
<1>1. ASSUME NEW u \in User, NEW port \in Port, GetNew(u, port)
      PROVE  PoolInv'
  BY <1>1, GrantKeepsInv DEF GetNew, GetNewIPAddr
<1>2. ASSUME NEW u \in Reserver, NEW ip \in IP, NEW port \in Port,
             Reserve(u, ip, port)
      PROVE  PoolInv'
  <2>1. PICK ident \in Ident :
          /\ CheckAndReserveIP(ip, port, ident)
          /\ granted' = IF ReserveIPAddrOK(ip, port)
               THEN granted \cup {[user |-> u, ip |-> ip, ident |-> ident]}
               ELSE granted
    BY <1>2, Zenon DEF Reserve
  <2>2. Shared /\ u \in User
    BY UserAssumption DEF ReportsErrors
  <2>3. CASE ReserveIPAddrOK(ip, port)
    BY <2>1, <2>2, <2>3, GrantKeepsInv
      DEF ReserveIPAddrOK, CheckAndReserveIP, Contains
  <2>4. CASE ~ReserveIPAddrOK(ip, port)
    <3>1. held' = held /\ granted' = granted
      BY <2>1, <2>2, <2>4 DEF ReserveIPAddrOK, CheckAndReserveIP
    <3> QED BY <3>1 DEF PoolInv, UsersTypeOK, PoolTypeOK, HoldingsAreGrants,
                        GrantsDisjoint
  <2> QED BY <2>3, <2>4
<1>3. ASSUME NEW g \in granted, Return(g)
      PROVE  PoolInv'
  <2>0. <<g.ip, g.ident>> \in held
    BY DEF PoolInv, HoldingsAreGrants
  <2>1. <<g.ip, g.ident>> \in held /\ g.ip \in PoolIP
    BY <2>0 DEF PoolInv, UsersTypeOK, PoolTypeOK
  <2>2. held' = held \ {<<g.ip, g.ident>>} /\ granted' = granted \ {g}
    BY <1>3, <2>1 DEF Return, ReturnIPAddr, AfterReturn, Contains
  <2>3. \A h \in granted : h # g => <<h.ip, h.ident>> # <<g.ip, g.ident>>
    BY DEF PoolInv, GrantsDisjoint, Clash
  <2>4. HoldingsAreGrants'
    BY <2>2, <2>3 DEF PoolInv, HoldingsAreGrants
  <2>5. UsersTypeOK' /\ GrantsDisjoint'
    BY <2>2 DEF PoolInv, UsersTypeOK, PoolTypeOK, GrantsDisjoint
  <2> QED BY <2>4, <2>5 DEF PoolInv
<1> QED BY <1>1, <1>2, <1>3 DEF UsersNext

(* What a pool grants to one user it grants to no other, and its holdings   *)
(* are what it granted, whatever the order of GetNewIPAddr,                 *)
(* CheckAndReserveIP and ReturnIPAddr calls.                                *)
THEOREM PoolIsSafe ==
  ASSUME ReportsErrors
  PROVE  UsersSpec => [](UsersTypeOK /\ GrantsDisjoint /\ HoldingsAreGrants)
<1>1. UsersInit => PoolInv
  BY DEF UsersInit, PoolInv, UsersTypeOK, PoolTypeOK, HoldingsAreGrants, GrantsDisjoint
<1>2. PoolInv /\ [UsersNext]_usersVars => PoolInv'
  <2>1. CASE UNCHANGED usersVars
    BY <2>1 DEF usersVars, PoolInv, UsersTypeOK, PoolTypeOK, HoldingsAreGrants,
                GrantsDisjoint
  <2> QED BY <2>1, StepKeepsInv
<1>3. PoolInv => UsersTypeOK /\ GrantsDisjoint /\ HoldingsAreGrants
  BY DEF PoolInv
<1> QED BY <1>1, <1>2, <1>3, PTL DEF UsersSpec

(* The allocator's holdings are exactly what GetNewIPAddr and                *)
(* CheckAndReserveIP have granted and ReturnIPAddr has not taken back: no     *)
(* address leaks and none is granted that is not held.                       *)
THEOREM PoolAccountIsExact ==
  ASSUME ReportsErrors
  PROVE  UsersSpec => []HoldingsAreGrants
<1>1. UsersTypeOK /\ GrantsDisjoint /\ HoldingsAreGrants => HoldingsAreGrants
  OBVIOUS
<1> QED BY <1>1, PoolIsSafe, PTL

-----------------------------------------------------------------------------
(* The informer factories. *)

FactoriesOK ==
  /\ {DOMAIN informers, DOMAIN started, DOMAIN running, DOMAIN synced, DOMAIN shutting} = {Factory}
  /\ started = [f \in Factory |-> started[f]] /\ running = [f \in Factory |-> running[f]]
  /\ informers = [f \in Factory |-> informers[f]] /\ synced = [f \in Factory |-> synced[f]]
  /\ shutting \in [Factory -> BOOLEAN]
  /\ stopped \in BOOLEAN
  /\ DOMAIN pc = Caller /\ pc = [c \in Caller |-> pc[c]]

(* What a caller was told is still so: the flag that keeps new goroutines     *)
(* away is up for whoever waits for a shutdown or has come out of one, and    *)
(* whoever waits for caches has ticked off only complete ones.                *)
Told(c) ==
  LET s == pc[c] IN
  /\ s.op \in {"shutdown", "down", "wait", "answered"} => s.f \in Factory
  /\ s.op \in {"shutdown", "down"} => shutting[s.f]
  /\ s.op = "down" => running[s.f] = {}
  /\ s.op = "wait" /\ ~stopped => s.all = s.todo \cup s.ok /\ s.ok \subseteq synced[s.f]
  /\ s.op = "answered" /\ ~stopped => s.ok = s.all /\ s.all \subseteq synced[s.f]

FactoryInv == FactoriesOK /\ \A c \in Caller : Told(c)

LEMMA FactoryInitially == FactoriesInit => FactoryInv
<1> SUFFICES ASSUME FactoriesInit PROVE FactoryInv
  OBVIOUS
<1>1. FactoriesOK
  BY Zenon DEF FactoriesInit, FactoriesOK
<1>2. \A c \in Caller : Told(c)
  BY DEF FactoriesInit, Told, NoCall
<1> QED BY <1>1, <1>2 DEF FactoryInv

LEMMA InformerForKeeps ==
  ASSUME FactoryInv, NEW f \in Factory, NEW t, InformerFor(f, t)  PROVE FactoryInv'
<1>1. FactoriesOK'
  BY Zenon DEF FactoryInv, FactoriesOK, InformerFor
<1>2. \A c \in Caller : Told(c)'
  BY DEF FactoryInv, Told, InformerFor
<1> QED BY <1>1, <1>2 DEF FactoryInv

LEMMA StartKeeps ==
  ASSUME FactoryInv, NEW f \in Factory, Start(f)  PROVE FactoryInv'
<1>1. FactoriesOK'
  BY Zenon DEF FactoryInv, FactoriesOK, Start
<1>2. ASSUME NEW c \in Caller PROVE Told(c)'
  <2>0. Told(c) /\ UNCHANGED <<pc, shutting, synced, stopped>>
    BY DEF FactoryInv, Start
  <2>1. pc[c].op = "down" => running'[pc[c].f] = {}
    <3>1. pc[c].op = "down" => pc[c].f # f
      BY <2>0 DEF Told, Start
    <3> QED BY <2>0, <3>1 DEF Told, Start, FactoryInv, FactoriesOK
  <2> QED BY <2>0, <2>1 DEF Told
<1> QED BY <1>1, <1>2 DEF FactoryInv

LEMMA ShutdownKeeps ==
  ASSUME FactoryInv, NEW f \in Factory, NEW c \in Caller, Shutdown(f, c)  PROVE FactoryInv'
<1>1. FactoriesOK'
  BY DEF FactoryInv, FactoriesOK, Shutdown
<1>2. ASSUME NEW d \in Caller PROVE Told(d)'
  <2>0. Told(d) /\ UNCHANGED <<running, synced, stopped>>
    BY DEF FactoryInv, Shutdown
  <2>1. \A g \in Factory : shutting'[g] <=> shutting[g] \/ g = f
    BY DEF Shutdown, FactoryInv, FactoriesOK
  <2>2. CASE d = c
    <3>1. pc'[d] = [op |-> "shutdown", f |-> f]
      BY <2>2 DEF Shutdown, FactoryInv, FactoriesOK
    <3> QED BY <3>1, <2>1 DEF Told
  <2>3. CASE d # c
    <3>1. pc'[d] = pc[d]
      BY <2>3 DEF Shutdown, FactoryInv, FactoriesOK
    <3> QED BY <3>1, <2>0, <2>1 DEF Told
  <2> QED BY <2>2, <2>3
<1> QED BY <1>1, <1>2 DEF FactoryInv

(* The steps of one caller c that leave the factories alone. *)
LEMMA CallerKeeps ==
  ASSUME FactoryInv, NEW c \in Caller, NEW s, pc' = [pc EXCEPT ![c] = s],
         UNCHANGED <<factories, stopped>>, Told(c)'
  PROVE  FactoryInv'
<1>1. FactoriesOK'
  BY DEF FactoryInv, FactoriesOK, factories
<1>2. ASSUME NEW d \in Caller, d # c PROVE Told(d)'
  <2>1. pc'[d] = pc[d]
    BY <1>2 DEF FactoryInv, FactoriesOK
  <2> QED BY <2>1 DEF FactoryInv, Told, factories
<1> QED BY <1>1, <1>2 DEF FactoryInv

LEMMA ShutdownReturnsKeeps ==
  ASSUME FactoryInv, NEW c \in Caller, ShutdownReturns(c)  PROVE FactoryInv'
<1>1. pc'[c] = [op |-> "down", f |-> pc[c].f]
  BY DEF ShutdownReturns, FactoryInv, FactoriesOK
<1>2. pc[c].f \in Factory /\ shutting[pc[c].f] /\ running[pc[c].f] = {}
  BY DEF FactoryInv, Told, ShutdownReturns
<1>3. UNCHANGED <<running, synced, shutting, stopped>>
  BY DEF ShutdownReturns, factories
<1>4. pc'[c].op = "down" /\ pc'[c].f = pc[c].f
  BY <1>1
<1>5. shutting'[pc'[c].f] /\ running'[pc'[c].f] = {} /\ pc'[c].f \in Factory
  BY <1>2, <1>3, <1>4
<1>6. Told(c)'
  BY <1>4, <1>5 DEF Told
<1> QED BY <1>6, CallerKeeps, Zenon DEF ShutdownReturns

LEMMA WaitForCacheSyncKeeps ==
  ASSUME FactoryInv, NEW f \in Factory, NEW c \in Caller, WaitForCacheSync(f, c)  PROVE FactoryInv'
<1>1. pc'[c] = [op |-> "wait", f |-> f, all |-> StartedInformers(f), todo |-> StartedInformers(f), ok |-> {}]
  BY DEF WaitForCacheSync, FactoryInv, FactoriesOK
<1>2. Told(c)'
  BY <1>1 DEF Told
<1> QED BY <1>2, CallerKeeps, Zenon DEF WaitForCacheSync

LEMMA WaitOneKeeps ==
  ASSUME FactoryInv, NEW c \in Caller, WaitOne(c)  PROVE FactoryInv'
<1>1. PICK t \in pc[c].todo :
        /\ WaitedFor(c, t)
        /\ pc' = [pc EXCEPT ![c] = [op |-> "wait", f |-> pc[c].f, all |-> pc[c].all,
                                    todo |-> pc[c].todo \ {t},
                                    ok |-> IF stopped /\ t \notin synced[pc[c].f] THEN pc[c].ok
                                                                                ELSE pc[c].ok \cup {t}]]
  BY Zenon DEF WaitOne
<1>2. Told(c) /\ pc[c].op = "wait" /\ UNCHANGED <<factories, stopped>>
  BY DEF FactoryInv, WaitOne
<1>3. /\ pc'[c].op = "wait" /\ pc'[c].f = pc[c].f /\ pc'[c].all = pc[c].all
      /\ pc'[c].todo = pc[c].todo \ {t}
      /\ ~stopped => pc'[c].ok = pc[c].ok \cup {t} /\ t \in synced[pc[c].f]
  BY <1>1 DEF FactoryInv, FactoriesOK, WaitedFor
<1>4. Told(c)'
  <2>1. ~stopped => pc'[c].all = pc'[c].todo \cup pc'[c].ok
    BY <1>1, <1>2, <1>3 DEF Told
  <2>2. ~stopped => pc'[c].ok \subseteq synced[pc[c].f]
    BY <1>2, <1>3 DEF Told
  <2> QED BY <1>2, <1>3, <2>1, <2>2 DEF Told, factories
<1> QED BY <1>1, <1>2, <1>4, CallerKeeps, Zenon

LEMMA WaitReturnsKeeps ==
  ASSUME FactoryInv, NEW c \in Caller, WaitReturns(c)  PROVE FactoryInv'
<1>1. pc'[c] = [op |-> "answered", f |-> pc[c].f, all |-> pc[c].all, ok |-> pc[c].ok]
  BY DEF WaitReturns, FactoryInv, FactoriesOK
<1>2. /\ pc[c].f \in Factory
      /\ ~stopped => pc[c].ok = pc[c].all /\ pc[c].ok \subseteq synced[pc[c].f]
  BY Zenon DEF FactoryInv, Told, WaitReturns
<1>3. UNCHANGED <<running, synced, shutting, stopped>>
  BY DEF WaitReturns, factories
<1>4. Told(c)'
  BY <1>1, <1>2, <1>3 DEF Told
<1> QED BY <1>4, CallerKeeps, Zenon DEF WaitReturns

LEMMA InformerSteps ==
  ASSUME FactoryInv, NEW f \in Factory, CacheSyncs(f) \/ RunReturns(f)  PROVE FactoryInv'
<1>1. FactoriesOK'
  BY DEF FactoryInv, FactoriesOK, CacheSyncs, RunReturns
<1>2. \A g \in Factory : synced[g] \subseteq synced'[g] /\ running'[g] \subseteq running[g]
  BY DEF FactoryInv, FactoriesOK, CacheSyncs, RunReturns
<1>3. UNCHANGED <<pc, shutting, stopped>>
  BY DEF CacheSyncs, RunReturns
<1>4. ASSUME NEW c \in Caller PROVE Told(c)'
  <2>1. Told(c)
    BY DEF FactoryInv
  <2> QED BY <2>1, <1>2, <1>3 DEF Told
<1> QED BY <1>1, <1>4 DEF FactoryInv

LEMMA CloseKeeps == ASSUME FactoryInv, Close  PROVE FactoryInv'
<1>1. FactoriesOK'
  BY DEF FactoryInv, FactoriesOK, Close, factories
<1>2. \A c \in Caller : Told(c)'
  BY DEF FactoryInv, Told, Close, factories
<1> QED BY <1>1, <1>2 DEF FactoryInv

LEMMA FactoryInvariant == FactoriesSpec => []FactoryInv
<1>1. FactoryInv /\ [FactoriesNext]_factoriesVars => FactoryInv'
  <2> SUFFICES ASSUME FactoryInv, [FactoriesNext]_factoriesVars PROVE FactoryInv'
    OBVIOUS
  <2>1. CASE UNCHANGED factoriesVars
    <3>1. FactoriesOK'
      BY <2>1 DEF factoriesVars, factories, FactoryInv, FactoriesOK
    <3>2. \A c \in Caller : Told(c)'
      BY <2>1 DEF factoriesVars, factories, FactoryInv, Told
    <3> QED BY <3>1, <3>2 DEF FactoryInv
  <2>2. CASE FactoriesNext
    BY <2>2, InformerForKeeps, StartKeeps, ShutdownKeeps, ShutdownReturnsKeeps, WaitForCacheSyncKeeps,
       WaitOneKeeps, WaitReturnsKeeps, InformerSteps, CloseKeeps DEF FactoriesNext
  <2> QED BY <2>1, <2>2
<1> QED BY <1>1, FactoryInitially, PTL DEF FactoriesSpec

(* After Shutdown has returned no goroutine of the factory runs, ever again:   *)
(* the flag shuttingDown is set before the wait and Start reads it.           *)
THEOREM ShutdownFinal == FactoriesSpec => []ShutdownIsFinal
<1>1. FactoryInv => ShutdownIsFinal
  BY DEF FactoryInv, Told, ShutdownIsFinal
<1> QED BY <1>1, FactoryInvariant, PTL

(* Unless the agent stops, WaitForCacheSync says yes for each informer it found *)
(* started, and says so only of complete caches.                              *)
THEOREM AnswersTrue == FactoriesSpec => []SyncAnswerTrue
<1>1. FactoryInv => SyncAnswerTrue
  BY DEF FactoryInv, Told, SyncAnswerTrue
<1> QED BY <1>1, FactoryInvariant, PTL

-----------------------------------------------------------------------------
(* The token cache and the requests of pkg/api. *)

(* Clients are made before time passes, the agent does not restart, answers  *)
(* to refreshes are not lost, and a request arrives within the margin.       *)
Prompt ==
  /\ ~LateClients /\ ~Restarts /\ ~Lossy
  /\ MaxDelay <= Margin /\ MaxDelay < Life

Ids == 0..MaxIssued

TokensOK ==
  /\ clock \in Nat
  /\ issued \in [Host -> Ids]
  /\ ends \in [Host -> [Ids -> Nat]]
  /\ tok \in [Host -> {None} \cup [id : Nat, exp : Nat]]
  /\ DOMAIN th = Thread /\ th = [t \in Thread |-> th[t]]

(* The agent knows the latest token of a host and when it ends. *)
Known(h) ==
  IF tok[h] = None THEN clock = 0 /\ issued[h] = 0 /\ ends[h][0] = Life
                   ELSE tok[h].id = issued[h] /\ tok[h].exp = ends[h][issued[h]]

(* A thread that uses a host has its token; the one that refreshes has the    *)
(* mutex and the latest token; what is on its way arrives in time.            *)
InTime(t) ==
  LET s == th[t] IN
  /\ s.at \in {"lock", "refresh", "send"} => s.host \in Host /\ tok[s.host] # None
  /\ s.at = "refresh" => lock = t /\ s.cur = issued[s.host]
  /\ s.at = "send" =>
       /\ s.age \in 0..MaxDelay
       /\ s.token # None => /\ s.token \in Ids /\ s.token <= issued[s.host]
                            /\ clock + MaxDelay < ends[s.host][s.token] + s.age

IInv == TokensOK /\ (\A h \in Host : Known(h)) /\ (\A t \in Thread : InTime(t))

LEMMA InitEstablishes == ASSUME Prompt PROVE Init => IInv
  BY RequestsAssumption DEF Init, IInv, TokensOK, Known, InTime, Idle, Ids

LEMMA NewLoxiClientKeeps ==
  ASSUME Prompt, IInv, NEW h \in Host, NewLoxiClient(h)  PROVE IInv'
<1>1. TokensOK'
  BY RequestsAssumption DEF IInv, TokensOK, NewLoxiClient, LoadTokenForHost
<1>2. ASSUME NEW g \in Host PROVE Known(g)'
  BY RequestsAssumption DEF IInv, TokensOK, NewLoxiClient, LoadTokenForHost, Known
<1>3. ASSUME NEW t \in Thread PROVE InTime(t)'
  BY RequestsAssumption DEF IInv, TokensOK, NewLoxiClient, LoadTokenForHost, InTime
<1> QED BY <1>1, <1>2, <1>3 DEF IInv

LEMMA NewLoxiRequestKeeps ==
  ASSUME Prompt, IInv, NEW t \in Thread, NewLoxiRequest(t)  PROVE IInv'
<1>1. TokensOK'
  BY Zenon DEF IInv, TokensOK, NewLoxiRequest
<1>2. \A g \in Host : Known(g)'
  BY DEF IInv, NewLoxiRequest, Known
<1>3. ASSUME NEW u \in Thread PROVE InTime(u)'
  <2>1. CASE u = t
    BY <2>1 DEF IInv, TokensOK, NewLoxiRequest, Locking, InTime
  <2>2. CASE u # t
    <3>1. th'[u] = th[u]
      BY <2>2 DEF IInv, TokensOK, NewLoxiRequest
    <3> QED BY <3>1, Zenon DEF IInv, NewLoxiRequest, InTime
  <2> QED BY <2>1, <2>2
<1> QED BY <1>1, <1>2, <1>3 DEF IInv

LEMMA GetAccessTokenKeeps ==
  ASSUME Prompt, IInv, NEW t \in Thread, GetAccessToken(t)  PROVE IInv'
<1> DEFINE s == th[t]
           k == tok[s.host]
<1>0. s.at = "lock" /\ s.host \in Host /\ k # None /\ InTime(t) /\ Known(s.host)
  BY DEF IInv, InTime, GetAccessToken, TakesLock
<1>1. TokensOK'
  BY Zenon DEF IInv, TokensOK, GetAccessToken
<1>2. \A g \in Host : Known(g)'
  BY DEF IInv, GetAccessToken, Known
<1>3. k.id = issued[s.host] /\ k.exp = ends[s.host][issued[s.host]] /\ issued[s.host] \in Ids
  BY <1>0 DEF IInv, TokensOK, Known
<1>4. InTime(t)'
  <2>1. CASE Valid(k)
    <3>1. th'[t] = Sending(s, s.late, k.id, 0)
      BY <2>1 DEF GetAccessToken, IInv, TokensOK
    <3>2. clock + MaxDelay < ends[s.host][k.id]
      <4>1. clock \in Nat /\ ends[s.host][k.id] \in Nat
        BY <1>0, <1>3 DEF IInv, TokensOK
      <4> QED BY <4>1, <2>1, <1>3, RequestsAssumption DEF Valid, Prompt
    <3>3. UNCHANGED <<clock, tok, issued, ends>>
      BY DEF GetAccessToken
    <3>4. ends[s.host][k.id] \in Nat
      BY <1>0, <1>3 DEF IInv, TokensOK
    <3> QED BY <3>1, <3>2, <3>3, <3>4, <1>0, <1>3, RequestsAssumption DEF InTime, Sending, Ids
  <2>2. CASE ~Valid(k) /\ s.host \notin Refreshable
    <3>1. th'[t] = Sending(s, s.late, None, 0)
      BY <2>2, Zenon DEF GetAccessToken, IInv, TokensOK
    <3> QED BY <3>1, <1>0, RequestsAssumption DEF InTime, Sending, GetAccessToken
  <2>3. CASE ~Valid(k) /\ s.host \in Refreshable
    <3>1. th'[t] = [at |-> "refresh", host |-> s.host, op |-> s.op, late |-> s.late, cur |-> k.id]
          /\ lock' = t
      BY <2>3, Zenon DEF GetAccessToken, IInv, TokensOK
    <3> QED BY <3>1, <1>0, <1>3 DEF InTime, GetAccessToken
  <2> QED BY <2>1, <2>2, <2>3
<1>5. ASSUME NEW u \in Thread, u # t PROVE InTime(u)'
  <2>1. th'[u] = th[u] /\ UNCHANGED <<clock, tok, issued, ends>>
    BY <1>5, Zenon DEF GetAccessToken, IInv, TokensOK
  <2>2. th[u].at # "refresh"
    BY RequestsAssumption DEF IInv, InTime, GetAccessToken, TakesLock
  <2> QED BY <2>1, <2>2 DEF IInv, InTime
<1> QED BY <1>1, <1>2, <1>4, <1>5 DEF IInv

LEMMA RefreshTokenForHostKeeps ==
  ASSUME Prompt, IInv, NEW t \in Thread, RefreshTokenForHost(t)  PROVE IInv'
<1> DEFINE s == th[t]
           h == s.host
           n == issued[h] + 1
<1>0. s.at = "refresh" /\ h \in Host /\ tok[h] # None /\ lock = t
  BY DEF IInv, InTime, RefreshTokenForHost
<1>1. issued[h] \in Ids /\ n \in Ids /\ n \in Nat /\ clock \in Nat /\ clock + Life \in Nat
  BY <1>0, RequestsAssumption DEF IInv, TokensOK, RefreshTokenForHost, Issue, Ids
<1>2. /\ issued' = [issued EXCEPT ![h] = n]
      /\ ends' = [ends EXCEPT ![h] = [ends[h] EXCEPT ![n] = clock + Life]]
      /\ tok' = [tok EXCEPT ![h] = [id |-> n, exp |-> clock + Life]]
      /\ th' = [th EXCEPT ![t] = Sending(s, s.late, n, 0)]
      /\ lock' = None /\ clock' = clock
  BY DEF RefreshTokenForHost, Issue
<1> HIDE DEF n
<1>3. TokensOK'
  BY <1>0, <1>1, <1>2, Zenon DEF IInv, TokensOK
<1>4. /\ issued'[h] = n /\ ends'[h][n] = clock + Life
      /\ tok'[h] = [id |-> n, exp |-> clock + Life] /\ tok'[h] # None
      /\ th'[t] = Sending(s, s.late, n, 0)
  BY <1>0, <1>1, <1>2, RequestsAssumption DEF IInv, TokensOK
<1>5. \A g \in Host : g # h => issued'[g] = issued[g] /\ ends'[g] = ends[g] /\ tok'[g] = tok[g]
  BY <1>0, <1>2 DEF IInv, TokensOK
<1>6. \A i \in Ids : i # n => ends'[h][i] = ends[h][i]
  BY <1>0, <1>1, <1>2 DEF IInv, TokensOK
<1>7. ASSUME NEW g \in Host PROVE Known(g)'
  <2>1. CASE g = h
    BY <2>1, <1>4 DEF Known
  <2>2. CASE g # h
    BY <2>2, <1>2, <1>5 DEF IInv, Known
  <2> QED BY <2>1, <2>2
<1>8. InTime(t)'
  BY <1>0, <1>1, <1>2, <1>4, RequestsAssumption DEF InTime, Sending, Prompt, Ids
<1>9. ASSUME NEW u \in Thread, u # t PROVE InTime(u)'
  <2>1. th'[u] = th[u] /\ InTime(u)
    BY <1>2, <1>9 DEF IInv, TokensOK
  <2>2. th[u].at # "refresh"
    BY <1>0, <1>9 DEF IInv, InTime
  <2>3. CASE th[u].host = h
    <3>1. ASSUME th[u].at = "send", th[u].token # None
          PROVE  /\ ends'[h][th[u].token] = ends[h][th[u].token]
                 /\ th[u].token \in Ids /\ th[u].token <= issued'[h]
      <4>1. th[u].token \in Ids /\ th[u].token <= issued[h]
        BY <2>1, <2>3, <3>1 DEF InTime
      <4>2. th[u].token \in Nat /\ issued[h] \in Nat /\ n = issued[h] + 1
        BY <1>1, <4>1 DEF n, Ids
      <4>3. th[u].token # n /\ th[u].token <= n
        BY <4>1, <4>2
      <4> QED BY <1>4, <1>6, <4>1, <4>3
    <3> QED BY <2>1, <2>2, <2>3, <3>1, <1>0, <1>2, <1>4 DEF InTime
  <2>4. CASE th[u].host # h
    BY <2>1, <2>2, <2>4, <1>2, <1>5 DEF InTime
  <2> QED BY <2>3, <2>4
<1> QED BY <1>3, <1>7, <1>8, <1>9 DEF IInv

LEMMA RefreshFailsKeeps ==
  ASSUME Prompt, IInv, NEW t \in Thread, RefreshFails(t)  PROVE IInv'
<1>0. th[t].at = "refresh" /\ th[t].host \in Host /\ tok[th[t].host] # None /\ lock = t
  BY DEF IInv, InTime, RefreshFails
<1>1. UNCHANGED <<clock, tok, issued, ends>>
  BY DEF RefreshFails, Prompt
<1>2. TokensOK'
  BY <1>1 DEF IInv, TokensOK, RefreshFails
<1>3. \A g \in Host : Known(g)'
  BY <1>1 DEF IInv, Known
<1>4. ASSUME NEW u \in Thread PROVE InTime(u)'
  <2>0. InTime(u)
    BY DEF IInv
  <2>1. CASE u = t
    <3>1. \E late : th'[u] = Sending(th[t], late, None, 0)
      BY <2>1 DEF RefreshFails
    <3> QED BY <3>1, <2>1, <1>0, <1>1, RequestsAssumption DEF InTime, Sending
  <2>2. CASE u # t /\ th[u].at = "lock"
    <3>1. \E late : th'[u] = Locking(th[u].host, th[u].op, late)
      BY <2>2 DEF RefreshFails
    <3> QED BY <3>1, <2>0, <2>2, <1>1 DEF InTime, Locking
  <2>3. CASE u # t /\ th[u].at # "lock"
    <3>1. th'[u] = th[u]
      BY <2>3 DEF RefreshFails
    <3>2. th[u].at # "refresh"
      BY <2>0, <2>3, <1>0 DEF InTime
    <3> QED BY <3>1, <3>2, <2>0, <1>1 DEF InTime
  <2> QED BY <2>1, <2>2, <2>3
<1> QED BY <1>2, <1>3, <1>4 DEF IInv

LEMMA DoKeeps ==
  ASSUME Prompt, IInv, NEW t \in Thread, Do(t)  PROVE IInv'
<1>1. UNCHANGED <<clock, tok, lock, issued, ends>>
  BY DEF Do
<1>2. TokensOK'
  BY <1>1, Zenon DEF IInv, TokensOK, Do
<1>3. \A g \in Host : Known(g)'
  BY <1>1 DEF IInv, Known
<1>4. ASSUME NEW u \in Thread PROVE InTime(u)'
  <2>1. CASE u = t
    <3>1. th'[u].at = "done"
      BY <2>1 DEF Do, IInv, TokensOK
    <3> QED BY <3>1 DEF InTime
  <2>2. CASE u # t
    <3>1. th'[u] = th[u]
      BY <2>2 DEF Do, IInv, TokensOK
    <3> QED BY <3>1, <1>1 DEF InTime, IInv
  <2> QED BY <2>1, <2>2
<1> QED BY <1>2, <1>3, <1>4 DEF IInv

LEMMA TickKeeps ==
  ASSUME Prompt, IInv, Tick  PROVE IInv'
<1>1. UNCHANGED <<tok, lock, issued, ends>> /\ clock' = clock + 1 /\ clock \in Nat
  BY DEF Tick, IInv, TokensOK
<1>2. TokensOK'
  BY <1>1 DEF IInv, TokensOK, Tick
<1>3. \A g \in Host : Known(g)'
  BY <1>1 DEF IInv, Known, Tick, Prompt
<1>4. ASSUME NEW u \in Thread PROVE InTime(u)'
  <2>0. InTime(u)
    BY DEF IInv
  <2>1. CASE th[u].at = "send"
    <3>1. th'[u] = Sending(th[u], th[u].late, th[u].token, th[u].age + 1) /\ th[u].age < MaxDelay
      BY <2>1 DEF Tick
    <3>2. th[u].host \in Host /\ tok[th[u].host] # None /\ th[u].age \in 0..MaxDelay
      BY <2>0, <2>1 DEF InTime
    <3>3. th[u].token # None => ends[th[u].host][th[u].token] \in Nat
      BY <2>0, <2>1, <3>2 DEF InTime, IInv, TokensOK
    <3> QED BY <2>0, <2>1, <3>1, <3>2, <3>3, <1>1, RequestsAssumption DEF InTime, Sending
  <2>2. CASE th[u].at # "send"
    <3>1. th'[u] = th[u] /\ th[u].at \notin {"lock", "refresh"}
      BY <2>2 DEF Tick
    <3> QED BY <3>1, <2>2 DEF InTime
  <2> QED BY <2>1, <2>2
<1> QED BY <1>2, <1>3, <1>4 DEF IInv

LEMMA StepKeeps ==
  ASSUME Prompt, IInv, [Next]_vars  PROVE IInv'
<1>1. CASE UNCHANGED vars
  BY <1>1 DEF vars, IInv, TokensOK, Known, InTime
<1>2. ~Restart
  BY DEF Prompt, Restart
<1> QED
  BY <1>1, <1>2, NewLoxiClientKeeps, NewLoxiRequestKeeps, GetAccessTokenKeeps,
     RefreshTokenForHostKeeps, RefreshFailsKeeps, DoKeeps, TickKeeps DEF Next, Step

LEMMA InvariantHolds == ASSUME Prompt PROVE Spec => []IInv
<1>1. Init => IInv
  BY InitEstablishes
<1>2. IInv /\ [Next]_vars => IInv'
  BY StepKeeps
<1> QED BY <1>1, <1>2, PTL DEF Spec

(* A token that GetAccessToken hands out is still accepted when the request    *)
(* arrives, for all hosts, threads, lives and margins, if requests arrive      *)
(* within the margin of the refresh.                                          *)
THEOREM TokensInTime == ASSUME Prompt PROVE Spec => []TokenAccepted
<1>1. IInv => TokenAccepted
  <2> SUFFICES ASSUME IInv, NEW t \in Thread, th[t].at = "send", th[t].token # None
               PROVE clock < ends[th[t].host][th[t].token]
    BY DEF TokenAccepted
  <2>1. InTime(t)
    BY DEF IInv
  <2>2. clock \in Nat /\ ends[th[t].host][th[t].token] \in Nat
    BY <2>1 DEF InTime, IInv, TokensOK
  <2> QED BY <2>1, <2>2, RequestsAssumption DEF InTime
<1> QED BY <1>1, InvariantHolds, PTL

(* refreshTokenForHost always presents the host's latest token, however many    *)
(* threads find it about to end at the same time.                             *)
THEOREM RefreshesInTurn == ASSUME Prompt PROVE Spec => []RefreshPresentsLatest
<1>1. IInv => RefreshPresentsLatest
  BY DEF IInv, InTime, RefreshPresentsLatest
<1> QED BY <1>1, InvariantHolds, PTL

(* Where an instance may refuse a call with status 200, the agent makes only    *)
(* calls that look at the result field as well.                               *)
Strict == Refused200 => \A op \in Ops : ~Call(op).lenient

(* A call on its way is one of Ops; one that is done tells the truth.          *)
Honest(s) ==
  /\ s.at \in {"lock", "refresh", "send"} => s.op \in Ops
  /\ s.at = "done" /\ Call(s.op).method # "GET" /\ ~s.err => s.applied

AllHonest ==
  DOMAIN th = Thread /\ th = [t \in Thread |-> th[t]] /\ \A t \in Thread : Honest(th[t])

(* The one answer Do takes for a success, unless the call is lenient, is sent    *)
(* by an instance that has applied the call.                                   *)
LEMMA NoErrorNoRefusal ==
  ASSUME Strict, NEW s, s.op \in Ops, NEW o \in Outcomes(s), Call(s.op).method # "GET",
         ~CallFails(Call(s.op), Verdict(Call(s.op).method, o.resp))
  PROVE  o.applied
<1> DEFINE call == Call(s.op)
           lost == [status |-> 0, result |-> "none"]
<1>1. \/ o.resp = lost
      \/ o.resp = [status |-> 401, result |-> "fail"]
      \/ o = [applied |-> TRUE, resp |-> [status |-> 200, result |-> "Success"]]
      \/ o.resp \in Refusals
  BY DEF Outcomes
<1>2. o.resp \in Refusals => /\ o.resp.result = "fail" /\ o.resp.status \in {200, 500}
                             /\ o.resp.status = 200 => Refused200
  BY DEF Refusals
<1> HIDE DEF call
<1>3. call.method # "GET" /\ ~CallFails(call, Verdict(call.method, o.resp))
  BY DEF call
<1>4. Refused200 => ~call.lenient
  BY DEF Strict, call
<1>5. o.resp.status = 200 /\ (o.resp.result = "Success" \/ call.lenient)
  BY <1>1, <1>2, <1>3, Zenon DEF CallFails, Verdict
<1> QED BY <1>1, <1>2, <1>4, <1>5

LEMMA HonestStep ==
  ASSUME Strict, AllHonest, [Next]_vars  PROVE AllHonest'
<1>1. CASE UNCHANGED vars
  BY <1>1 DEF vars, AllHonest
<1>2. ASSUME NEW t \in Thread, NewLoxiRequest(t)  PROVE AllHonest'
  <2>1. PICK h \in Host, op \in Ops : th' = [th EXCEPT ![t] = Locking(h, op, FALSE)]
    BY <1>2, Zenon DEF NewLoxiRequest
  <2>2. Honest(th'[t])
    BY <2>1 DEF AllHonest, Honest, Locking
  <2> QED BY <2>1, <2>2, Zenon DEF AllHonest
<1>3. ASSUME NEW t \in Thread, GetAccessToken(t)  PROVE AllHonest'
  <2>1. /\ DOMAIN th' = Thread /\ th' = [u \in Thread |-> th'[u]]
        /\ \A u \in Thread \ {t} : th'[u] = th[u]
    BY <1>3, Zenon DEF GetAccessToken, AllHonest
  <2>2. th'[t].at \in {"send", "refresh"} /\ th'[t].op = th[t].op /\ th[t].at = "lock"
    <3> DEFINE k == tok[th[t].host]
    <3>1. CASE Valid(k)
      <4>1. th'[t] = Sending(th[t], th[t].late, k.id, 0)
        BY <1>3, <3>1 DEF GetAccessToken, AllHonest
      <4> QED BY <1>3, <4>1 DEF GetAccessToken, TakesLock, Sending
    <3>2. CASE ~Valid(k) /\ th[t].host \notin Refreshable
      <4>1. th'[t] = Sending(th[t], th[t].late, None, 0)
        BY <1>3, <3>2, Zenon DEF GetAccessToken, AllHonest
      <4> QED BY <1>3, <4>1 DEF GetAccessToken, TakesLock, Sending
    <3>3. CASE ~Valid(k) /\ th[t].host \in Refreshable
      <4>1. th'[t] = [at |-> "refresh", host |-> th[t].host, op |-> th[t].op, late |-> th[t].late,
                      cur |-> k.id]
        BY <1>3, <3>3, Zenon DEF GetAccessToken, AllHonest
      <4> QED BY <1>3, <4>1 DEF GetAccessToken, TakesLock
    <3> QED BY <3>1, <3>2, <3>3
  <2> QED BY <2>1, <2>2 DEF AllHonest, Honest
<1>4. ASSUME NEW t \in Thread, RefreshTokenForHost(t)  PROVE AllHonest'
  BY <1>4 DEF RefreshTokenForHost, AllHonest, Honest, Sending
<1>5. ASSUME NEW t \in Thread, RefreshFails(t)  PROVE AllHonest'
  <2>1. DOMAIN th' = Thread /\ th' = [u \in Thread |-> th'[u]]
    BY <1>5 DEF RefreshFails
  <2>2. ASSUME NEW u \in Thread  PROVE Honest(th'[u])
    <3>1. CASE u = t
      BY <1>5, <3>1 DEF RefreshFails, AllHonest, Honest, Sending
    <3>2. CASE u # t /\ th[u].at = "lock"
      BY <1>5, <3>2 DEF RefreshFails, AllHonest, Honest, Locking
    <3>3. CASE u # t /\ th[u].at # "lock"
      BY <1>5, <3>3 DEF RefreshFails, AllHonest
    <3> QED BY <3>1, <3>2, <3>3
  <2> QED BY <2>1, <2>2 DEF AllHonest
<1>6. ASSUME NEW t \in Thread, Do(t)  PROVE AllHonest'
  <2>1. PICK o \in Outcomes(th[t]) : th' =
          [th EXCEPT ![t] = [at |-> "done", host |-> th[t].host, op |-> th[t].op,
             applied |-> o.applied,
             err |-> CallFails(Call(th[t].op), Verdict(Call(th[t].op).method, o.resp))]]
    BY <1>6, Zenon DEF Do
  <2>2. th[t].op \in Ops
    BY <1>6 DEF Do, AllHonest, Honest
  <2>3. Honest(th'[t])
    BY <2>1, <2>2, NoErrorNoRefusal DEF Honest, AllHonest
  <2> QED BY <2>1, <2>3 DEF AllHonest
<1>7. CASE Tick
  BY <1>7 DEF Tick, AllHonest, Honest, Sending
<1>8. CASE Restart
  BY <1>8 DEF Restart, AllHonest, Honest, Idle
<1>9. ASSUME NEW h \in Host, NewLoxiClient(h)  PROVE AllHonest'
  BY <1>9 DEF NewLoxiClient, AllHonest
<1> QED
  BY <1>1, <1>2, <1>3, <1>4, <1>5, <1>6, <1>7, <1>8, <1>9 DEF Next, Step

(* A call that changes an instance and returns no error has changed it, whatever  *)
(* becomes of tokens, deadlines and instances on the way: validateResponse and     *)
(* the callers of Do never take a refusal, a lost answer or a rejected token for    *)
(* a success.                                                                  *)
THEOREM SuccessIsApplied == ASSUME Strict PROVE Spec => []SuccessMeansApplied
<1>1. Init => AllHonest
  BY DEF Init, AllHonest, Honest, Idle
<1>2. AllHonest /\ [Next]_vars => AllHonest'
  BY HonestStep
<1>3. AllHonest => SuccessMeansApplied
  BY DEF AllHonest, Honest, SuccessMeansApplied
<1> QED BY <1>1, <1>2, <1>3, PTL DEF Spec

=============================================================================
