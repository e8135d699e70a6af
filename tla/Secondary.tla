----------------------------- MODULE Secondary -----------------------------
(***************************************************************************)
(* Secondary addresses (SCTP multi-homing): which pools a service's        *)
(* annotations select, and how addLoadBalancer and deleteLoadBalancer take *)
(* secondary addresses from those pools and hand them back.                *)
(*                                                                         *)
(* One sync of the worker is one step.  A service without an address in    *)
(* its status gets its primary address from the pool "defaultPool"; what   *)
(* happens to primary addresses when an update fails, and with addresses   *)
(* found in a status, is in LoadBalancer.  Secondary addresses are in no   *)
(* status: only lbCache knows them.                                        *)
(***************************************************************************)
EXTENDS Naturals, Sequences, FiniteSets, SequencesExt

CONSTANTS
  Service,
  Ports,       \* service -> its ports, in order
  Pool,        \* pool name -> the set of its addresses
  Annotations, \* what a service may ask for: [pools, ips, v4]
  Port, NoIdent, Shared, None,
  InstallFails,\* all instances may refuse the rules of a new service
  Revises,     \* annotations of an existing service may change
  MaxEdits

VARIABLES
  want,    \* service -> its annotations, or None: deleted
  cache,   \* service -> None or [idents, ip, secs, spools]
  held,    \* pool name -> its allocator's holdings
  rule,    \* service -> None or the secondary addresses of the installed rule
  up,      \* FALSE after klog.Exit
  edits

vars == <<want, cache, held, rule, up, edits>>

-----------------------------------------------------------------------------
(* The pools an annotation names. *)

Known(w) == \A i \in DOMAIN w.pools : w.pools[i] \in DOMAIN Pool

AcceptsBoth(w) == Known(w) /\ (w.pools # <<>> => w.v4)

(* Secondary pools are for IPv4 only, and not together with addresses the   *)
(* user names.                                                              *)
Accepts(w) == AcceptsBoth(w) /\ (w.pools = <<>> \/ w.ips = <<>>)

Default == "defaultPool"

-----------------------------------------------------------------------------
(* Allocations.  H is the holdings of all pools; the results are the sets   *)
(* of what may come out.                                                    *)

IPAMIdentPort(port) == port

(* IPPool's operators, for several pools. *)
IPAMIdent(port) == IF Shared THEN port ELSE NoIdent

Free(H, k, ident) ==
  {ip \in Pool[k] : IF ident = NoIdent THEN \A h \in H[k] : h[1] # ip
                                      ELSE {<<ip, ident>>, <<ip, NoIdent>>} \cap H[k] = {}}

NewIdent(H, k, port) == IF Free(H, k, IPAMIdent(port)) = {} THEN NoIdent ELSE IPAMIdent(port)

(* GetNewIPAddr; nothing at all is its answer nil. *)
New(H, k, port) ==
  LET ident == NewIdent(H, k, port)
  IN  {[ip |-> ip, ident |-> ident, H |-> [H EXCEPT ![k] = @ \cup {<<ip, ident>>}]]
         : ip \in Free(H, k, ident)}

(* ReturnIPAddr, for each holding in S. *)
GiveBack(H, k, S) == [H EXCEPT ![k] = @ \ S]

(* getIngressSecSvcPairs: one address from each pool, for the first port. *)
SecPairs(H, pools, port) ==
  FoldLeft(LAMBDA R, k :
             UNION {{[secs |-> Append(r.secs, a.ip), H |-> a.H] : a \in New(r.H, k, port)} : r \in R},
           {[secs |-> <<>>, H |-> H]}, pools)

(* Address i goes back to pool i, once with the identifier of each of the   *)
(* service's rules.                                                         *)
ReturnSecondaryIPsOne(H, pools, secs, idents) ==
  IF secs = <<>> \/ pools = <<>> THEN H
    ELSE GiveBack(H, pools[1], {<<secs[1], d>> : d \in ToSet(idents)})

ReturnSecondaryIPsWhole(H, pools, secs, idents) ==
  FoldLeft(LAMBDA G, i : GiveBack(G, pools[i], {secs[i]} \X (Port \cup {NoIdent})),
           H, SetToSeq(DOMAIN secs \cap DOMAIN pools))

ReturnSecondaryIPs(H, pools, secs, idents) ==
  FoldLeft(LAMBDA G, i : GiveBack(G, pools[i], {<<secs[i], d>> : d \in ToSet(idents)}),
           H, SetToSeq(DOMAIN secs \cap DOMAIN pools))

(* The identifiers of a service's rules: the pool's answer for the first    *)
(* port, the ports themselves (in a shared pool) for the others.            *)
Idents(s, ident) ==
  [i \in DOMAIN Ports[s] |-> IF i = 1 THEN ident ELSE IPAMIdent(Ports[s][i])]

-----------------------------------------------------------------------------
(* addLoadBalancer. *)

NewEntry(w) == [idents |-> <<>>, ip |-> None, secs |-> <<>>, spools |-> w.pools]

Entry(s) == IF cache[s] = None THEN NewEntry(want[s]) ELSE cache[s]

(* The primary address: from the cache, or new. *)
Primary(s) ==
  IF Entry(s).idents # <<>>
    THEN {[ip |-> Entry(s).ip, idents |-> Entry(s).idents, H |-> held, new |-> FALSE]}
    ELSE {[ip |-> a.ip, idents |-> Idents(s, a.ident), H |-> a.H, new |-> TRUE]
            : a \in New(held, Default, Ports[s][1])}

Syncs(s) == up /\ want[s] # None /\ Accepts(want[s])

UserSecsNever(s) == FALSE

UserSecs(s) == want[s].ips # <<>>

SecsChange(s) == ~UserSecs(s) /\ Len(Entry(s).secs) # Len(want[s].pools)

PoolsMissing(s) == Len(Entry(s).spools) < Len(want[s].pools)

(* The secondary addresses after the sync; a change of their number, and    *)
(* nothing else, makes the service get new ones, from the pools it had when *)
(* it was cached, and the old ones go to the pools it names now.            *)
Secondaries(s, p) ==
  CASE UserSecs(s) ->
         {[secs |-> IF cache[s] = None THEN want[s].ips ELSE Entry(s).secs, H |-> p.H]}
    [] SecsChange(s) ->
         {[secs |-> n.secs,
           H    |-> ReturnSecondaryIPs(n.H, want[s].pools, Entry(s).secs, Entry(s).idents)]
            : n \in SecPairs(p.H, SubSeq(Entry(s).spools, 1, Len(want[s].pools)), Ports[s][1])}
    [] OTHER -> {[secs |-> Entry(s).secs, H |-> p.H]}

Cached(s, p, n) ==
  [ip |-> p.ip, idents |-> p.idents, secs |-> n.secs, spools |-> Entry(s).spools]

NeedUpdate(s) == Entry(s).idents = <<>> \/ SecsChange(s)

Install(s) ==
  /\ Syncs(s)
  /\ ~(SecsChange(s) /\ PoolsMissing(s))
  /\ NeedUpdate(s)
  /\ \E p \in Primary(s) : \E n \in Secondaries(s, p) :
       /\ cache' = [cache EXCEPT ![s] = Cached(s, p, n)]
       /\ rule' = [rule EXCEPT ![s] = n.secs]
       /\ held' = n.H
  /\ UNCHANGED <<want, up, edits>>

(* What is cached when all instances refused: the addresses are back in the *)
(* pools, the list of secondary ones stays.                                 *)
InstallFailed(s, p, n) == [NewEntry(want[s]) EXCEPT !.secs = n.secs, !.spools = Entry(s).spools]

InstallRefused(s) ==
  /\ InstallFails
  /\ Syncs(s)
  /\ rule[s] = None
  /\ ~(SecsChange(s) /\ PoolsMissing(s))
  /\ \E p \in Primary(s) : \E n \in Secondaries(s, p) :
       /\ p.new
       /\ cache' = [cache EXCEPT ![s] = InstallFailed(s, p, n)]
       /\ held' = ReturnSecondaryIPs(GiveBack(n.H, Default, {<<p.ip, p.idents[1]>>}),
                                     want[s].pools, n.secs, <<p.idents[1]>>)
  /\ UNCHANGED <<want, rule, up, edits>>

SyncErrorPrimary(s) ==
  /\ Syncs(s)
  /\ SecsChange(s) /\ PoolsMissing(s)
  /\ cache' = [cache EXCEPT ![s] = Entry(s)]
  /\ held' = GiveBack(held, Default, {<<Entry(s).ip, d>> : d \in ToSet(Entry(s).idents)})
  /\ UNCHANGED <<want, rule, up, edits>>

(* More secondary pools than the service was cached with: an error, for     *)
(* ever.  A primary address taken in this sync goes back.                   *)
SyncError(s) ==
  /\ Syncs(s)
  /\ SecsChange(s) /\ PoolsMissing(s)
  /\ \E p \in Primary(s) :
       held' = ReturnSecondaryIPs(held, want[s].pools, Entry(s).secs, <<p.idents[1]>>)
  /\ cache' = [cache EXCEPT ![s] = Entry(s)]
  /\ UNCHANGED <<want, rule, up, edits>>

(* klog.Exit: a pool is used up. *)
SyncExit(s) ==
  /\ Syncs(s)
  /\ NeedUpdate(s)
  /\ \/ Primary(s) = {}
     \/ ~PoolsMissing(s) /\ \E p \in Primary(s) : Secondaries(s, p) = {}
  /\ up' = FALSE
  /\ UNCHANGED <<want, cache, held, rule, edits>>

(* deleteLoadBalancer with releaseAll. *)
Delete(s) ==
  /\ up
  /\ want[s] = None
  /\ cache[s] # None
  /\ LET c == cache[s]
     IN  held' = ReturnSecondaryIPs(
                   GiveBack(held, Default, {<<c.ip, d>> : d \in ToSet(c.idents)}),
                   c.spools, c.secs, c.idents)
  /\ cache' = [cache EXCEPT ![s] = None]
  /\ rule' = [rule EXCEPT ![s] = None]
  /\ UNCHANGED <<want, up, edits>>

(* The user. *)
Edit(s) ==
  /\ edits < MaxEdits
  /\ \E w \in Annotations \cup {None} :
       /\ w # want[s]
       /\ w # None => (want[s] = None /\ cache[s] = None) \/ (want[s] # None /\ Revises)
       /\ want' = [want EXCEPT ![s] = w]
  /\ edits' = edits + 1
  /\ UNCHANGED <<cache, held, rule, up>>

Init ==
  /\ want = [s \in Service |-> None]
  /\ cache = [s \in Service |-> None]
  /\ held = [k \in DOMAIN Pool |-> {}]
  /\ rule = [s \in Service |-> None]
  /\ up = TRUE
  /\ edits = 0

Next ==
  \E s \in Service :
    Install(s) \/ InstallRefused(s) \/ SyncError(s) \/ SyncExit(s) \/ Delete(s) \/ Edit(s)

(* The worker takes every service again, at the latest at the resync. *)
Spec ==
  /\ Init /\ [][Next]_vars
  /\ \A s \in Service : WF_vars(Install(s)) /\ WF_vars(Delete(s))

-----------------------------------------------------------------------------
FromPools(s) == cache[s] # None /\ rule[s] # None /\ cache[s].spools # <<>>

(* Two services with installed rules have no secondary address in common,   *)
(* unless the pool is shared and their first ports, the ones the addresses  *)
(* were taken for, differ.  getIngressSecSvcPairs, returnSecondaryIPs and   *)
(* the two other places in loadbalancer.go that return secondary addresses. *)
SecondaryUnique ==
  \A s, t \in Service :
    (s # t /\ FromPools(s) /\ FromPools(t) /\ (Shared => Ports[s][1] = Ports[t][1])) =>
      ToSet(rule[s]) \cap ToSet(rule[t]) = {}

(* The primary address of an installed service stays taken whatever goes    *)
(* wrong with its secondary addresses (the IPAllocd test of addLoadBalancer *)
(* and the inRange one of deleteLoadBalancer).                              *)
PrimaryHeld ==
  \A s \in Service : rule[s] # None => <<cache[s].ip, cache[s].idents[1]>> \in held[Default]

(* A secondary pool's holdings all belong to services in the cache: after   *)
(* deletions and failed installations nothing stays taken for ever.         *)
NoSecondaryLeak ==
  \A k \in DOMAIN Pool \ {Default} : \A h \in held[k] :
    \E s \in Service :
      cache[s] # None /\ \E i \in DOMAIN cache[s].secs : cache[s].secs[i] = h[1]

(* An installed rule has the secondary addresses the user names now.        *)
(* addLoadBalancer, "update the existing secondary IP".                     *)
UserSecondariesInstalled ==
  \A s \in Service :
    [](want[s] # None /\ want[s].ips # <<>> =>
         <>(want[s] = None \/ rule[s] = want[s].ips \/ ~up))
=============================================================================
