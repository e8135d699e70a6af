-------------------------------- MODULE IPPool --------------------------------
(***************************************************************************)
(* An IP pool of kube-loxilb (pkg/ippool/ippool.go): the addresses of one   *)
(* CIDR or range, handed out by the loxilib allocator.  The allocator is an *)
(* external library; it is modelled by the contract ippool.go relies on: it *)
(* keeps a set of holdings <<ip, ident>>, where ident names a port and      *)
(* protocol (an address may then be shared by services with other ports) or *)
(* is NoIdent (the address is taken as a whole).                            *)
(***************************************************************************)
CONSTANTS
  IP,        \* the addresses a caller may name
  PoolIP,    \* the addresses of the pool's CIDR or range
  Port,      \* port/protocol combinations
  NoIdent,   \* tk.IPAMNoIdent
  Shared     \* FALSE iff kube-loxilb runs with --setUniqueIP

ASSUME IPPoolAssumption ==
  /\ PoolIP \subseteq IP
  /\ NoIdent \notin Port
  /\ Shared \in BOOLEAN

VARIABLE held   \* the allocator's holdings

Ident == Port \cup {NoIdent}

PoolTypeOK == held \subseteq PoolIP \X Ident

(* Where a definition below is preceded by a variant of it (named for what  *)
(* the variant gets wrong), the variant is a plausible mistake in the code  *)
(* that a property of a run has to detect; no specification uses it.        *)

IPAMIdentIgnoresMode(port) == port

(* The identifier a service port is allocated under. *)
IPAMIdent(port) == IF Shared THEN port ELSE NoIdent

FreeIgnoresWhole(ip, ident) == <<ip, ident>> \notin held

FreeIgnoresIdent(ip, ident) == <<ip, NoIdent>> \notin held

(* tk.IPAllocator: may ip be handed out under ident? *)
Free(ip, ident) ==
  IF ident = NoIdent
    THEN \A i \in Ident : <<ip, i>> \notin held
    ELSE <<ip, ident>> \notin held /\ <<ip, NoIdent>> \notin held

Exhausted(ident) == \A ip \in PoolIP : ~Free(ip, ident)

(* The identifier GetNewIPAddr and ReserveIPAddr end up using: when the      *)
(* allocator refuses the port's own one they retry with NoIdent.            *)
NewIdent(port) ==
  IF Exhausted(IPAMIdent(port)) THEN NoIdent ELSE IPAMIdent(port)

ReservedIdent(ip, port) ==
  IF Free(ip, IPAMIdent(port)) THEN IPAMIdent(port) ELSE NoIdent

(* GetNewIPAddr returns nil. *)
NoNewIPAddr(port) == Exhausted(NewIdent(port))

GetNewIPAddr(port, ip, ident) ==
  /\ ip \in PoolIP
  /\ ident = NewIdent(port)
  /\ Free(ip, ident)
  /\ held' = held \cup {<<ip, ident>>}

ContainsAll(ip) == ip \in IP

Contains(ip) == ip \in PoolIP

(* The error CheckAndReserveIP reports.  ReserveIPAddr drops the allocator's *)
(* error when the pool is not shared.                                       *)
ReserveIPAddrOK(ip, port) ==
  Contains(ip) /\ (Shared => Free(ip, ReservedIdent(ip, port)))

CheckAndReserveIP(ip, port, ident) ==
  /\ ident = ReservedIdent(ip, port)
  /\ held' = IF Contains(ip) /\ Free(ip, ident)
               THEN held \cup {<<ip, ident>>}
               ELSE held

AfterReturnForgets(S) == held

AfterReturnWhole(S) == {g \in held : \A h \in S : g[1] # h[1]}

(* The holdings left when those in S are handed back with ReturnIPAddr. *)
AfterReturn(S) == held \ {h \in S : Contains(h[1])}

ReturnIPAddr(ip, ident) == held' = AfterReturn({<<ip, ident>>})

=============================================================================
