----------------------------- MODULE IPPoolUsers -----------------------------
(***************************************************************************)
(* The pool seen by its callers (the load-balancer and gateway managers):   *)
(* a user asks for a new address or for a particular one, keeps what it was *)
(* told it got, and hands back only what it has.  granted records the       *)
(* answers, so the pool's promise can be stated: what the pool grants to    *)
(* one user it grants to no other.                                          *)
(***************************************************************************)
EXTENDS IPPool

CONSTANTS
  User,
  Reserver   \* the users that ask for a particular address

ASSUME UserAssumption == Reserver \subseteq User

VARIABLE granted   \* what the users were told they hold

usersVars == <<held, granted>>

Grant == [user : User, ip : IP, ident : Ident]

UsersTypeOK == PoolTypeOK /\ granted \subseteq Grant

UsersInit == held = {} /\ granted = {}

GetNew(u, port) ==
  \E ip \in PoolIP, ident \in Ident :
    /\ GetNewIPAddr(port, ip, ident)
    /\ granted' = granted \cup {[user |-> u, ip |-> ip, ident |-> ident]}

Reserve(u, ip, port) ==
  \E ident \in Ident :
    /\ CheckAndReserveIP(ip, port, ident)
    /\ granted' = IF ReserveIPAddrOK(ip, port)
                    THEN granted \cup {[user |-> u, ip |-> ip, ident |-> ident]}
                    ELSE granted

Return(g) ==
  /\ ReturnIPAddr(g.ip, g.ident)
  /\ granted' = granted \ {g}

UsersNext ==
  \/ \E u \in User, port \in Port : GetNew(u, port)
  \/ \E u \in Reserver, ip \in IP, port \in Port : Reserve(u, ip, port)
  \/ \E g \in granted : Return(g)

UsersSpec == UsersInit /\ [][UsersNext]_usersVars

(* Two holdings that cannot both be served: the same address under the same *)
(* identifier, or an address taken as a whole and taken again.              *)
Clash(g, h) ==
  g.ip = h.ip /\ (g.ident = h.ident \/ NoIdent \in {g.ident, h.ident})

(* What the pool grants to one user it grants to no other, whatever the     *)
(* order of GetNewIPAddr, CheckAndReserveIP and ReturnIPAddr calls.         *)
GrantsDisjoint ==
  \A g, h \in granted : g # h => ~Clash(g, h)

(* The allocator's holdings are exactly what the users were told they have: *)
(* no grant without a holding (another user could get it) and no holding    *)
(* without a grant (nobody would hand it back: the address leaks).          *)
HoldingsAreGrants ==
  held = {<<g.ip, g.ident>> : g \in granted}

=============================================================================
