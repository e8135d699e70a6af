------------------------------- MODULE IPRange -------------------------------
(***************************************************************************)
(* Which addresses belong to a pool (pkg/ippool/ippool.go).  ReturnIPAddr      *)
(* and CheckAndReserveIP ask IPPool.Contains, the allocator hands out the        *)
(* addresses from the first to the last.  An address is the sequence of its       *)
(* octets, 4 or 16 of them; the behaviours enumerate pools and addresses.         *)
(***************************************************************************)
EXTENDS Integers, Sequences

CONSTANTS
  Octet,    \* the values octets take in the instance
  Asked,    \* the addresses asked about: sequences of 4 or 16 octets
  Ranges,   \* pairs <<startIP, lastIP>>: pools "startIP-lastIP"
  Nets      \* pairs <<address, n>>: pools "address/8n"

VARIABLES
  pool,   \* an IPPool: isRange, and startIP, lastIP or NetCIDR
  ip      \* an address

rangeVars == <<pool, ip>>

-----------------------------------------------------------------------------
(* net.IP.To16: a v4 address is the end of a 16-octet one. *)
To16(a) == IF Len(a) = 16 THEN a ELSE [i \in 1..10 |-> 0] \o <<255, 255>> \o a

(* NewIPPool: both ends of a range are of one family. *)
NewIPPool ==
  {[isRange |-> TRUE, startIP |-> r[1], lastIP |-> r[2]] : r \in {q \in Ranges : Len(q[1]) = Len(q[2])}}
  \cup {[isRange |-> FALSE, startIP |-> n[1], bits |-> n[2]] : n \in Nets}

(* ^uint64(0), above every index. *)
NoIndex == 2^30

(* index |= index << n for one octet and n a multiple of 8, in 64 bits. *)
OrShifted(d, n) == IF n = 0 \/ n >= 64 THEN d ELSE d + d * 2^n

(* diffIPIndex: of the four octets it looks at, from the first of the base's       *)
(* family on, one that is below the base's ends it; otherwise the last decides.     *)
DiffIPIndex(baseIP, a) ==
  LET iplen == Len(baseIP)
      at(b, i) == To16(b)[16 - iplen + i]
  IN IF \E i \in 1..4 : at(baseIP, i) > at(a, i) THEN NoIndex
     ELSE OrShifted(at(a, 4) - at(baseIP, 4), 8 * (iplen - 4))

ContainsExclusive(p, a) ==
  IF p.isRange THEN DiffIPIndex(p.startIP, a) < DiffIPIndex(p.startIP, p.lastIP)
  ELSE Len(a) = Len(p.startIP) /\ \A i \in 1..p.bits : a[i] = p.startIP[i]

ContainsOffByOne(p, a) ==
  IF p.isRange THEN ~(DiffIPIndex(p.startIP, a) > DiffIPIndex(p.startIP, p.lastIP) + 1)
  ELSE Len(a) = Len(p.startIP) /\ \A i \in 1..p.bits : a[i] = p.startIP[i]

(* IPPool.Contains. *)
IPPoolContains(p, a) ==
  IF p.isRange THEN ~(DiffIPIndex(p.startIP, a) > DiffIPIndex(p.startIP, p.lastIP))
  ELSE Len(a) = Len(p.startIP) /\ \A i \in 1..p.bits : a[i] = p.startIP[i]

RangeInit == pool \in NewIPPool /\ ip \in Asked

RangeNext == \E a \in Asked : ip' = a /\ UNCHANGED pool

RangeSpec == RangeInit /\ [][RangeNext]_rangeVars

-----------------------------------------------------------------------------
(* The order of addresses of one family. *)
LessEq(a, b) ==
  \/ a = b
  \/ \E i \in 1..Len(a) : a[i] < b[i] /\ \A j \in 1..(i - 1) : a[j] = b[j]

(* The addresses of a pool: what the allocator hands out. *)
Member(p, a) ==
  /\ Len(a) = Len(p.startIP)
  /\ IF p.isRange THEN LessEq(p.startIP, a) /\ LessEq(a, p.lastIP)
     ELSE \A i \in 1..p.bits : a[i] = p.startIP[i]

(* Ranges within one /24, as the README's examples are, and of IPv6 ranges those     *)
(* within the four octets that diffIPIndex looks at.                               *)
Within(p) == p.isRange => \A i \in 1..(IF Len(p.startIP) = 4 THEN 3 ELSE 4) : p.startIP[i] = p.lastIP[i]

(* ReturnIPAddr takes back, and CheckAndReserveIP reserves, every address of the     *)
(* pool: for CIDRs and for the ranges above, Contains says no to none of them.        *)
MembersContained == Within(pool) /\ Member(pool, ip) => IPPoolContains(pool, ip)

(* CIDRs, and ranges asked about an address of their own /24. *)
Nearby(p, a) ==
  p.isRange => /\ Len(p.startIP) = 4 /\ Len(a) = 4 /\ Within(p)
               /\ \A i \in 1..3 : a[i] = p.startIP[i]

(* For these, Contains says yes to the addresses of the pool only: CheckAndReserveIP    *)
(* does not take the address of a user's choice next to the range for one of its own.  *)
NearbyExcluded == Nearby(pool, ip) /\ IPPoolContains(pool, ip) => Member(pool, ip)

(* Contains says yes to the addresses of the pool only. *)
OnlyMembersContained == IPPoolContains(pool, ip) => Member(pool, ip)

=============================================================================
