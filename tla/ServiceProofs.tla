---------------------------- MODULE ServiceProofs ----------------------------
(***************************************************************************)
(* Proofs about three modules of one service: which addresses are of a pool *)
(* (IPRange), the status as the memory of the addresses (ServiceStatus) and  *)
(* the options of the rules (ServiceOptions).                               *)
(***************************************************************************)
EXTENDS IPRange, ServiceStatus, ServiceOptions, SequenceTheorems, FiniteSetTheorems, TLAPS

-----------------------------------------------------------------------------
(* Pools and addresses as net.ParseIP and net.ParseCIDR return them. *)
Addresses == {a \in Seq(0..255) : Len(a) \in {4, 16}}

WellFormed ==
  /\ Asked \subseteq Addresses
  /\ \A r \in Ranges : r[1] \in Addresses /\ r[2] \in Addresses

(* Ranges written from the first address to the last: NewIPPool does not compare them. *)
Ordered == \A r \in Ranges : LessEq(r[1], r[2])

(* The octets diffIPIndex looks at are the first four of either family. *)
LEMMA Octets ==
  ASSUME NEW a \in Addresses
  PROVE  /\ Len(a) = 4 \/ Len(a) = 16
         /\ \A i \in 1..4 : a[i] \in 0..255 /\ To16(a)[16 - Len(a) + i] = a[i]
<1>0. a \in Seq(0..255) /\ (Len(a) = 4 \/ Len(a) = 16)
  BY Zenon DEF Addresses
<1>a. \A i \in 1..4 : a[i] \in 0..255
  <2>1. \A i \in 1..Len(a) : a[i] \in 0..255
    BY <1>0, ElementOfSeq, Zenon
  <2>2. CASE Len(a) = 4
    BY <2>1, <2>2, Zenon
  <2>3. CASE Len(a) = 16
    BY <2>1, <2>3
  <2> QED BY <1>0, <2>2, <2>3, Zenon
<1>1. CASE Len(a) = 4
  <2> DEFINE front == [i \in 1..10 |-> 0]
             mid == <<255, 255>>
             head == front \o mid
  <2>2. front \in Seq(0..255) /\ Len(front) = 10
    <3>1. front \in [1..10 -> 0..255]
      OBVIOUS
    <3> QED BY <3>1, SeqDef, LenProperties
  <2>3. mid \in Seq(0..255) /\ Len(mid) = 2
    OBVIOUS
  <2>4. head \in Seq(0..255) /\ Len(head) = 12
    <3> HIDE DEF front, mid
    <3>1. front \o mid \in Seq(0..255) /\ Len(front \o mid) = Len(front) + Len(mid)
      BY <2>2, <2>3, ConcatProperties
    <3> QED BY <3>1, <2>2, <2>3
  <2>5. To16(a) = head \o a
    BY <1>1 DEF To16
  <2> HIDE DEF head
  <2>6. \A i \in 1..(Len(head) + Len(a)) :
          (head \o a)[i] = IF i <= Len(head) THEN head[i] ELSE a[i - Len(head)]
    BY <1>0, <2>4, ConcatProperties
  <2>7. \A i \in 1..4 : (head \o a)[12 + i] = a[i]
    <3> TAKE i \in 1..4
    <3>1. 12 + i \in 1..(Len(head) + Len(a))
      BY <1>1, <2>4
    <3>2. (head \o a)[12 + i] = IF 12 + i <= Len(head) THEN head[12 + i] ELSE a[12 + i - Len(head)]
      BY <3>1, <2>6
    <3>3. \A n : n = 12 => ~(12 + i <= n) /\ 12 + i - n = i
      OBVIOUS
    <3> QED BY <2>4, <3>2, <3>3, Zenon
  <2>8. 16 - Len(a) = 12
    BY <1>1
  <2> QED BY <1>0, <1>a, <2>5, <2>7, <2>8, Zenon
<1>2. CASE Len(a) = 16
  <2>1. To16(a) = a /\ 16 - Len(a) = 0
    BY <1>2 DEF To16
  <2>2. \A i \in 1..4 : 16 - Len(a) + i = i
    BY <1>2
  <2> QED BY <1>0, <1>a, <2>1, <2>2
<1> QED BY <1>0, <1>1, <1>2, Zenon

LEMMA OctetInts ==
  ASSUME NEW a \in Addresses
  PROVE  \A i \in 1..4 : a[i] \in Int /\ a[i] >= 0 /\ a[i] <= 255
<1>1. \A i \in 1..4 : a[i] \in 0..255
  BY Octets, Zenon
<1> QED BY <1>1

(* diffIPIndex for two addresses of one family. *)
LEMMA Index ==
  ASSUME NEW b \in Addresses, NEW a \in Addresses, Len(a) = Len(b)
  PROVE  DiffIPIndex(b, a) = IF \E i \in 1..4 : b[i] > a[i] THEN NoIndex ELSE a[4] - b[4]
<1>1. \A i \in 1..4 : To16(b)[16 - Len(b) + i] = b[i] /\ To16(a)[16 - Len(b) + i] = a[i]
  BY Octets
<1>2. \A d : OrShifted(d, 8 * (Len(b) - 4)) = d
  <2>1. Len(b) = 4 \/ Len(b) = 16
    BY Octets, Zenon
  <2>2. 8 * (Len(b) - 4) = 0 \/ 8 * (Len(b) - 4) >= 64
    <3>1. CASE Len(b) = 4
      BY <3>1
    <3>2. CASE Len(b) = 16
      BY <3>2
    <3> QED BY <2>1, <3>1, <3>2, Zenon
  <2> QED BY <2>2, Zenon DEF OrShifted
<1> QED BY <1>1, <1>2 DEF DiffIPIndex

(* A member of a range has the octets the ends share, and its fourth octet is     *)
(* between theirs if they share the three before.                                *)
LEMMA Leading ==
  ASSUME NEW s \in Addresses, NEW a \in Addresses, NEW l \in Addresses,
         Len(s) = Len(a), Len(a) = Len(l), NEW k \in 3..4,
         \A i \in 1..k : s[i] = l[i], LessEq(s, a), LessEq(a, l)
  PROVE  \A i \in 1..k : a[i] = s[i]
<1>0. \A i \in 1..4 : s[i] \in Int /\ a[i] \in Int /\ l[i] \in Int
  BY OctetInts, Zenon
<1>1. CASE s = a \/ a = l
  BY <1>1, Zenon
<1>2. CASE s # a /\ a # l
  <2>1. Len(s) = 4 \/ Len(s) = 16
    BY Octets, Zenon
  <2>2. PICK n \in Nat : n = Len(s) /\ n >= 4
    <3>1. 4 \in Nat /\ 16 \in Nat /\ 4 >= 4 /\ 16 >= 4
      OBVIOUS
    <3> QED BY <2>1, <3>1, Zenon
  <2>3. k \in 1..4 /\ n >= 4
    BY <2>2
  <2>4. PICK i \in 1..n : s[i] < a[i] /\ \A j \in 1..(i - 1) : s[j] = a[j]
    BY <1>2, <2>2, Zenon DEF LessEq
  <2>5. PICK m \in 1..n : a[m] < l[m] /\ \A j \in 1..(m - 1) : a[j] = l[j]
    BY <1>2, <2>2, Zenon DEF LessEq
  <2>6. i > k
    <3> SUFFICES ASSUME i <= k PROVE FALSE
      OBVIOUS
    <3>0. i \in 1..k /\ i \in 1..4
      OBVIOUS
    <3>1. s[i] = l[i] /\ s[i] \in Int /\ a[i] \in Int
      BY <1>0, <3>0, Zenon
    <3>2. CASE m < i
      <4>0. m \in 1..(i - 1) /\ m \in 1..k /\ m \in 1..4
        BY <3>0, <3>2
      <4>1. s[m] = a[m] /\ s[m] = l[m] /\ a[m] \in Int
        BY <1>0, <4>0, <2>4, Zenon
      <4> QED BY <4>1, <2>5
    <3>3. CASE m = i
      BY <3>1, <3>3, <2>4, <2>5
    <3>4. CASE m > i
      <4>0. i \in 1..(m - 1)
        BY <3>4
      <4>1. a[i] = l[i]
        BY <4>0, <2>5, Zenon
      <4> QED BY <4>1, <3>1, <2>4
    <3> QED BY <3>2, <3>3, <3>4
  <2> QED BY <2>6, <2>4
<1> QED BY <1>1, <1>2, Zenon

LEMMA FourthOctet ==
  ASSUME NEW s \in Addresses, NEW a \in Addresses, LessEq(s, a), Len(s) = 4,
         \A i \in 1..3 : s[i] = a[i]
  PROVE  s[4] <= a[4]
<1>0. \A i \in 1..4 : s[i] \in Int /\ a[i] \in Int
  BY OctetInts, Zenon
<1>1. CASE s = a
  BY <1>0, <1>1
<1>2. CASE s # a
  <2>1. PICK i \in 1..4 : s[i] < a[i]
    BY <1>2, Zenon DEF LessEq
  <2>2. i = 4
    <3>1. i \in 1..3 \/ i = 4
      OBVIOUS
    <3> QED BY <3>1, <1>0, <2>1
  <2> QED BY <1>0, <2>1, <2>2
<1> QED BY <1>1, <1>2, Zenon

(* And addresses of one /24 are ordered by their fourth octet. *)
LEMMA SameLast ==
  ASSUME NEW s \in Addresses, NEW a \in Addresses, Len(s) = 4, Len(a) = 4,
         \A i \in 1..3 : s[i] = a[i], s[4] <= a[4]
  PROVE  LessEq(s, a)
<1>0. s[4] \in Int /\ a[4] \in Int
  BY OctetInts
<1>1. CASE s[4] < a[4]
  <2>1. 4 \in 1..Len(s) /\ 1..(4 - 1) = 1..3
    OBVIOUS
  <2>2. s[4] < a[4] /\ \A j \in 1..(4 - 1) : s[j] = a[j]
    BY <1>1
  <2> QED BY <2>1, <2>2, Zenon DEF LessEq
<1>2. CASE s[4] = a[4]
  <2>1. \A i \in 1..4 : s[i] = a[i]
    <3> TAKE i \in 1..4
    <3>1. i \in 1..3 \/ i = 4
      OBVIOUS
    <3> QED BY <3>1, <1>2, Zenon
  <2>2. s \in Seq(0..255) /\ a \in Seq(0..255)
    BY Zenon DEF Addresses
  <2>3. s = a
    BY <2>1, <2>2, SeqEqual
  <2> QED BY <2>3, Zenon DEF LessEq
<1> QED BY <1>0, <1>1, <1>2

LEMMA MemberIsContained ==
  ASSUME WellFormed, NEW p \in NewIPPool, NEW a \in Asked, Within(p), Member(p, a)
  PROVE  IPPoolContains(p, a)
<1>1. CASE p.isRange
  <2>1. PICK r \in Ranges : Len(r[1]) = Len(r[2]) /\ p.startIP = r[1] /\ p.lastIP = r[2]
    BY <1>1 DEF NewIPPool
  <2>2. PICK s \in Addresses, l \in Addresses : s = p.startIP /\ l = p.lastIP /\ Len(s) = Len(l)
    BY <2>1, Zenon DEF WellFormed
  <2>3. a \in Addresses /\ Len(a) = Len(s) /\ LessEq(s, a) /\ LessEq(a, l)
    BY <1>1, <2>2, Zenon DEF WellFormed, Member
  <2>4. \A i \in 1..4 : /\ s[i] \in Int /\ s[i] >= 0 /\ s[i] <= 255
                        /\ a[i] \in Int /\ a[i] >= 0 /\ a[i] <= 255
                        /\ l[i] \in Int /\ l[i] >= 0 /\ l[i] <= 255
    BY <2>3, OctetInts
  <2>5. SUFFICES ~(DiffIPIndex(s, a) > DiffIPIndex(s, l))
    BY <1>1, <2>2, Zenon DEF IPPoolContains
  <2>6. DiffIPIndex(s, a) = IF \E i \in 1..4 : s[i] > a[i] THEN NoIndex ELSE a[4] - s[4]
    BY <2>3, Index, Zenon
  <2>7. DiffIPIndex(s, l) = IF \E i \in 1..4 : s[i] > l[i] THEN NoIndex ELSE l[4] - s[4]
    BY <2>2, Index, Zenon
  <2>8. CASE Len(s) = 4
    <3>1. \A i \in 1..3 : s[i] = l[i]
      BY <1>1, <2>2, <2>8, Zenon DEF Within
    <3>2. \A i \in 1..3 : a[i] = s[i]
      BY <2>2, <2>3, <3>1, Leading
    <3>3. s[4] <= a[4]
      BY <2>3, <2>8, <3>2, FourthOctet, Zenon
    <3>4. a[4] <= l[4]
      BY <2>3, <2>8, <3>1, <3>2, FourthOctet, Zenon
    <3>5. \A i \in 1..4 : ~(s[i] > a[i]) /\ ~(s[i] > l[i])
      <4> TAKE i \in 1..4
      <4>1. i \in 1..3 \/ i = 4
        OBVIOUS
      <4> QED BY <4>1, <2>4, <3>1, <3>2, <3>3, <3>4
    <3>6. DiffIPIndex(s, a) = a[4] - s[4] /\ DiffIPIndex(s, l) = l[4] - s[4]
      BY <2>6, <2>7, <3>5, Zenon
    <3> QED BY <2>4, <3>4, <3>6
  <2>9. CASE Len(s) = 16
    <3>1. \A i \in 1..4 : s[i] = l[i]
      BY <1>1, <2>2, <2>9 DEF Within
    <3>2. \A i \in 1..4 : a[i] = s[i]
      BY <2>2, <2>3, <3>1, Leading
    <3>3. \A i \in 1..4 : ~(s[i] > a[i]) /\ ~(s[i] > l[i])
      BY <2>4, <3>1, <3>2
    <3>4. DiffIPIndex(s, a) = a[4] - s[4] /\ DiffIPIndex(s, l) = l[4] - s[4]
      BY <2>6, <2>7, <3>3, Zenon
    <3> QED BY <2>4, <3>1, <3>2, <3>4
  <2> QED BY <2>8, <2>9, Octets, Zenon
<1>2. CASE ~p.isRange
  BY <1>2, Zenon DEF Member, IPPoolContains
<1> QED BY <1>1, <1>2, Zenon

LEMMA NearbyIsExcluded ==
  ASSUME WellFormed, Ordered, NEW p \in NewIPPool, NEW a \in Asked,
         Nearby(p, a), IPPoolContains(p, a)
  PROVE  Member(p, a)
<1>1. CASE p.isRange
  <2>1. PICK r \in Ranges : Len(r[1]) = Len(r[2]) /\ p.startIP = r[1] /\ p.lastIP = r[2]
    BY <1>1 DEF NewIPPool
  <2>2. PICK s \in Addresses, l \in Addresses : s = p.startIP /\ l = p.lastIP /\ Len(s) = Len(l)
    BY <2>1, Zenon DEF WellFormed
  <2>3. a \in Addresses /\ Len(a) = 4 /\ Len(s) = 4 /\ Len(l) = 4
        /\ \A i \in 1..3 : a[i] = s[i] /\ s[i] = l[i]
    BY <1>1, <2>2, Zenon DEF WellFormed, Nearby, Within
  <2>4. \A i \in 1..4 : /\ s[i] \in Int /\ s[i] >= 0 /\ s[i] <= 255
                        /\ a[i] \in Int /\ a[i] >= 0 /\ a[i] <= 255
                        /\ l[i] \in Int /\ l[i] >= 0 /\ l[i] <= 255
    BY <2>3, OctetInts
  <2>5. ~(DiffIPIndex(s, a) > DiffIPIndex(s, l))
    BY <1>1, <2>2, Zenon DEF IPPoolContains
  <2>6. DiffIPIndex(s, a) = IF \E i \in 1..4 : s[i] > a[i] THEN NoIndex ELSE a[4] - s[4]
    BY <2>3, Index, Zenon
  <2>7. DiffIPIndex(s, l) = IF \E i \in 1..4 : s[i] > l[i] THEN NoIndex ELSE l[4] - s[4]
    BY <2>2, Index, Zenon
  <2>8. s[4] <= l[4]
    <3>1. LessEq(s, l)
      BY <2>1, <2>2, Zenon DEF Ordered
    <3>2. \A i \in 1..3 : s[i] = l[i]
      BY <2>3, Zenon
    <3> QED BY <2>3, <3>1, <3>2, FourthOctet, Zenon
  <2>9. DiffIPIndex(s, l) = l[4] - s[4]
    <3>1. \A i \in 1..4 : ~(s[i] > l[i])
      <4> TAKE i \in 1..4
      <4>1. i \in 1..3 \/ i = 4
        OBVIOUS
      <4> QED BY <4>1, <2>3, <2>4, <2>8
    <3> QED BY <2>7, <3>1, Zenon
  <2>10. \A i \in 1..4 : ~(s[i] > a[i])
    <3>1. NoIndex > 255
      BY DEF NoIndex
    <3>2. l[4] - s[4] <= 255
      BY <2>4
    <3>3. DiffIPIndex(s, a) # NoIndex
      BY <2>4, <2>5, <2>9, <3>1, <3>2 DEF NoIndex
    <3> QED BY <2>6, <3>3, Zenon
  <2>11. s[4] <= a[4] /\ a[4] <= l[4]
    <3>1. DiffIPIndex(s, a) = a[4] - s[4] /\ ~(s[4] > a[4])
      BY <2>6, <2>10
    <3> QED BY <2>4, <2>5, <2>9, <3>1
  <2>12. LessEq(s, a)
    BY <2>3, <2>4, <2>11, SameLast, Zenon
  <2>13. LessEq(a, l)
    BY <2>3, <2>4, <2>11, SameLast, Zenon
  <2> QED BY <1>1, <2>2, <2>3, <2>12, <2>13, Zenon DEF Member
<1>2. CASE ~p.isRange
  BY <1>2, Zenon DEF Member, IPPoolContains
<1> QED BY <1>1, <1>2, Zenon

RangeInv == pool \in NewIPPool /\ ip \in Asked

LEMMA RangeInvariant == RangeSpec => []RangeInv
<1>1. RangeInit => RangeInv
  BY Zenon DEF RangeInit, RangeInv
<1>2. RangeInv /\ [RangeNext]_rangeVars => RangeInv'
  BY Zenon DEF RangeInv, RangeNext, rangeVars
<1> QED BY <1>1, <1>2, PTL DEF RangeSpec

(* For every set of well-formed pools: IPPool.Contains says yes to every address of    *)
(* a CIDR, and to every address of a range whose ends share the octets that           *)
(* diffIPIndex does not compare, so ReturnIPAddr takes back, and CheckAndReserveIP     *)
(* reserves, each of them.                                                           *)
THEOREM MembersAreContained ==
  ASSUME WellFormed
  PROVE  RangeSpec => []MembersContained
<1>1. RangeInv => MembersContained
  BY MemberIsContained, Zenon DEF RangeInv, MembersContained
<1> QED BY <1>1, RangeInvariant, PTL

(* And IPPool.Contains says no to every other address of the /24 of an ordered IPv4     *)
(* range, and to every address outside a CIDR.                                       *)
THEOREM NeighboursAreExcluded ==
  ASSUME WellFormed, Ordered
  PROVE  RangeSpec => []NearbyExcluded
<1>1. RangeInv => NearbyExcluded
  BY NearbyIsExcluded, Zenon DEF RangeInv, NearbyExcluded
<1> QED BY <1>1, RangeInvariant, PTL

-----------------------------------------------------------------------------
CONSTANT Part  \* the parts names are made of

(* An IPv4 address is one part of a name, an IPv6 address the parts of its groups. *)
Readable(x) == x # AnyIP /\ (IsV4(x) \/ IsV6(x))

(* Zones of different agents differ, have names of one part, and none is itself an       *)
(* address or a group of one.                                                         *)
ZonesApart ==
  /\ \A a \in Agent : \E z \in Part : ZoneOf[a] = <<z>> /\ z \notin V4 \cup Hex \cup {""}
  /\ \A a, b \in Agent : ZoneOf[a] = ZoneOf[b] => a = b

(* The parts of an address are strings; a pool has addresses users do not give. *)
AddressesReadable ==
  /\ ~ZeroCIDR
  /\ V4 \subseteq Part /\ Hex \subseteq Part \ V4 /\ "" \in Part \ V4
  /\ UserIPs \subseteq Seq(Part) /\ \A x \in UserIPs : Readable(x)
  /\ \A a \in Agent : /\ PoolOf[a] \subseteq Seq(Part) \ UserIPs
                      /\ \A x \in PoolOf[a] : Readable(x)

(* What is written under the zone of one agent is read back by it, and is nothing to       *)
(* another: ParseIngressHostname after GenExtIPName.                                     *)
LEMMA ReadBack ==
  ASSUME NEW a \in Agent, NEW b \in Agent, NEW x \in Seq(Part), Readable(x),
         ZonesApart, AddressesReadable
  PROVE  /\ Entry(ZoneOf[b] \o x) = [field |-> "hostname", name |-> ZoneOf[b] \o x]
         /\ ParseIngressHostname(a, ZoneOf[b] \o x) = IF a = b THEN {x} ELSE {}
<1>1. PICK z \in Part : ZoneOf[b] = <<z>> /\ z \notin V4 \cup Hex \cup {""}
  BY Zenon DEF ZonesApart
<1>2. Len(x) \in Nat /\ Len(x) >= 1
  <2>1. Len(x) \in Nat
    BY LenProperties, Zenon
  <2>2. CASE IsV4(x)
    BY <2>2 DEF IsV4
  <2>3. CASE IsV6(x)
    <3>1. Len(x) \in 3..8
      BY <2>3, Zenon DEF IsV6
    <3>2. \A n \in 3..8 : n >= 1
      OBVIOUS
    <3> QED BY <2>1, <3>1, <3>2, Zenon
  <2> QED BY <2>2, <2>3, Zenon DEF Readable
<1> DEFINE name == <<z>> \o x
<1>3. <<z>> \in Seq(Part) /\ Len(<<z>>) = 1 /\ <<z>>[1] = z
  OBVIOUS
<1>4. /\ name \in Seq(Part) /\ Len(name) = Len(<<z>>) + Len(x)
      /\ \A i \in 1..(Len(<<z>>) + Len(x)) :
           name[i] = IF i <= Len(<<z>>) THEN <<z>>[i] ELSE x[i - Len(<<z>>)]
  BY <1>3, ConcatProperties, Zenon
<1> HIDE DEF name
<1>5. Len(name) = Len(x) + 1 /\ name[1] = z /\ \A i \in 1..Len(x) : name[i + 1] = x[i]
  <2>1. \A i \in 1..(1 + Len(x)) : name[i] = IF i <= 1 THEN <<z>>[i] ELSE x[i - 1]
    BY <1>3, <1>4, Zenon
  <2>2. 1 \in 1..(1 + Len(x)) /\ \A i \in 1..Len(x) : i + 1 \in 1..(1 + Len(x)) /\ ~(i + 1 <= 1) /\ (i + 1) - 1 = i
    BY <1>2
  <2>3. name[1] = z
    BY <1>3, <2>1, <2>2
  <2>4. \A i \in 1..Len(x) : name[i + 1] = x[i]
    <3> TAKE i \in 1..Len(x)
    <3>1. i + 1 \in 1..(1 + Len(x)) /\ ~(i + 1 <= 1) /\ (i + 1) - 1 = i
      BY <2>2, Zenon
    <3> QED BY <2>1, <3>1, Zenon
  <2> QED BY <1>2, <1>3, <1>4, <2>3, <2>4
<1>6. Tail(name) = x
  <2>1. name # <<>>
    BY <1>2, <1>5
  <2>2. /\ Tail(name) \in Seq(Part) /\ Len(Tail(name)) = Len(name) - 1
        /\ \A i \in 1..Len(Tail(name)) : Tail(name)[i] = name[i + 1]
    BY <1>4, <2>1, HeadTailProperties, Zenon
  <2>3. Len(Tail(name)) = Len(x)
    BY <1>2, <1>5, <2>2
  <2>4. \A i \in 1..Len(Tail(name)) : Tail(name)[i] = x[i]
    BY <1>5, <2>2, <2>3, Zenon
  <2> QED BY <2>2, <2>3, <2>4, SeqEqual, Zenon
<1>7. ~IsV4(name) /\ name # <<"llbanyextip">> /\ ~(Len(name) < 2)
  <2>1. Len(<<"llbanyextip">>) = 1
    BY Zenon
  <2> QED BY <1>2, <1>5, <2>1 DEF IsV4
<1>8. ~IsV6(name) /\ ~IsV4(<<z>>)
  <2>1. 1 \in 1..Len(name)
    BY <1>2, <1>5
  <2>2. ~Group(name)
    BY <1>1, <1>5, <2>1, Zenon DEF Group
  <2> QED BY <1>1, <1>3, <2>2, Zenon DEF IsV6, IsV4
<1>9. Entry(name) = [field |-> "hostname", name |-> name]
  BY <1>7, Zenon DEF Entry
<1>10. CASE a = b
  <2>1. ParseIngressHostname(a, name) = IF IsV4(<<x[1]>>) THEN {<<x[1]>>} ELSE IF IsV6(x) THEN {x} ELSE {}
    BY <1>1, <1>5, <1>6, <1>7, <1>10, Zenon DEF ParseIngressHostname
  <2>2. ASSUME IsV4(x) PROVE ParseIngressHostname(a, name) = {x}
    <3>1. x = <<x[1]>>
      <4>1. Len(x) = 1 /\ x[1] \in Part
        BY <2>2, Zenon DEF IsV4, AddressesReadable
      <4> QED BY <4>1, SeqEqual
    <3> QED BY <2>1, <2>2, <3>1, Zenon
  <2>3. ASSUME IsV6(x) PROVE ParseIngressHostname(a, name) = {x}
    <3>1. 1 \in 1..Len(x)
      BY <1>2
    <3>2. x[1] \in Hex \cup {""}
      BY <2>3, <3>1, Zenon DEF IsV6, Group
    <3>3. ~IsV4(<<x[1]>>)
      BY <3>2, Zenon DEF IsV4, AddressesReadable
    <3> QED BY <2>1, <2>3, <3>3, Zenon
  <2> QED BY <1>1, <1>9, <1>10, <2>2, <2>3, Zenon DEF Readable, name
<1>11. CASE a # b
  <2>1. <<name[1]>> # ZoneOf[a]
    BY <1>1, <1>5, <1>11 DEF ZonesApart
  <2>2. ParseIngressHostname(a, name) = {}
    BY <1>5, <1>7, <1>8, <2>1, Zenon DEF ParseIngressHostname
  <2> QED BY <1>1, <1>9, <1>11, <2>2, Zenon DEF name
<1> QED BY <1>10, <1>11, Zenon

(* The addresses the status holds are of agents' pools, once taken, or the user's; *)
(* an agent that took one finds it there.                                          *)
StatusInv ==
  /\ cache \in [Agent -> SUBSET Seq(Part)] /\ taken \in [Agent -> SUBSET Seq(Part)]
  /\ given \subseteq UserIPs
  /\ \A a \in Agent : taken[a] \subseteq PoolOf[a] /\ cache[a] \subseteq PoolOf[a] \cup UserIPs
  /\ \A e \in status : \E b \in Agent : \E x \in taken[b] \cup UserIPs :
       e = [field |-> "hostname", name |-> ZoneOf[b] \o x]
  /\ \A a \in Agent : taken[a] # {} =>
       \E x \in taken[a] : [field |-> "hostname", name |-> ZoneOf[a] \o x] \in status
  /\ AddressKept

(* What an agent reads: what it took, or the user gave. *)
LEMMA Found ==
  ASSUME StatusInv, ZonesApart, AddressesReadable, NEW a \in Agent
  PROVE  /\ GetLBServiceExternalIPs(a) \subseteq taken[a] \cup UserIPs
         /\ taken[a] # {} => GetLBServiceExternalIPs(a) # {}
<1>0. \A b \in Agent : \A x \in taken[b] \cup UserIPs : x \in Seq(Part) /\ Readable(x)
  BY Zenon DEF StatusInv, AddressesReadable
<1> DEFINE Of(e) == IF e.field = "ip" THEN {e.name} ELSE ParseIngressHostname(a, e.name)
<1>1. GetLBServiceExternalIPs(a) = (UNION {Of(e) : e \in status}) \cup given
  BY Zenon DEF GetLBServiceExternalIPs, GetServiceIngressIPs, AddressesReadable
<1>2. ASSUME NEW b \in Agent, NEW x \in taken[b] \cup UserIPs,
             NEW e, e = [field |-> "hostname", name |-> ZoneOf[b] \o x]
      PROVE  Of(e) = IF a = b THEN {x} ELSE {}
  <2>1. e.field = "hostname" /\ e.name = ZoneOf[b] \o x
    BY <1>2, Zenon
  <2>2. ParseIngressHostname(a, ZoneOf[b] \o x) = IF a = b THEN {x} ELSE {}
    BY <1>0, ReadBack, Zenon
  <2> QED BY <2>1, <2>2, Zenon
<1> HIDE DEF Of
<1>3. \A e \in status : Of(e) \subseteq taken[a] \cup UserIPs
  <2> TAKE e \in status
  <2>1. PICK b \in Agent : \E x \in taken[b] \cup UserIPs : e = [field |-> "hostname", name |-> ZoneOf[b] \o x]
    BY Zenon DEF StatusInv
  <2>2. PICK x \in taken[b] \cup UserIPs : e = [field |-> "hostname", name |-> ZoneOf[b] \o x]
    BY <2>1, Zenon
  <2>3. Of(e) = IF a = b THEN {x} ELSE {}
    BY <1>2, <2>2, Zenon
  <2> QED BY <2>3, Zenon
<1>4. taken[a] # {} => \E e \in status : Of(e) # {}
  <2> HAVE taken[a] # {}
  <2>1. PICK x \in taken[a] : [field |-> "hostname", name |-> ZoneOf[a] \o x] \in status
    BY Zenon DEF StatusInv
  <2>2. Of([field |-> "hostname", name |-> ZoneOf[a] \o x]) = {x}
    BY <1>2, Zenon
  <2> QED BY <2>1, <2>2, Zenon
<1>5. given \subseteq UserIPs
  BY Zenon DEF StatusInv
<1> QED BY <1>1, <1>3, <1>4, <1>5, Zenon

(* What a successful status update adds. *)
LEMMA Written ==
  ASSUME ZonesApart, AddressesReadable, NEW a \in Agent, NEW ips \in SUBSET (PoolOf[a] \cup UserIPs)
  PROVE  UpdateService(a, ips) = status \cup {[field |-> "hostname", name |-> ZoneOf[a] \o x] : x \in ips}
<1>1. \A x \in ips : x \in Seq(Part) /\ Readable(x) /\ x # AnyIP
  BY Zenon DEF AddressesReadable, Readable
<1>2. \A x \in ips : GenExtIPName(a, x) = {ZoneOf[a] \o x}
  BY <1>1, Zenon DEF GenExtIPName
<1>3. \A x \in ips : Entry(ZoneOf[a] \o x) = [field |-> "hostname", name |-> ZoneOf[a] \o x]
  BY <1>1, ReadBack, Zenon
<1>4. UNION {GenExtIPName(a, x) : x \in ips} = {ZoneOf[a] \o x : x \in ips}
  BY <1>2
<1>5. {Entry(n) : n \in {ZoneOf[a] \o x : x \in ips}} = {[field |-> "hostname", name |-> ZoneOf[a] \o x] : x \in ips}
  BY <1>3, Zenon
<1> QED BY <1>4, <1>5, Zenon DEF UpdateService

LEMMA SyncKeeps ==
  ASSUME StatusInv, ZonesApart, AddressesReadable, NEW a \in Agent, Sync(a)
  PROVE  StatusInv'
<1>1. PICK new \in PoolOf[a] :
        LET found == GetLBServiceExternalIPs(a)
            ips == IF found # {} THEN found ELSE IF cache[a] # {} THEN cache[a] ELSE {new}
        IN /\ cache' = [cache EXCEPT ![a] = cache[a] \cup ips]
           /\ \/ /\ status' = UpdateService(a, ips)
                 /\ taken' = IF taken[a] = {} THEN [taken EXCEPT ![a] = ips \cap PoolOf[a]] ELSE taken
              \/ UNCHANGED <<status, taken>>
           /\ UNCHANGED given
  BY Zenon DEF Sync
<1>2. PICK found : found = GetLBServiceExternalIPs(a)
  BY Zenon
<1>3. PICK ips : ips = IF found # {} THEN found ELSE IF cache[a] # {} THEN cache[a] ELSE {new}
  BY Zenon
<1>4. /\ cache' = [cache EXCEPT ![a] = cache[a] \cup ips]
      /\ \/ /\ status' = UpdateService(a, ips)
            /\ taken' = IF taken[a] = {} THEN [taken EXCEPT ![a] = ips \cap PoolOf[a]] ELSE taken
         \/ status' = status /\ taken' = taken
      /\ given' = given
  BY <1>1, <1>2, <1>3, Zenon
<1>5. found \subseteq taken[a] \cup UserIPs /\ (taken[a] # {} => found # {})
  BY <1>2, Found, Zenon
<1>6. /\ cache[a] \subseteq PoolOf[a] \cup UserIPs /\ taken[a] \subseteq PoolOf[a]
      /\ taken[a] # {} => cache[a] \subseteq taken[a] \cup UserIPs
      /\ PoolOf[a] \cap UserIPs = {}
  BY Zenon DEF StatusInv, AddressKept, AddressesReadable
<1>7. /\ ips \subseteq PoolOf[a] \cup UserIPs
      /\ taken[a] # {} => ips \subseteq taken[a] \cup UserIPs
      /\ taken[a] = {} /\ ips \cap PoolOf[a] # {} => cache[a] \cup ips \subseteq (ips \cap PoolOf[a]) \cup UserIPs
  <2>1. CASE found # {}
    BY <1>3, <1>5, <1>6, <2>1, Zenon
  <2>2. CASE found = {} /\ cache[a] # {}
    BY <1>3, <1>5, <1>6, <2>2, Zenon
  <2>3. CASE found = {} /\ cache[a] = {}
    BY <1>3, <1>5, <1>6, <2>3, Zenon
  <2> QED BY <2>1, <2>2, <2>3, Zenon
<1>8. /\ cache \in [Agent -> SUBSET Seq(Part)] /\ taken \in [Agent -> SUBSET Seq(Part)]
      /\ PoolOf[a] \cup UserIPs \subseteq Seq(Part)
  BY Zenon DEF StatusInv, AddressesReadable
<1>9. /\ cache' \in [Agent -> SUBSET Seq(Part)] /\ cache'[a] = cache[a] \cup ips
      /\ \A b \in Agent : b # a => cache'[b] = cache[b]
  BY <1>4, <1>7, <1>8, Zenon
<1>10. CASE status' = status /\ taken' = taken
  BY <1>4, <1>6, <1>7, <1>9, <1>10, Zenon DEF StatusInv, AddressKept
<1>11. CASE /\ status' = UpdateService(a, ips)
            /\ taken' = IF taken[a] = {} THEN [taken EXCEPT ![a] = ips \cap PoolOf[a]] ELSE taken
  <2>1. status' = status \cup {[field |-> "hostname", name |-> ZoneOf[a] \o x] : x \in ips}
    BY <1>7, <1>11, Written, Zenon
  <2>2. /\ taken' \in [Agent -> SUBSET Seq(Part)]
        /\ \A b \in Agent : b # a => taken'[b] = taken[b]
        /\ taken'[a] = IF taken[a] = {} THEN ips \cap PoolOf[a] ELSE taken[a]
    BY <1>8, <1>11, Zenon
  <2>3. ips \subseteq taken'[a] \cup UserIPs
    BY <1>7, <2>2, Zenon
  <2>4. \A b \in Agent : taken[b] \subseteq taken'[b]
    BY <2>2, Zenon
  <2>5. \A e \in status' : \E b \in Agent : \E x \in taken'[b] \cup UserIPs :
          e = [field |-> "hostname", name |-> ZoneOf[b] \o x]
    <3> TAKE e \in status'
    <3>1. CASE e \in status
      BY <3>1, <2>4, Zenon DEF StatusInv
    <3>2. CASE e \notin status
      <4>1. PICK x \in ips : e = [field |-> "hostname", name |-> ZoneOf[a] \o x]
        BY <2>1, <3>2, Zenon
      <4> QED BY <2>3, <4>1, Zenon
    <3> QED BY <3>1, <3>2, Zenon
  <2>6. ASSUME NEW b \in Agent, taken'[b] # {}
        PROVE  \E x \in taken'[b] : [field |-> "hostname", name |-> ZoneOf[b] \o x] \in status'
    <3>1. CASE taken[b] # {}
      BY <3>1, <2>1, <2>4, Zenon DEF StatusInv
    <3>2. CASE taken[b] = {}
      <4>1. b = a /\ taken'[b] \subseteq ips
        BY <2>2, <2>6, <3>2, Zenon
      <4> QED BY <2>1, <2>6, <4>1, Zenon
    <3> QED BY <3>1, <3>2, Zenon
  <2>7. AddressKept'
    BY <1>6, <1>7, <1>9, <2>2, Zenon DEF AddressKept, StatusInv
  <2>8. \A b \in Agent : taken'[b] \subseteq PoolOf[b] /\ cache'[b] \subseteq PoolOf[b] \cup UserIPs
    BY <1>6, <1>7, <1>9, <2>2, Zenon DEF StatusInv
  <2> QED BY <1>4, <1>9, <2>2, <2>5, <2>6, <2>7, <2>8, Zenon DEF StatusInv
<1> QED BY <1>4, <1>10, <1>11, Zenon

LEMMA RestartKeeps ==
  ASSUME StatusInv, NEW a \in Agent, Restart(a)
  PROVE  StatusInv'
BY Zenon DEF Restart, StatusInv, AddressKept

LEMMA EditKeeps ==
  ASSUME StatusInv, EditGiven
  PROVE  StatusInv'
BY Zenon DEF EditGiven, StatusInv, AddressKept

(* For every set of agents of zones apart and all their pools: whatever the order of     *)
(* syncs, failed status updates, edits and restarts, an agent configures only the        *)
(* address of its pool that it wrote first and those the user gave                       *)
(* (getLBServiceExternalIPs, GenExtIPName, ParseIngressHostname).                        *)
THEOREM AddressIsKept ==
  ASSUME ZonesApart, AddressesReadable
  PROVE  StatusSpec => []AddressKept
<1>1. StatusInit => StatusInv
  BY Zenon DEF StatusInit, StatusInv, AddressKept
<1>2. StatusInv /\ [StatusNext]_statusVars => StatusInv'
  <2> SUFFICES ASSUME StatusInv, [StatusNext]_statusVars PROVE StatusInv'
    BY Zenon
  <2>1. CASE UNCHANGED statusVars
    BY <2>1, Zenon DEF statusVars, StatusInv, AddressKept
  <2>2. CASE EditGiven
    BY <2>2, EditKeeps, Zenon
  <2>3. ASSUME NEW a \in Agent, Sync(a) PROVE StatusInv'
    BY <2>3, SyncKeeps, Zenon
  <2>4. ASSUME NEW a \in Agent, Restart(a) PROVE StatusInv'
    BY <2>4, RestartKeeps, Zenon
  <2>5. ASSUME NEW a \in Agent, NEW H, UpdateAllLoxiLBServiceStatus(a, H) PROVE FALSE
    BY <2>5, Zenon DEF UpdateAllLoxiLBServiceStatus, AddressesReadable
  <2> QED BY <2>1, <2>2, <2>3, <2>4, <2>5, Zenon DEF StatusNext
<1>3. StatusInv => AddressKept
  BY DEF StatusInv
<1> QED BY <1>1, <1>2, <1>3, PTL DEF StatusSpec

-----------------------------------------------------------------------------
(* A missing thing is no record, and a port annotation that parses is a number. *)
OptionConstants ==
  /\ NPorts \in Nat
  /\ \A o, t : [options |-> o, tls |-> t] # None
  /\ \A a \in Annotations : UpdatedEntry(Options(a)) # None
  /\ \A a \in Annotations : a.port \in Int \cup {None, Bad}

(* A service of one port, or an instance that refuses no rule. *)
AllOrNothing == ~Refuses \/ NPorts = 1

(* The options an update stores. *)
Stored(a) == UpdatedEntry(Options(a))

(* What compares equal to the stored options is stored as the same options. *)
LEMMA SameStored ==
  ASSUME OptionConstants, NEW a \in Annotations, NEW b \in Annotations,
         ~Differs(Options(a), Stored(b))
  PROVE  Stored(a) = Stored(b)
<1> DEFINE Fields == {"timeout", "live", "mode", "probe", "port", "msg", "retries", "sel", "egress"}
<1>1. ASSUME NEW x \in Annotations
      PROVE  /\ DOMAIN Options(x) = Fields /\ DOMAIN Stored(x) = Fields
             /\ Stored(x) = [f \in Fields |-> Stored(x)[f]]
             /\ Stored(x).port = Options(x).port % 65536
             /\ \A f \in Fields \ {"port"} : Stored(x)[f] = Options(x)[f]
             /\ Options(x).port \in Int
  <2>1. ProbePort(x) \in Int
    BY DEF ProbePort, Atoi, OptionConstants
  <2> QED BY <2>1 DEF Options, Stored, UpdatedEntry, Uint16
<1>2. \A f \in Fields : Options(a)[f] = Stored(b)[f]
  BY <1>1 DEF Differs
<1>3. \A f \in Fields : Stored(a)[f] = Stored(b)[f]
  <2> TAKE f \in Fields
  <2>1. CASE f = "port"
    <3>1. Options(a).port = Options(b).port % 65536
      BY <1>1, <1>2
    <3>2. \A n \in Int : (n % 65536) % 65536 = n % 65536
      OBVIOUS
    <3> QED BY <1>1, <2>1, <3>1, <3>2
  <2>2. CASE f # "port"
    BY <1>1, <1>2, <2>2
  <2> QED BY <2>1, <2>2
<1> HIDE DEF Fields
<1> QED BY <1>1, <1>3

(* All rules are there or none is, with what lbCache says; after a successful sync lbCache   *)
(* is what the annotations say.                                                              *)
OptionsInv ==
  /\ ann \in Annotations
  /\ DOMAIN ruleOf = Port
  /\ entry # None => \E b \in Annotations : entry = Stored(b)
  /\ pairs = {} => \A p \in Port : ruleOf[p] = None
  /\ pairs # {} => /\ pairs = Port /\ listed /\ entry # None
                   /\ \A p \in Port : /\ ruleOf[p] # None
                                      /\ ruleOf[p].options = MakeLoxiLoadBalancerModel(entry)
  /\ settled => pairs = Port /\ entry = Stored(ann)

(* What a sync does to the mutual TLS of the rules. *)
TlsStep ==
  \/ UNCHANGED <<pairs, ruleOf, asked>>
  \/ asked' = tls /\ (pairs' = {} \/ \A p \in Port : ruleOf'[p].tls = Tls)

LEMMA SyncInstalls ==
  ASSUME OptionConstants, AllOrNothing, OptionsInv, SyncOptions
  PROVE  OptionsInv' /\ TlsStep
<1>1. PICK c : c = IF entry = None THEN NewEntry(Options(ann)) ELSE entry
  BY Zenon
<1>2. ann' = ann
  BY Zenon DEF SyncOptions
<1>4. CASE NeedUpdate(Options(ann), c)
  <2>1. entry' = Stored(ann)
    BY <1>1, <1>4, Zenon DEF SyncOptions, Stored
  <2>2. PICK n \in IF Refuses THEN 0..NPorts ELSE {NPorts} :
          Install(n, Deleted(Options(ann), c), entry')
    BY <1>1, <1>4, Zenon DEF SyncOptions
  <2>3. \A p \in Port : Deleted(Options(ann), c)[p] = None
    <3>1. CASE pairs = {}
      BY <3>1, Zenon DEF OptionsInv, Deleted
    <3>2. CASE pairs # {}
      BY <1>1, <1>4, <3>2, Zenon DEF OptionsInv, NeedUpdate, Deleted
    <3> QED BY <3>1, <3>2, Zenon
  <2>4. n = NPorts \/ (n = 0 /\ NPorts = 1)
    BY DEF AllOrNothing, OptionConstants
  <2>5. ann' \in Annotations /\ entry' # None /\ \E b \in Annotations : entry' = Stored(b)
    BY <1>2, <2>1, Zenon DEF OptionsInv, OptionConstants, Stored
  <2>6. CASE n = NPorts
    <3>1. pairs' = Port /\ listed' /\ settled' /\ asked' = tls /\ DOMAIN ruleOf' = Port
      BY <2>2, <2>6, Zenon DEF Install, Cleared, Port
    <3>2. ASSUME NEW p \in Port
          PROVE  ruleOf'[p] = [options |-> MakeLoxiLoadBalancerModel(entry'), tls |-> Tls]
      <4>1. p <= n
        BY <2>6 DEF Port, OptionConstants
      <4> QED BY <2>2, <2>3, <4>1, Zenon DEF Install
    <3>3. \A p \in Port : /\ ruleOf'[p] # None
                          /\ ruleOf'[p].options = MakeLoxiLoadBalancerModel(entry')
                          /\ ruleOf'[p].tls = Tls
      BY <3>2 DEF OptionConstants
    <3>4. Stored(ann)' = Stored(ann) /\ MakeLoxiLoadBalancerModel(entry)' = MakeLoxiLoadBalancerModel(entry')
      BY <1>2, Zenon
    <3>5. OptionsInv'  BY <1>2, <2>1, <2>5, <3>1, <3>3, <3>4, Zenon DEF OptionsInv
    <3>6. TlsStep  BY <3>1, <3>3, Zenon DEF TlsStep
    <3> QED BY <3>5, <3>6, Zenon
  <2>7. CASE n = 0 /\ NPorts = 1
    <3>1. pairs' = {} /\ ~settled'
      <4>1. 1..0 = {} /\ 0 # 1
        OBVIOUS
      <4>2. pairs' = {} \cup 1..n /\ settled' = (n = NPorts)
        BY <2>2, Zenon DEF Install, Cleared
      <4> QED BY <2>7, <4>1, <4>2, Zenon
    <3>2. \A p \in Port : ruleOf'[p] = None
      BY <2>2, <2>3, <2>7 DEF Install, Port
    <3>3. asked' = tls /\ DOMAIN ruleOf' = Port  BY <2>2, Zenon DEF Install
    <3> QED BY <2>5, <3>1, <3>2, <3>3, Zenon DEF OptionsInv, TlsStep
  <2> QED BY <2>4, <2>6, <2>7, Zenon
<1>5. CASE ~NeedUpdate(Options(ann), c)
  <2>1. settled' = TRUE /\ UNCHANGED <<ann, entry, pairs, ruleOf, asked, listed>>
    BY <1>1, <1>5, Zenon DEF SyncOptions
  <2>2. pairs # {} /\ ~Differs(Options(ann), c)
    BY <1>5, Zenon DEF NeedUpdate
  <2>3. c = entry
    BY <1>1, <2>2, Zenon DEF OptionsInv
  <2>4. entry = Stored(ann)
    <3>1. PICK b \in Annotations : entry = Stored(b)
      BY <2>2, Zenon DEF OptionsInv
    <3> QED BY <2>2, <2>3, <3>1, SameStored, Zenon DEF OptionsInv
  <2> QED BY <2>1, <2>2, <2>4, Zenon DEF OptionsInv, TlsStep
<1> QED BY <1>4, <1>5, Zenon

LEMMA OptionsInvariant ==
  ASSUME OptionConstants, AllOrNothing
  PROVE  OptionsSpec => []OptionsInv
<1>1. OptionsInit => OptionsInv
  BY Zenon DEF OptionsInit, OptionsInv
<1>2. OptionsInv /\ [OptionsNext]_optionsVars => OptionsInv'
  <2> SUFFICES ASSUME OptionsInv, [OptionsNext]_optionsVars PROVE OptionsInv'
    BY Zenon
  <2>1. CASE UNCHANGED optionsVars
    BY <2>1, Zenon DEF optionsVars, OptionsInv
  <2>2. CASE SyncError
    BY <2>2, Zenon DEF SyncError, OptionsInv
  <2>3. CASE SyncOptions
    BY <2>3, SyncInstalls, Zenon
  <2>4. CASE EditAnnotation
    BY <2>4, Zenon DEF EditAnnotation, Edit, OptionsInv
  <2>5. CASE EditTls
    BY <2>5, Zenon DEF EditTls, Edit, OptionsInv
  <2> QED BY <2>1, <2>2, <2>3, <2>4, <2>5, Zenon DEF OptionsNext
<1> QED BY <1>1, <1>2, PTL DEF OptionsSpec

LEMMA OptionsAreApplied ==
  ASSUME OptionConstants, AllOrNothing
  PROVE  OptionsSpec => []OptionsApplied
<1>1. OptionsInv => OptionsApplied
  <2> SUFFICES ASSUME OptionsInv, settled, NEW p \in Port
               PROVE  /\ ruleOf[p] # None
                      /\ ruleOf[p].options = MakeLoxiLoadBalancerModel(Stored(ann))
    BY Zenon DEF OptionsInv, OptionsApplied, Stored, UpdatedEntry
  <2> QED BY Zenon DEF OptionsInv
<1> QED BY <1>1, OptionsInvariant, PTL

(* While nobody edits it a service that was synced is not deleted and installed again: if       *)
(* probe ports are of 16 bits, what addLoadBalancer parses compares equal to what it has stored. *)
THEOREM SettledServicesSteady ==
  ASSUME OptionConstants, AllOrNothing, NPorts > 0,
         \A a \in Annotations : 0 <= ProbePort(a) /\ ProbePort(a) < 65536
  PROVE  OptionsSpec => []Steady
<1>1. ASSUME NEW a \in Annotations PROVE ~Differs(Options(a), Stored(a))
  <2>1. ProbePort(a) % 65536 = ProbePort(a)
    <3>1. \A n \in Int : 0 <= n /\ n < 65536 => n % 65536 = n
      OBVIOUS
    <3>2. ProbePort(a) \in Int
      BY DEF ProbePort, Atoi, OptionConstants
    <3> QED BY <3>1, <3>2
  <2>2. Stored(a) = Options(a)
    BY <2>1 DEF Stored, UpdatedEntry, Uint16, Options
  <2> QED BY <2>2 DEF Differs
<1>2. Port # {}
  <2>1. 1 \in Port
    BY DEF Port, OptionConstants
  <2> QED BY <2>1
<1>3. OptionsInv => Steady
  BY <1>1, <1>2 DEF OptionsInv, Steady, NeedUpdate
<1> QED BY <1>3, OptionsInvariant, PTL

(* The annotations of mutual TLS as the model enumerates them. *)
TlsConstants ==
  /\ FirstTls \subseteq [front : {None, Bad, "disabled", "optional", "required"}, secret : BOOLEAN,
                         cn : {None, "no pattern", "pattern"}, verify : BOOLEAN, client : BOOLEAN]
  /\ \A m, k, c : [mode |-> m, ca |-> k, cn |-> c] # None
  /\ None \notin {"optional", "required"}

LEMMA KeysOfSecret ==
  ASSUME NEW k, NEW fallback
  PROVE  KeyOf(k, fallback) \in {{}, {k}, {fallback}}
BY Zenon DEF KeyOf

(* What getMtlsFrontendConfig and getMtlsBackendConfig return without an error. *)
LEMMA ConfigOfTls ==
  ASSUME TlsConstants, tls \in FirstTls, TlsOk
  PROVE  Obeys(tls, Tls)
<1> DEFINE ca == KeyOf("client-ca.crt", "server.crt")
           crt == KeyOf("tls.crt", "server.crt")
           key == KeyOf("tls.key", "server.key")
<1>1. tls \in [front : {None, Bad, "disabled", "optional", "required"}, secret : BOOLEAN,
               cn : {None, "no pattern", "pattern"}, verify : BOOLEAN, client : BOOLEAN]
  BY Zenon DEF TlsConstants
<1>2. Tls.front = GetMtlsFrontendConfig.cfg /\ Tls.back = GetMtlsBackendConfig.cfg
  BY Zenon DEF Tls
<1>3. GetMtlsFrontendConfig.ok /\ GetMtlsBackendConfig.ok
  BY Zenon DEF TlsOk
<1>4. FrontendOff => Tls.front = None
  BY <1>2, Zenon DEF GetMtlsFrontendConfig, Ok
<1>5. ~FrontendOff => /\ Tls.front = [mode |-> tls.front, ca |-> ca, cn |-> tls.cn]
                      /\ tls.cn # "no pattern"
  <2> HAVE ~FrontendOff
  <2> DEFINE Good == /\ tls.front \in {"optional", "required"} /\ tls.secret
                     /\ ca # {} /\ tls.cn # "no pattern"
  <2>1. CASE Good
    <3>1. GetMtlsFrontendConfig = Ok([mode |-> tls.front, ca |-> ca, cn |-> tls.cn])
      BY <2>1, Zenon DEF GetMtlsFrontendConfig
    <3> QED BY <1>2, <2>1, <3>1, Zenon DEF Ok
  <2>2. CASE ~Good
    <3>1. GetMtlsFrontendConfig = Error
      BY <2>2, Zenon DEF GetMtlsFrontendConfig
    <3> QED BY <1>3, <3>1, Zenon DEF Error
  <2> QED BY <2>1, <2>2, Zenon
<1>6. tls.verify /\ tls.client => /\ Tls.back = [client |-> crt \cup key] /\ crt # {} /\ key # {}
  <2> HAVE tls.verify /\ tls.client
  <2> DEFINE Good == /\ tls.secret => KeyOf("backend-ca.crt", "server.crt") # {}
                     /\ crt # {} /\ key # {}
  <2>1. CASE Good
    <3>1. GetMtlsBackendConfig = Ok([client |-> crt \cup key])
      BY <2>1, Zenon DEF GetMtlsBackendConfig
    <3> QED BY <1>2, <2>1, <3>1, Zenon DEF Ok
  <2>2. CASE ~Good
    <3>1. GetMtlsBackendConfig = Error
      BY <2>2, Zenon DEF GetMtlsBackendConfig
    <3> QED BY <1>3, <3>1, Zenon DEF Error
  <2> QED BY <2>1, <2>2, Zenon
<1>7. ASSUME crt # {}, key # {} PROVE Cardinality(crt \cup key) = 2
  <2>1. crt = {"tls.crt"} \/ crt = {"server.crt"}
    BY <1>7, KeysOfSecret, Zenon
  <2>2. key = {"tls.key"} \/ key = {"server.key"}
    BY <1>7, KeysOfSecret, Zenon
  <2>3. PICK c, k : crt = {c} /\ key = {k} /\ c # k
    BY <2>1, <2>2, Zenon
  <2>4. IsFiniteSet({c}) /\ Cardinality({c}) = 1
    BY FS_Singleton, Zenon
  <2>5. Cardinality({c} \cup {k}) = Cardinality({c}) + 1
    BY <2>3, <2>4, FS_AddElement, Zenon
  <2> QED BY <2>3, <2>4, <2>5
<1> HIDE DEF ca, crt, key
<1>8. tls.front # None /\ tls.front # "disabled" <=> ~FrontendOff
  BY Zenon DEF FrontendOff
<1>9. tls.front \in {"optional", "required"} => ~FrontendOff
  BY Zenon DEF FrontendOff, TlsConstants
<1>10. ~FrontendOff => /\ Tls.front # None /\ Tls.front.mode = tls.front
                       /\ tls.cn # None => Tls.front.cn = "pattern"
  <2> HAVE ~FrontendOff
  <2>1. tls.cn \in {None, "no pattern", "pattern"}
    BY <1>1, Zenon
  <2>2. [mode |-> tls.front, ca |-> ca, cn |-> tls.cn] # None
    BY Zenon DEF TlsConstants
  <2>3. Tls.front.mode = tls.front /\ Tls.front.cn = tls.cn
    <3>1. \A m, k, c : /\ [mode |-> m, ca |-> k, cn |-> c].mode = m
                       /\ [mode |-> m, ca |-> k, cn |-> c].cn = c
      BY Zenon
    <3>2. PICK f, m, k, c : f = Tls.front /\ m = tls.front /\ c = tls.cn /\ f = [mode |-> m, ca |-> k, cn |-> c]
      BY <1>5, Zenon
    <3>3. f.mode = m /\ f.cn = c
      BY <3>1, <3>2
    <3> QED BY <3>2, <3>3, Zenon
  <2> QED BY <1>5, <2>1, <2>2, <2>3, Zenon
<1>11. tls.verify /\ tls.client => Cardinality(Tls.back.client) = 2
  BY <1>6, <1>7
<1> QED BY <1>4, <1>8, <1>9, <1>10, <1>11, Zenon DEF Obeys

(* The rules there are have what their last update was asked for. *)
TlsInv ==
  /\ tls \in FirstTls
  /\ pairs # {} => \A p \in Port : Obeys(asked, ruleOf[p].tls)

(* For every Secret and all mutual TLS annotations, whenever they are edited: after a sync   *)
(* that succeeds, the rule of every port has the mode, the pattern and the client            *)
(* certificate with its key that the annotations asked for when the rules were last made      *)
(* (getMtlsFrontendConfig, getMtlsBackendConfig, and SyncError, which installs nothing when    *)
(* one of them fails).  A sync does not compare the annotations with the rules: what they     *)
(* have been changed to since then is not claimed.                                           *)
THEOREM TlsIsApplied ==
  ASSUME OptionConstants, TlsConstants, AllOrNothing
  PROVE  OptionsSpec => []TlsApplied
<1>1. OptionsInit => TlsInv
  BY Zenon DEF OptionsInit, TlsInv
<1>2. OptionsInv /\ TlsInv /\ [OptionsNext]_optionsVars => TlsInv'
  <2> SUFFICES ASSUME OptionsInv, TlsInv, [OptionsNext]_optionsVars PROVE TlsInv'
    BY Zenon
  <2>1. CASE UNCHANGED optionsVars
    BY <2>1, Zenon DEF optionsVars, TlsInv
  <2>2. CASE SyncError
    BY <2>2, Zenon DEF SyncError, TlsInv
  <2>3. CASE SyncOptions
    <3>1. TlsStep  BY <2>3, SyncInstalls, Zenon
    <3>2. UNCHANGED tls /\ TlsOk  BY <2>3, Zenon DEF SyncOptions
    <3>3. Obeys(tls, Tls)  BY <3>2, ConfigOfTls, Zenon DEF TlsInv
    <3> QED BY <3>1, <3>2, <3>3, Zenon DEF TlsStep, TlsInv
  <2>4. CASE EditAnnotation
    BY <2>4, Zenon DEF EditAnnotation, TlsInv
  <2>5. CASE EditTls
    <3>1. tls' \in FirstTls /\ UNCHANGED <<pairs, ruleOf, asked>>
      BY <2>5, Zenon DEF EditTls, TlsInv
    <3> QED BY <3>1, Zenon DEF TlsInv
  <2> QED BY <2>1, <2>2, <2>3, <2>4, <2>5, Zenon DEF OptionsNext
<1>3. OptionsInv /\ TlsInv => TlsApplied
  <2> SUFFICES ASSUME OptionsInv, TlsInv, settled, NEW p \in Port
               PROVE  Obeys(asked, ruleOf[p].tls)
    BY Zenon DEF OptionsInv, TlsApplied
  <2>1. pairs # {}  BY Zenon DEF OptionsInv
  <2> QED BY <2>1, Zenon DEF TlsInv
<1> QED BY <1>1, <1>2, <1>3, OptionsInvariant, PTL DEF OptionsSpec

(* For all annotations and Secrets, however they are edited between syncs: after a sync      *)
(* that succeeds, the rule of every port is there with the options that they ask for and the   *)
(* mutual TLS configuration they asked for at its last update (addLoadBalancer and its          *)
(* comparisons with lbCache), if the service has one port or instances refuse no rule.        *)
THEOREM RulesFollowOptions ==
  ASSUME OptionConstants, TlsConstants, AllOrNothing
  PROVE  OptionsSpec => []RuleFollowsOptions
<1>1. OptionsApplied /\ TlsApplied => RuleFollowsOptions
  BY Zenon DEF RuleFollowsOptions
<1> QED BY <1>1, OptionsAreApplied, TlsIsApplied, PTL
=============================================================================
