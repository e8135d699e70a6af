---------------------------- MODULE RouteProofs ----------------------------
(***************************************************************************)
(* The managers of routes never delete a Service that a user made, for any    *)
(* number of managers, workers, routes, backends and Gateways, although they   *)
(* delete by a list that was made before, and whatever calls fail.             *)
(*                                                                         *)
(* What is on the list of a worker that deletes stays there, and stays the      *)
(* route's, until that worker deletes it: another worker of the manager has      *)
(* another route, because the queue gives out a key once; a worker of another     *)
(* manager has routes of another kind; and a user only touches what carries no     *)
(* route's name.  So RouteInv, which says so, is inductive.                      *)
(***************************************************************************)
EXTENDS Routes, SequenceTheorems, FiniteSetTheorems, TLAPS

-----------------------------------------------------------------------------
(* The work queue. *)

(* What the library keeps true of a queue of items: an item waits once, and not     *)
(* while a worker has it.                                                          *)
Sound(q, Item) ==
  /\ q \in [fifo : Seq(Item), busy : SUBSET Item, again : SUBSET Item, later : SUBSET Item]
  /\ q.again \subseteq q.busy
  /\ \A i, j \in 1..Len(q.fifo) : q.fifo[i] = q.fifo[j] => i = j
  /\ \A i \in 1..Len(q.fifo) : q.fifo[i] \notin q.busy

(* A new item at the end is once in the queue. *)
LEMMA QueueAppends ==
  ASSUME NEW Item, NEW s \in Seq(Item), NEW x \in Item, NEW B,
         \A i, j \in 1..Len(s) : s[i] = s[j] => i = j,
         \A i \in 1..Len(s) : s[i] \notin B /\ s[i] # x,
         x \notin B
  PROVE  /\ Append(s, x) \in Seq(Item)
         /\ \A i, j \in 1..Len(Append(s, x)) : Append(s, x)[i] = Append(s, x)[j] => i = j
         /\ \A i \in 1..Len(Append(s, x)) : Append(s, x)[i] \notin B
<1>1. /\ Append(s, x) \in Seq(Item) /\ Len(Append(s, x)) = Len(s) + 1 /\ Len(s) \in Nat
      /\ \A i \in 1..Len(s) : Append(s, x)[i] = s[i]
      /\ Append(s, x)[Len(s) + 1] = x
  BY AppendProperties, LenProperties
<1>2. \A i \in 1..(Len(s) + 1) : i \in 1..Len(s) \/ i = Len(s) + 1  BY <1>1
<1> QED  BY <1>1, <1>2, Zenon

(* Add, AddRateLimited and the end of a delay, Get and Done keep a queue sound: this  *)
(* is the promise of the library that the managers rely on.                          *)
LEMMA QueueAdds ==
  ASSUME NEW Item, NEW q, Sound(q, Item), NEW x \in Item
  PROVE  Sound(Add(q, x), Item) /\ Add(q, x).busy = q.busy
<1>1. CASE x \in ToSet(q.fifo) \cup q.again  BY <1>1, Zenon DEF Add
<1>2. CASE x \notin ToSet(q.fifo) \cup q.again /\ x \in q.busy
  BY <1>2, Zenon DEF Add, Sound
<1>3. CASE x \notin ToSet(q.fifo) \cup q.again /\ x \notin q.busy
  <2>1. Add(q, x) = [q EXCEPT !.fifo = Append(q.fifo, x)]  BY <1>3, Zenon DEF Add
  <2>2. q.fifo \in Seq(Item)  BY Zenon DEF Sound
  <2>3. \A i \in 1..Len(q.fifo) : q.fifo[i] \notin q.busy /\ q.fifo[i] # x
    BY <1>3, <2>2, LenProperties, Zenon DEF Sound, ToSet
  <2>4. /\ Append(q.fifo, x) \in Seq(Item)
        /\ \A i, j \in 1..Len(Append(q.fifo, x)) : Append(q.fifo, x)[i] = Append(q.fifo, x)[j] => i = j
        /\ \A i \in 1..Len(Append(q.fifo, x)) : Append(q.fifo, x)[i] \notin q.busy
    BY <1>3, <2>2, <2>3, QueueAppends, Zenon DEF Sound
  <2> QED  BY <2>1, <2>4, Zenon DEF Sound
<1> QED  BY <1>1, <1>2, <1>3, Zenon

LEMMA QueueElapses ==
  ASSUME NEW Item, NEW q, Sound(q, Item), NEW x \in Item
  PROVE  Sound(Elapse(q, x), Item) /\ Elapse(q, x).busy = q.busy
<1>1. Sound([q EXCEPT !.later = q.later \ {x}], Item) /\ [q EXCEPT !.later = q.later \ {x}].busy = q.busy
  BY Zenon DEF Sound
<1> QED  BY <1>1, QueueAdds, Zenon DEF Elapse

(* The item a worker gets was with no worker. *)
LEMMA QueueGets ==
  ASSUME NEW Item, NEW q, Sound(q, Item), CanGet(q)
  PROVE  /\ Sound(Get(q), Item) /\ Get(q).busy = q.busy \cup {Head(q.fifo)}
         /\ Head(q.fifo) \in Item /\ Head(q.fifo) \notin q.busy
<1>1. q.fifo \in Seq(Item) /\ q.fifo # <<>>  BY Zenon DEF Sound, CanGet
<1>2. /\ Head(q.fifo) \in Item /\ Tail(q.fifo) \in Seq(Item) /\ Len(q.fifo) \in Nat \ {0}
      /\ Len(Tail(q.fifo)) = Len(q.fifo) - 1 /\ Head(q.fifo) = q.fifo[1]
      /\ \A i \in 1..Len(Tail(q.fifo)) : Tail(q.fifo)[i] = q.fifo[i + 1]
  BY <1>1, HeadTailProperties, LenProperties, EmptySeq
<1>3. /\ \A i, j \in 1..Len(Tail(q.fifo)) : Tail(q.fifo)[i] = Tail(q.fifo)[j] => i = j
      /\ \A i \in 1..Len(Tail(q.fifo)) : Tail(q.fifo)[i] \notin q.busy /\ Tail(q.fifo)[i] # Head(q.fifo)
  BY <1>2 DEF Sound
<1>4. Get(q) = [q EXCEPT !.fifo = Tail(q.fifo), !.busy = q.busy \cup {Head(q.fifo)}]  BY Zenon DEF Get
<1>5. Head(q.fifo) \notin q.busy  BY <1>2 DEF Sound
<1>6. /\ Get(q) \in [fifo : Seq(Item), busy : SUBSET Item, again : SUBSET Item, later : SUBSET Item]
      /\ Get(q).fifo = Tail(q.fifo) /\ Get(q).busy = q.busy \cup {Head(q.fifo)}
      /\ Get(q).again = q.again /\ q.again \subseteq q.busy
  <2>1. /\ q \in [fifo : Seq(Item), busy : SUBSET Item, again : SUBSET Item, later : SUBSET Item]
        /\ q.again \subseteq q.busy
    BY Zenon DEF Sound
  <2>2. Tail(q.fifo) \in Seq(Item) /\ q.busy \cup {Head(q.fifo)} \in SUBSET Item  BY <1>2, <2>1, Zenon
  <2>3. PICK s \in Seq(Item) : s = Tail(q.fifo)  BY <2>2, Zenon
  <2>4. PICK b \in SUBSET Item : b = q.busy \cup {Head(q.fifo)}  BY <2>2, Zenon
  <2>5. Get(q) = [q EXCEPT !.fifo = s, !.busy = b]  BY <1>4, <2>3, <2>4, Zenon
  <2>6. /\ Get(q) \in [fifo : Seq(Item), busy : SUBSET Item, again : SUBSET Item, later : SUBSET Item]
        /\ Get(q).fifo = s /\ Get(q).busy = b /\ Get(q).again = q.again
    BY <2>1, <2>5, Zenon
  <2> QED  BY <2>1, <2>3, <2>4, <2>6, Zenon
<1>7. Sound(Get(q), Item)  BY <1>3, <1>6, Zenon DEF Sound
<1> QED  BY <1>2, <1>5, <1>6, <1>7, Zenon

LEMMA QueueDone ==
  ASSUME NEW Item, NEW q, Sound(q, Item), NEW x \in q.busy
  PROVE  Sound(Done(q, x), Item) /\ Done(q, x).busy = q.busy \ {x}
<1>1. CASE x \in q.again
  <2>1. Done(q, x) = [q EXCEPT !.busy = q.busy \ {x}, !.again = q.again \ {x}, !.fifo = Append(q.fifo, x)]
    BY <1>1, Zenon DEF Done
  <2>2. q.fifo \in Seq(Item) /\ x \in Item  BY Zenon DEF Sound
  <2>3. \A i \in 1..Len(q.fifo) : q.fifo[i] \notin q.busy \ {x} /\ q.fifo[i] # x  BY Zenon DEF Sound
  <2>4. /\ Append(q.fifo, x) \in Seq(Item)
        /\ \A i, j \in 1..Len(Append(q.fifo, x)) : Append(q.fifo, x)[i] = Append(q.fifo, x)[j] => i = j
        /\ \A i \in 1..Len(Append(q.fifo, x)) : Append(q.fifo, x)[i] \notin q.busy \ {x}
    BY <2>2, <2>3, QueueAppends DEF Sound
  <2> QED  BY <2>1, <2>4 DEF Sound
<1>2. CASE x \notin q.again
  <2>1. Done(q, x) = [q EXCEPT !.busy = q.busy \ {x}, !.again = q.again \ {x}, !.fifo = q.fifo]
    BY <1>2, Zenon DEF Done
  <2> QED  BY <2>1, <1>2, Zenon DEF Sound
<1> QED  BY <1>1, <1>2, Zenon

(* An item that failed is put off before it is marked done. *)
LEMMA QueueEnds ==
  ASSUME NEW Item, NEW q, Sound(q, Item), NEW x \in q.busy
  PROVE  LET p == Done(AddRateLimited(q, x), x) IN Sound(p, Item) /\ p.busy = q.busy \ {x}
<1>1. Sound(AddRateLimited(q, x), Item) /\ AddRateLimited(q, x).busy = q.busy
  BY Zenon DEF Sound, AddRateLimited
<1> QED  BY <1>1, QueueDone, Zenon

(* The queue of a process that has just listed its routes. *)
LEMMA QueueStarts ==
  ASSUME NEW Item, NEW S \in SUBSET Item, IsFiniteSet(Item)
  PROVE  LET q == [EmptyQueue EXCEPT !.fifo = SetToSeq(S)] IN Sound(q, Item) /\ q.busy = {}
<1>1. IsFiniteSet(S)  BY FS_Subset, Zenon
<1>2. PICK n \in Nat : ExistsBijection(1..n, S)  BY <1>1, FS_NatBijection, Zenon
<1>3. Cardinality(S) = n  BY <1>2, FS_CountingElements, Zenon
<1>5. \E f \in [1..n -> S] : IsInjective(f)
  BY <1>2, Zenon DEF ExistsBijection, Bijection, Injection, IsInjective
<1>6. SetToSeq(S) \in [1..n -> S] /\ IsInjective(SetToSeq(S))  BY <1>3, <1>5, Zenon DEF SetToSeq
<1>7. SetToSeq(S) \in Seq(Item) /\ Len(SetToSeq(S)) = n /\ DOMAIN SetToSeq(S) = 1..n
  BY <1>6, SeqDef
<1> QED  BY <1>6, <1>7, Zenon DEF Sound, EmptyQueue, IsInjective

-----------------------------------------------------------------------------
(* The inductive invariant. *)

(* A worker is idle, is about to list, deletes what is the route's and in the route's  *)
(* namespace, or makes Services, where it updates what it saw to be the route's.        *)
Listing(s) == s.at = "list"
Deleting(k, s) ==
  /\ s.at = "delete" /\ DOMAIN s = {"at", "key", "own"} /\ s.own \subseteq Resource
  /\ s.key.name # None
  /\ \A x \in s.own : x.ns = s.key.ns /\ out[x] # None /\ out[x].by[k] = s.key.name
Making(k, s) ==
  /\ s.at \in {"gateway", "get", "create", "duplicate", "update", "ingress"}
  /\ DOMAIN s = {"at", "key", "spec", "parents", "backends", "ip", "seen"}
  /\ s.spec \in Specs[k]
  /\ s.at = "update" => s.seen # None /\ s.seen.by[k] = s.key.name
Works(k, s) == s = Idle \/ Listing(s) \/ Deleting(k, s) \/ Making(k, s)

(* The queues are sound, and a worker's key is with that worker. *)
Queues ==
  /\ DOMAIN queue = Kind /\ DOMAIN proc = Kind
  /\ \A k \in Kind :
       /\ Sound(queue[k], Key) /\ DOMAIN proc[k] = Worker
       /\ \A w \in Worker : proc[k][w] # Idle => proc[k][w].key \in queue[k].busy

(* No two workers of a manager have the same route. *)
OneWorker ==
  \A k \in Kind : \A v, w \in Worker :
    v # w /\ proc[k][v] # Idle /\ proc[k][w] # Idle => proc[k][v].key # proc[k][w].key

(* The lister has specs of users. *)
Listed ==
  /\ DOMAIN route = Kind
  /\ \A k \in Kind : /\ DOMAIN route[k] = Key
                     /\ \A r \in Key : route[k][r] # None => route[k][r] \in Specs[k]

(* A Service of a user carries no route's name, and no Service those of two kinds. *)
MarkedOnce(o) ==
  /\ DOMAIN o.by = Kinds
  /\ o.user => \A j \in Kind : o.by[j] = None
  /\ \A i, j \in Kind : o.by[i] # None /\ o.by[j] # None => i = j
Marked == DOMAIN out = Resource /\ \A x \in Resource : out[x] # None => MarkedOnce(out[x])

RouteInv ==
  /\ Queues /\ OneWorker /\ Listed /\ Marked
  /\ \A k \in Kind : \A w \in Worker : Works(k, proc[k][w])

(* There are finitely many keys, the managers are those of Kinds, and None is no       *)
(* Service and no route's name.                                                       *)
RouteConstants ==
  /\ IsFiniteSet(Key) /\ Kind \subseteq Kinds /\ None \notin Name
  /\ \A m : DOMAIN m = {"user", "class", "notes", "by", "ip", "text"} => m # None

(* The steps of a worker: it is done with its route, ... *)
LEMMA Ends ==
  ASSUME Queues, OneWorker, NEW k \in Kind, NEW w \in Worker, NEW ok \in BOOLEAN,
         proc[k][w] # Idle, End(k, w, ok)
  PROVE  /\ Queues' /\ OneWorker' /\ proc'[k][w] = Idle
         /\ \A j \in Kind : \A v \in Worker : j # k \/ v # w => proc'[j][v] = proc[j][v]
<1>1. /\ DOMAIN proc' = Kind /\ \A j \in Kind : DOMAIN proc'[j] = Worker
      /\ proc'[k][w] = Idle
      /\ \A j \in Kind : \A v \in Worker : j # k \/ v # w => proc'[j][v] = proc[j][v]
  BY Zenon DEF Queues, End, GoesTo
<1>2. PICK r : r = proc[k][w].key  BY Zenon
<1>3. Sound(queue[k], Key) /\ r \in queue[k].busy  BY <1>2, Zenon DEF Queues
<1>4. Sound(queue'[k], Key) /\ queue'[k].busy = queue[k].busy \ {r}
  <2>1. CASE ok
    <3>1. queue'[k] = Done(queue[k], r)  BY <2>1, <1>2, Zenon DEF End, Queues
    <3> QED  BY <3>1, <1>3, QueueDone
  <2>2. CASE ~ok
    <3>1. queue'[k] = Done(AddRateLimited(queue[k], r), r)  BY <2>2, <1>2, Zenon DEF End, Queues
    <3> QED  BY <3>1, <1>3, QueueEnds
  <2> QED  BY <2>1, <2>2, Zenon
<1>5. DOMAIN queue' = Kind /\ \A j \in Kind : j # k => queue'[j] = queue[j]  BY Zenon DEF End, Queues
<1>6. \A v \in Worker : v # w /\ proc[k][v] # Idle => proc[k][v].key # r  BY <1>2, Zenon DEF OneWorker
<1>7. OneWorker'
  BY <1>1 DEF OneWorker
<1>8. \A j \in Kind : /\ Sound(queue'[j], Key)
                      /\ \A v \in Worker : proc'[j][v] # Idle => proc'[j][v].key \in queue'[j].busy
  BY <1>1, <1>4, <1>5, <1>6 DEF Queues
<1> QED  BY <1>1, <1>5, <1>7, <1>8, Zenon DEF Queues

(* ... goes on with it, ... *)
LEMMA Continues ==
  ASSUME Queues, OneWorker, NEW k \in Kind, NEW w \in Worker, NEW s,
         proc[k][w] # Idle, GoesTo(k, w, s), s.key = proc[k][w].key, UNCHANGED queue
  PROVE  /\ Queues' /\ OneWorker' /\ proc'[k][w] = s
         /\ \A j \in Kind : \A v \in Worker : j # k \/ v # w => proc'[j][v] = proc[j][v]
<1>1. /\ DOMAIN proc' = Kind /\ \A j \in Kind : DOMAIN proc'[j] = Worker
      /\ proc'[k][w] = s
      /\ \A j \in Kind : \A v \in Worker : j # k \/ v # w => proc'[j][v] = proc[j][v]
  BY Zenon DEF Queues, GoesTo
<1>2. \A j \in Kind : \A v \in Worker :
        proc'[j][v] # Idle => proc[j][v] # Idle /\ proc'[j][v].key = proc[j][v].key
  BY <1>1, Zenon
<1>3. OneWorker'  BY <1>2 DEF OneWorker
<1>4. Queues'  BY <1>1, <1>2, Zenon DEF Queues
<1> QED  BY <1>1, <1>3, <1>4, Zenon

(* ... gets the next one, ... *)
LEMMA Starts ==
  ASSUME Queues, OneWorker, NEW k \in Kind, NEW w \in Worker, NEW s,
         proc[k][w] = Idle, CanGet(queue[k]), GoesTo(k, w, s), s.key = Head(queue[k].fifo),
         queue' = [queue EXCEPT ![k] = Get(queue[k])]
  PROVE  /\ Queues' /\ OneWorker' /\ proc'[k][w] = s /\ s.key \in Key
         /\ \A j \in Kind : \A v \in Worker : j # k \/ v # w => proc'[j][v] = proc[j][v]
<1>1. /\ DOMAIN proc' = Kind /\ \A j \in Kind : DOMAIN proc'[j] = Worker
      /\ proc'[k][w] = s
      /\ \A j \in Kind : \A v \in Worker : j # k \/ v # w => proc'[j][v] = proc[j][v]
  BY Zenon DEF Queues, GoesTo
<1>2. Sound(queue[k], Key)  BY Zenon DEF Queues
<1>3. /\ Sound(Get(queue[k]), Key) /\ Get(queue[k]).busy = queue[k].busy \cup {s.key}
      /\ s.key \in Key /\ s.key \notin queue[k].busy
  BY <1>2, QueueGets
<1>4. /\ DOMAIN queue' = Kind /\ queue'[k] = Get(queue[k])
      /\ \A j \in Kind : j # k => queue'[j] = queue[j]
  BY Zenon DEF Queues
<1>5. \A v \in Worker : v # w /\ proc[k][v] # Idle => proc[k][v].key # s.key  BY <1>3, Zenon DEF Queues
<1>6. OneWorker'  BY <1>1, <1>5 DEF OneWorker
<1>7. \A j \in Kind : /\ Sound(queue'[j], Key)
                      /\ \A v \in Worker : proc'[j][v] # Idle => proc'[j][v].key \in queue'[j].busy
  BY <1>1, <1>3, <1>4 DEF Queues
<1> QED  BY <1>1, <1>3, <1>4, <1>6, <1>7, Zenon DEF Queues

(* ... or meets a nil pointer, which ends all workers. *)
LEMMA Restarts ==
  ASSUME RouteConstants, Panic
  PROVE  Queues' /\ OneWorker' /\ \A k \in Kind : \A w \in Worker : proc'[k][w] = Idle
<1>1. /\ DOMAIN proc' = Kind /\ \A k \in Kind : DOMAIN proc'[k] = Worker
      /\ \A k \in Kind : \A w \in Worker : proc'[k][w] = Idle
  BY Zenon DEF Panic
<1>2. ASSUME NEW k \in Kind  PROVE Sound(queue'[k], Key)
  <2>1. PICK S : S = {r \in Key : route[k][r] # None}  BY Zenon
  <2>2. queue'[k] = [EmptyQueue EXCEPT !.fifo = SetToSeq(S)]  BY <2>1, Zenon DEF Panic
  <2>3. S \in SUBSET Key  BY <2>1, Zenon
  <2>4. IsFiniteSet(Key)  BY Zenon DEF RouteConstants
  <2> QED  BY <2>2, <2>3, <2>4, QueueStarts, Zenon
<1>3. DOMAIN queue' = Kind  BY Zenon DEF Panic
<1> QED  BY <1>1, <1>2, <1>3, Zenon DEF Queues, OneWorker

(* Only worker w of kind k has moved, to a state that is in order. *)
Moves(k, w) ==
  /\ Queues' /\ OneWorker' /\ Works(k, proc[k][w])'
  /\ \A j \in Kind : \A v \in Worker : j # k \/ v # w => proc'[j][v] = proc[j][v]

(* A step that leaves alone what the routes have made. *)
LEMMA MovesKeep ==
  ASSUME RouteConstants, RouteInv, NEW k \in Kind, NEW w \in Worker, Moves(k, w), UNCHANGED route, Marked',
         \A x \in Resource : \A j \in Kind :
           out[x] # None /\ out[x].by[j] # None => out'[x] # None /\ out'[x].by[j] = out[x].by[j]
  PROVE  RouteInv'
<1>1. Listed'  BY Zenon DEF RouteInv, Listed
<1>2. ASSUME NEW j \in Kind, NEW v \in Worker, j # k \/ v # w
      PROVE  Works(j, proc[j][v])'
  <2>1. PICK s : s = proc[j][v]  BY Zenon
  <2>2. proc'[j][v] = s /\ Works(j, s)  BY <1>2, <2>1, Zenon DEF Moves, RouteInv
  <2>3. CASE Deleting(j, s)
    <3>1. \A x \in s.own : /\ x \in Resource /\ x.ns = s.key.ns /\ out[x] # None
                           /\ out[x].by[j] = s.key.name /\ s.key.name # None
      BY <2>3, Zenon DEF Deleting
    <3>3. \A x \in s.own : x.ns = s.key.ns /\ out'[x] # None /\ out'[x].by[j] = s.key.name  BY <3>1, Zenon
    <3> QED  BY <2>2, <2>3, <3>3, Zenon DEF Works, Deleting
  <2>4. CASE s = Idle \/ Listing(s) \/ Making(j, s)
    BY <2>2, <2>4, Zenon DEF Works, Listing, Making, Idle
  <2> QED  BY <2>2, <2>3, <2>4, Zenon DEF Works
<1>3. \A j \in Kind : \A v \in Worker : Works(j, proc[j][v])'  BY <1>2, Zenon DEF Moves
<1> QED  BY <1>1, <1>3, Zenon DEF RouteInv, Moves

LEMMA EndMoves ==
  ASSUME Queues, OneWorker, NEW k \in Kind, NEW w \in Worker, NEW ok \in BOOLEAN, proc[k][w] # Idle,
         End(k, w, ok)
  PROVE  Moves(k, w)
BY Ends, Zenon DEF Moves, Works, Idle

LEMMA StepMoves ==
  ASSUME Queues, OneWorker, NEW k \in Kind, NEW w \in Worker, NEW s, proc[k][w] # Idle,
         GoesTo(k, w, s), s.key = proc[k][w].key, UNCHANGED queue, Making(k, s)
  PROVE  Moves(k, w)
<1>1. Queues' /\ OneWorker' /\ proc'[k][w] = s
      /\ \A j \in Kind : \A v \in Worker : j # k \/ v # w => proc'[j][v] = proc[j][v]
  BY Continues, Zenon
<1>2. Works(k, proc[k][w])'  BY <1>1, Zenon DEF Works, Making
<1> QED  BY <1>1, <1>2, Zenon DEF Moves

(* On to the next backend or the next parent. *)
LEMMA AdvanceMoves ==
  ASSUME Queues, OneWorker, NEW k \in Kind, NEW w \in Worker, Making(k, proc[k][w]), Advance(k, w)
  PROVE  Moves(k, w)
<1>1. PICK s : s = proc[k][w]  BY Zenon
<1>2. s # Idle  BY <1>1 DEF Making, Idle
<1>3. CASE End(k, w, TRUE)  BY <1>1, <1>2, <1>3, EndMoves, Zenon
<1>4. CASE GoesTo(k, w, [s EXCEPT !.at = "get", !.backends = Tail(s.backends)]) /\ UNCHANGED queue
  <2>1. PICK t : t = [s EXCEPT !.at = "get", !.backends = Tail(s.backends)]  BY Zenon
  <2>2. Making(k, t) /\ t.key = s.key  BY <1>1, <2>1, Zenon DEF Making
  <2> QED  BY <1>1, <1>2, <1>4, <2>1, <2>2, StepMoves, Zenon
<1>5. CASE GoesTo(k, w, [s EXCEPT !.at = "gateway", !.parents = Tail(s.parents), !.backends = <<>>])
           /\ UNCHANGED queue
  <2>1. PICK t : t = [s EXCEPT !.at = "gateway", !.parents = Tail(s.parents), !.backends = <<>>]  BY Zenon
  <2>2. Making(k, t) /\ t.key = s.key  BY <1>1, <2>1, Zenon DEF Making
  <2> QED  BY <1>1, <1>2, <1>5, <2>1, <2>2, StepMoves, Zenon
<1> QED  BY <1>1, <1>3, <1>4, <1>5, Zenon DEF Advance

(* What a worker at a step knows. *)
LEMMA WorkerAt ==
  ASSUME RouteInv, NEW k \in Kind, NEW w \in Worker, NEW a, At(k, w, a)
  PROVE  /\ proc[k][w] # Idle
         /\ a = "list" => Listing(proc[k][w])
         /\ a = "delete" => Deleting(k, proc[k][w])
         /\ a \in {"gateway", "get", "create", "duplicate", "update", "ingress"} => Making(k, proc[k][w])
BY Zenon DEF RouteInv, At, Works, Listing, Deleting, Making

LEMMA OutKept ==
  ASSUME RouteConstants, RouteInv, NEW k \in Kind, NEW w \in Worker, Moves(k, w), UNCHANGED <<route, out>>
  PROVE  RouteInv' /\ KeepsUserServices
<1>1. Marked'  BY Zenon DEF RouteInv, Marked
<1> QED  BY <1>1, MovesKeep, Zenon DEF KeepsUserServices

(* The actions, one by one. *)
LEMMA PanicKeeps ==
  ASSUME RouteConstants, RouteInv, Panic, UNCHANGED <<route, out>>
  PROVE  RouteInv' /\ KeepsUserServices
<1>1. Marked' /\ Listed'  BY Zenon DEF RouteInv, Marked, Listed
<1>2. \A k \in Kind : \A w \in Worker : Works(k, proc[k][w])'  BY Restarts, Zenon DEF Works, Idle
<1>3. KeepsUserServices  BY Zenon DEF KeepsUserServices
<1> QED  BY <1>1, <1>2, <1>3, Restarts, Zenon DEF RouteInv

LEMMA ReconcileKeeps ==
  ASSUME RouteConstants, RouteInv, NEW k \in Kind, NEW w \in Worker, Reconcile(k, w)
  PROVE  RouteInv' /\ KeepsUserServices
<1>1. PICK r : r = Head(queue[k].fifo)  BY Zenon
<1>2. PICK s : s = IF route[k][r] # None
       THEN [at |-> "gateway", key |-> r, spec |-> route[k][r],
             parents |-> route[k][r].parents, backends |-> <<>>, ip |-> None, seen |-> None]
       ELSE [at |-> "list", key |-> r]
  BY Zenon
<1>3. /\ proc[k][w] = Idle /\ CanGet(queue[k]) /\ GoesTo(k, w, s)
      /\ queue' = [queue EXCEPT ![k] = Get(queue[k])] /\ UNCHANGED <<route, out>>
  BY <1>1, <1>2, Zenon DEF Reconcile
<1>4. s.key = r  BY <1>2, Zenon
<1>5. /\ Queues' /\ OneWorker' /\ proc'[k][w] = s /\ s.key \in Key
      /\ \A j \in Kind : \A v \in Worker : j # k \/ v # w => proc'[j][v] = proc[j][v]
  <2>1. Queues /\ OneWorker /\ s.key = Head(queue[k].fifo)  BY <1>1, <1>4, Zenon DEF RouteInv
  <2> QED  BY <1>3, <2>1, Starts, Zenon
<1>6. CASE route[k][r] # None
  <2>1. route[k][r] \in Specs[k]  BY <1>4, <1>5, <1>6, Zenon DEF RouteInv, Listed
  <2>2. Making(k, s)  BY <1>2, <1>6, <2>1, Zenon DEF Making
  <2>3. Works(k, proc[k][w])'  BY <1>5, <2>2, Zenon DEF Works, Making
  <2> QED  BY <1>3, <1>5, <2>3, OutKept, Zenon DEF Moves
<1>7. CASE route[k][r] = None
  <2>1. s.at = "list"  BY <1>2, <1>7, Zenon
  <2>2. Works(k, proc[k][w])'  BY <1>5, <2>1, Zenon DEF Works, Listing
  <2> QED  BY <1>3, <1>5, <2>2, OutKept, Zenon DEF Moves
<1> QED  BY <1>6, <1>7, Zenon

LEMMA FindGatewayKeeps ==
  ASSUME RouteConstants, RouteInv, NEW k \in Kind, NEW w \in Worker, NEW first \in {"get", "ingress"},
         FindGateway(k, w, first)
  PROVE  RouteInv' /\ KeepsUserServices
<1>1. PICK s : s = proc[k][w]  BY Zenon
<1>2. s # Idle /\ Making(k, s) /\ UNCHANGED <<route, out>> /\ Queues /\ OneWorker
  BY <1>1, WorkerAt, Zenon DEF FindGateway, RouteInv
<1>3. PICK t : t = [s EXCEPT !.at = first, !.backends = s.spec.backends, !.ip = gw[Head(s.parents).gw].ip]
  BY Zenon
<1>4. \/ End(k, w, TRUE) \/ End(k, w, FALSE) \/ Panic \/ Advance(k, w)
      \/ GoesTo(k, w, t) /\ UNCHANGED queue
  BY <1>1, <1>3, Zenon DEF FindGateway
<1>5. CASE Panic  BY <1>2, <1>5, PanicKeeps, Zenon
<1>6. CASE End(k, w, TRUE) \/ End(k, w, FALSE)
  <2>1. Moves(k, w)  BY <1>1, <1>2, <1>6, EndMoves, Zenon
  <2> QED  BY <1>2, <2>1, OutKept, Zenon
<1>7. CASE Advance(k, w)
  <2>1. Moves(k, w)  BY <1>1, <1>2, <1>7, AdvanceMoves, Zenon
  <2> QED  BY <1>2, <2>1, OutKept, Zenon
<1>8. CASE GoesTo(k, w, t) /\ UNCHANGED queue
  <2>1. Making(k, t) /\ t.key = s.key  BY <1>2, <1>3, Zenon DEF Making
  <2>2. Moves(k, w)  BY <1>1, <1>2, <1>8, <2>1, StepMoves, Zenon
  <2> QED  BY <1>2, <2>2, OutKept, Zenon
<1> QED  BY <1>4, <1>5, <1>6, <1>7, <1>8, Zenon

LEMMA ReconcileServiceKeeps ==
  ASSUME RouteConstants, RouteInv, NoUpdate, NEW k \in Kind, NEW w \in Worker, ReconcileService(k, w)
  PROVE  RouteInv' /\ KeepsUserServices
<1>1. PICK s : s = proc[k][w]  BY Zenon
<1>2. PICK o : o = out[Target(k, w)]  BY Zenon
<1>3. s # Idle /\ Making(k, s) /\ UNCHANGED route /\ Queues /\ OneWorker
  BY <1>1, WorkerAt, Zenon DEF ReconcileService, RouteInv
<1>4. s.spec.behaviour # "update"  BY <1>3, Zenon DEF Making, NoUpdate
<1>5. \/ End(k, w, FALSE) /\ UNCHANGED out
      \/ GoesTo(k, w, [s EXCEPT !.at = "create", !.seen = o]) /\ UNCHANGED <<queue, out>>
      \/ GoesTo(k, w, [s EXCEPT !.at = "duplicate", !.seen = o]) /\ UNCHANGED <<queue, out>>
      \/ /\ GoesTo(k, w, [s EXCEPT !.at = "update", !.seen = o]) /\ UNCHANGED <<queue, out>>
         /\ o # None /\ o.by[k] = s.key.name
  BY <1>1, <1>2, <1>4, Zenon DEF ReconcileService, Fail, IsBy
<1>6. CASE End(k, w, FALSE) /\ UNCHANGED out
  <2>1. Moves(k, w)  BY <1>1, <1>3, <1>6, EndMoves, Zenon
  <2> QED  BY <1>3, <1>6, <2>1, OutKept, Zenon
<1>7. CASE GoesTo(k, w, [s EXCEPT !.at = "create", !.seen = o]) /\ UNCHANGED <<queue, out>>
  <2>1. PICK t : t = [s EXCEPT !.at = "create", !.seen = o]  BY Zenon
  <2>2. Making(k, t) /\ t.key = s.key  BY <1>3, <2>1, Zenon DEF Making
  <2>3. Moves(k, w)  BY <1>1, <1>3, <1>7, <2>1, <2>2, StepMoves, Zenon
  <2> QED  BY <1>3, <1>7, <2>3, OutKept, Zenon
<1>8. CASE GoesTo(k, w, [s EXCEPT !.at = "duplicate", !.seen = o]) /\ UNCHANGED <<queue, out>>
  <2>1. PICK t : t = [s EXCEPT !.at = "duplicate", !.seen = o]  BY Zenon
  <2>2. Making(k, t) /\ t.key = s.key  BY <1>3, <2>1, Zenon DEF Making
  <2>3. Moves(k, w)  BY <1>1, <1>3, <1>8, <2>1, <2>2, StepMoves, Zenon
  <2> QED  BY <1>3, <1>8, <2>3, OutKept, Zenon
<1>9. CASE /\ GoesTo(k, w, [s EXCEPT !.at = "update", !.seen = o]) /\ UNCHANGED <<queue, out>>
           /\ o # None /\ o.by[k] = s.key.name
  <2>1. PICK t : t = [s EXCEPT !.at = "update", !.seen = o]  BY Zenon
  <2>2. t.key = s.key /\ t.seen = o /\ t.at = "update" /\ t.spec = s.spec
    BY <1>3, <2>1, Zenon DEF Making
  <2>3. o.by[k] = t.key.name  BY <1>9, <2>2, Zenon
  <2>4. Making(k, t)  BY <1>3, <1>9, <2>1, <2>2, <2>3, Zenon DEF Making
  <2>5. Moves(k, w)  BY <1>1, <1>3, <1>9, <2>1, <2>2, <2>4, StepMoves, Zenon
  <2> QED  BY <1>3, <1>9, <2>5, OutKept, Zenon
<1> QED  BY <1>5, <1>6, <1>7, <1>8, <1>9, Zenon

(* What a manager makes carries the name of the route alone, and no user's mark. *)
LEMMA MadeIs ==
  ASSUME RouteConstants, NEW k \in Kind, NEW w
  PROVE  /\ Made(k, w) # None /\ ~Made(k, w).user /\ DOMAIN Made(k, w).by = Kinds
         /\ \A j \in Kind : j # k => Made(k, w).by[j] = None
<1>1. PICK b, i, x : /\ b = [Unmarked EXCEPT ![k] = proc[k][w].key.name]
                     /\ i = proc[k][w].ip /\ x = proc[k][w].spec.text
  BY Zenon
<1>2. Made(k, w) = [user |-> FALSE, class |-> TRUE, notes |-> TRUE, by |-> b, ip |-> i, text |-> x]
  BY <1>1, Zenon DEF Made
<1>3. DOMAIN b = Kinds /\ \A j \in Kind : j # k => b[j] = None
  <2>1. Kind \subseteq Kinds  BY Zenon DEF RouteConstants
  <2> QED  BY <1>1, <2>1 DEF Unmarked
<1>4. DOMAIN Made(k, w) = {"user", "class", "notes", "by", "ip", "text"}  BY <1>2, Zenon
<1>5. Made(k, w) # None  BY <1>4, Zenon DEF RouteConstants
<1>6. Made(k, w).by = b /\ ~Made(k, w).user  BY <1>2
<1> QED  BY <1>3, <1>5, <1>6, Zenon

(* What updateService writes has the marks of what it read. *)
LEMMA RenewedIs ==
  ASSUME RouteConstants, NEW k \in Kind, NEW w, NEW s, s = proc[k][w],
         DOMAIN s.seen.by = Kinds, s.seen.by[k] = s.key.name
  PROVE  /\ Renewed(k, w) # None /\ Renewed(k, w).user = s.seen.user
         /\ DOMAIN Renewed(k, w).by = Kinds
         /\ \A j \in Kind : Renewed(k, w).by[j] = s.seen.by[j]
<1>1. PICK b, i, x, c, u : /\ b = [Unmarked EXCEPT ![k] = proc[k][w].key.name]
                           /\ i = proc[k][w].ip /\ x = proc[k][w].spec.text
                           /\ c = [s.seen.by EXCEPT ![k] = s.key.name] /\ u = s.seen.user
  BY Zenon
<1>2. Made(k, w) = [user |-> FALSE, class |-> TRUE, notes |-> TRUE, by |-> b, ip |-> i, text |-> x]
  BY <1>1, Zenon DEF Made
<1>3. PICK m : m = Made(k, w)  BY Zenon
<1>4. Renewed(k, w) = [m EXCEPT !.user = u, !.by = c]  BY <1>1, <1>3, Zenon DEF Renewed
<1>5. DOMAIN c = Kinds /\ \A j \in Kind : c[j] = s.seen.by[j]
  <2>1. Kind \subseteq Kinds  BY Zenon DEF RouteConstants
  <2> QED  BY <1>1, <2>1
<1>6. /\ DOMAIN Renewed(k, w) = {"user", "class", "notes", "by", "ip", "text"}
      /\ Renewed(k, w).user = u /\ Renewed(k, w).by = c
  BY <1>2, <1>3, <1>4
<1> QED  BY <1>1, <1>5, <1>6, Zenon DEF RouteConstants

(* createService, duplicateService and createIngress write where nothing is. *)
LEMMA CreateKeeps ==
  ASSUME RouteConstants, RouteInv, NEW k \in Kind, NEW w \in Worker, NEW x,
         out[x] = None, out' = [out EXCEPT ![x] = Made(k, w)], Moves(k, w), UNCHANGED route
  PROVE  RouteInv' /\ KeepsUserServices
<1>1. PICK m : m = Made(k, w)  BY Zenon
<1>2. m # None /\ ~m.user /\ DOMAIN m.by = Kinds /\ \A j \in Kind : j # k => m.by[j] = None
  BY <1>1, MadeIs, Zenon
<1>3. \A y \in Resource : out'[y] = IF y = x THEN m ELSE out[y]  BY <1>1, Zenon DEF RouteInv, Marked
<1>4. Marked'
  <2>1. DOMAIN out' = Resource  BY Zenon DEF RouteInv, Marked
  <2>2. \A i, j \in Kind : m.by[i] # None /\ m.by[j] # None => i = j  BY <1>2, Zenon
  <2>3. ASSUME NEW y \in Resource, out'[y] # None
        PROVE  MarkedOnce(out'[y])
    <3>1. CASE y = x
      <4>1. out'[y] = m  BY <1>3, <3>1, Zenon
      <4>2. MarkedOnce(m)  BY <1>2, <2>2, Zenon DEF MarkedOnce
      <4> QED  BY <4>1, <4>2, Zenon
    <3>2. CASE y # x
      <4>1. out'[y] = out[y]  BY <1>3, <3>2, Zenon
      <4> QED  BY <2>3, <4>1, Zenon DEF RouteInv, Marked
    <3> QED  BY <3>1, <3>2, Zenon
  <2> QED  BY <2>1, <2>3, Zenon DEF Marked
<1>5. KeepsUserServices  BY <1>3, Zenon DEF KeepsUserServices
<1>6. \A y \in Resource : \A j \in Kind :
        out[y] # None /\ out[y].by[j] # None => out'[y] # None /\ out'[y].by[j] = out[y].by[j]
  BY <1>3, Zenon
<1> QED  BY <1>4, <1>5, <1>6, MovesKeep, Zenon

LEMMA CreateAtKeeps ==
  ASSUME RouteConstants, RouteInv, NEW k \in Kind, NEW w \in Worker, NEW x, Making(k, proc[k][w]),
         CreateAt(k, w, x)
  PROVE  RouteInv' /\ KeepsUserServices
<1>1. proc[k][w] # Idle /\ Queues /\ OneWorker /\ UNCHANGED route
  BY DEF Making, Idle, RouteInv, CreateAt
<1>2. CASE out[x] = None /\ out' = [out EXCEPT ![x] = Made(k, w)] /\ Advance(k, w)
  <2>1. Moves(k, w)  BY <1>1, <1>2, AdvanceMoves, Zenon
  <2> QED  BY <1>1, <1>2, <2>1, CreateKeeps, Zenon
<1>3. CASE Fail(k, w)
  <2>1. Moves(k, w) /\ UNCHANGED out  BY <1>1, <1>3, EndMoves, Zenon DEF Fail
  <2> QED  BY <1>1, <2>1, OutKept, Zenon
<1> QED  BY <1>2, <1>3, Zenon DEF CreateAt

(* updateService writes what it has read and found to be the route's. *)
LEMMA UpdateServiceKeeps ==
  ASSUME RouteConstants, RouteInv, NEW k \in Kind, NEW w \in Worker, UpdateService(k, w)
  PROVE  RouteInv' /\ KeepsUserServices
<1>1. PICK s : s = proc[k][w]  BY Zenon
<1>2. PICK x : x = Target(k, w)  BY Zenon
<1>3. s # Idle /\ Making(k, s) /\ s.at = "update" /\ UNCHANGED route /\ Queues /\ OneWorker
  BY <1>1, WorkerAt, Zenon DEF UpdateService, RouteInv, At
<1>4. CASE Panic /\ UNCHANGED out  BY <1>3, <1>4, PanicKeeps, Zenon
<1>5. CASE Fail(k, w)
  <2>1. Moves(k, w) /\ UNCHANGED out  BY <1>1, <1>3, <1>5, EndMoves, Zenon DEF Fail
  <2> QED  BY <1>3, <2>1, OutKept, Zenon
<1>6. CASE /\ out[x] = s.seen /\ Advance(k, w) /\ out' = [out EXCEPT ![x] = Renewed(k, w)]
  <2>1. PICK m : m = Renewed(k, w)  BY Zenon
  <2>2. s.seen # None /\ s.seen.by[k] = s.key.name  BY <1>3, Zenon DEF Making
  <2>3. \A y \in Resource : out'[y] = IF y = x THEN m ELSE out[y]
    BY <1>6, <2>1, Zenon DEF RouteInv, Marked
  <2>4. ASSUME x \in Resource
        PROVE  /\ m # None /\ m.user = out[x].user /\ DOMAIN m.by = Kinds
               /\ \A j \in Kind : m.by[j] = out[x].by[j]
    <3>1. DOMAIN s.seen.by = Kinds  BY <1>6, <2>2, <2>4, Zenon DEF RouteInv, Marked, MarkedOnce
    <3>2. s.seen.by[k] = s.key.name /\ s = proc[k][w]  BY <1>1, <2>2, Zenon
    <3>3. /\ Renewed(k, w) # None /\ Renewed(k, w).user = s.seen.user /\ DOMAIN Renewed(k, w).by = Kinds
          /\ \A j \in Kind : Renewed(k, w).by[j] = s.seen.by[j]
      BY <3>1, <3>2, RenewedIs
    <3> QED  BY <1>6, <2>1, <3>3, Zenon
  <2>5. Marked'
    <3>1. DOMAIN out' = Resource  BY <1>6, Zenon DEF RouteInv, Marked
    <3>2. ASSUME NEW y \in Resource, out'[y] # None
          PROVE  MarkedOnce(out'[y])
      <4>1. CASE y = x
        <5>1. out'[y] = m /\ out[y] # None  BY <1>6, <2>2, <2>3, <4>1, Zenon
        <5>2. /\ m.user = out[y].user /\ DOMAIN m.by = Kinds /\ \A j \in Kind : m.by[j] = out[y].by[j]
          BY <2>4, <4>1, Zenon
        <5>3. MarkedOnce(out[y])  BY <5>1, Zenon DEF RouteInv, Marked
        <5>4. MarkedOnce(m)  BY <5>2, <5>3, Zenon DEF MarkedOnce
        <5> QED  BY <5>1, <5>4, Zenon
      <4>2. CASE y # x
        <5>1. out'[y] = out[y]  BY <2>3, <4>2, Zenon
        <5> QED  BY <3>2, <5>1, Zenon DEF RouteInv, Marked
      <4> QED  BY <4>1, <4>2, Zenon
    <3> QED  BY <3>1, <3>2, Zenon DEF Marked
  <2>6. KeepsUserServices  BY <2>3, <2>4, Zenon DEF KeepsUserServices
  <2>7. \A y \in Resource : \A j \in Kind :
          out[y] # None /\ out[y].by[j] # None => out'[y] # None /\ out'[y].by[j] = out[y].by[j]
    BY <2>3, <2>4, Zenon
  <2>8. Moves(k, w)  BY <1>1, <1>3, <1>6, AdvanceMoves, Zenon
  <2> QED  BY <1>3, <2>5, <2>6, <2>7, <2>8, MovesKeep, Zenon
<1> QED  BY <1>1, <1>2, <1>4, <1>5, <1>6, Zenon DEF UpdateService

LEMMA CreateIngressKeeps ==
  ASSUME RouteConstants, RouteInv, NEW k \in Kind, NEW w \in Worker, CreateIngress(k, w)
  PROVE  RouteInv' /\ KeepsUserServices
<1>1. PICK s : s = proc[k][w]  BY Zenon
<1>2. PICK x : x = [type |-> "ing", ns |-> proc[k][w].key.ns, name |-> proc[k][w].key.name]  BY Zenon
<1>3. s # Idle /\ Making(k, s) /\ UNCHANGED route /\ Queues /\ OneWorker
  BY <1>1, WorkerAt, Zenon DEF CreateIngress, RouteInv
<1>4. Moves(k, w)
  <2>1. PICK t : t = [s EXCEPT !.at = "gateway", !.parents = Tail(s.parents)]  BY Zenon
  <2>2. End(k, w, TRUE) \/ (GoesTo(k, w, t) /\ UNCHANGED queue)
    BY <1>1, <2>1, Zenon DEF CreateIngress
  <2>3. Making(k, t) /\ t.key = s.key  BY <1>3, <2>1, Zenon DEF Making
  <2>4. CASE End(k, w, TRUE)  BY <1>1, <1>3, <2>4, EndMoves, Zenon
  <2>5. CASE GoesTo(k, w, t) /\ UNCHANGED queue  BY <1>1, <1>3, <2>3, <2>5, StepMoves, Zenon
  <2> QED  BY <2>2, <2>4, <2>5, Zenon
<1>5. \/ out[x] = None /\ out' = [out EXCEPT ![x] = Made(k, w)]
      \/ UNCHANGED out
  BY <1>2, Zenon DEF CreateIngress
<1>6. CASE out[x] = None /\ out' = [out EXCEPT ![x] = Made(k, w)]  BY <1>3, <1>4, <1>6, CreateKeeps, Zenon
<1>7. CASE UNCHANGED out  BY <1>3, <1>4, <1>7, OutKept, Zenon
<1> QED  BY <1>5, <1>6, <1>7, Zenon

LEMMA ListKeeps ==
  ASSUME RouteConstants, RouteInv, NEW k \in Kind, NEW w \in Worker, NEW types, List(k, w, types)
  PROVE  RouteInv' /\ KeepsUserServices
<1>1. PICK r : r = proc[k][w].key  BY Zenon
<1>2. PICK own : own = {x \in Resource : /\ x.type \in types /\ x.ns = r.ns /\ out[x] # None
                                           /\ out[x].by[k] = r.name}
  BY Zenon
<1>3. PICK s : s = [at |-> "delete", key |-> r, own |-> own]  BY Zenon
<1>4. proc[k][w] # Idle /\ UNCHANGED <<route, out>> /\ Queues /\ OneWorker
  BY WorkerAt, Zenon DEF List, RouteInv
<1>5. \/ GoesTo(k, w, s) /\ UNCHANGED queue
      \/ End(k, w, TRUE) \/ End(k, w, FALSE)
  BY <1>1, <1>2, <1>3, Zenon DEF List
<1>6. CASE End(k, w, TRUE) \/ End(k, w, FALSE)
  <2>1. Moves(k, w)  BY <1>4, <1>6, EndMoves, Zenon
  <2> QED  BY <1>4, <2>1, OutKept, Zenon
<1>7. CASE GoesTo(k, w, s) /\ UNCHANGED queue
  <2>1. s.key = r /\ s.own = own /\ s.at = "delete" /\ DOMAIN s = {"at", "key", "own"}  BY <1>3, Zenon
  <2>2. /\ Queues' /\ OneWorker' /\ proc'[k][w] = s
        /\ \A j \in Kind : \A v \in Worker : j # k \/ v # w => proc'[j][v] = proc[j][v]
    BY <1>1, <1>4, <1>7, <2>1, Continues
  <2>3. /\ own \subseteq Resource
        /\ \A x \in own : x.ns = r.ns /\ out'[x] # None /\ out'[x].by[k] = r.name
    BY <1>2, <1>4, Zenon
  <2>4. r.name # None
    <3>1. r \in Key  BY <1>1, <1>4, Zenon DEF Queues, Sound
    <3>2. r.name \in Name  BY <3>1 DEF Key
    <3> QED  BY <3>2, Zenon DEF RouteConstants
  <2>5. Works(k, proc[k][w])'  BY <2>1, <2>2, <2>3, <2>4, Zenon DEF Works, Deleting
  <2> QED  BY <1>4, <2>2, <2>5, OutKept, Zenon DEF Moves
<1> QED  BY <1>5, <1>6, <1>7, Zenon

(* Two workers never have a resource on both their lists: it is in the namespace of   *)
(* both routes, and has the name of one kind only.                                  *)
LEMMA ListsApart ==
  ASSUME RouteInv, NEW k \in Kind, NEW j \in Kind, NEW v \in Worker, NEW w \in Worker,
         Deleting(k, proc[k][w]), Deleting(j, proc[j][v]), NEW x \in proc[k][w].own, x \in proc[j][v].own
  PROVE  j = k /\ v = w
<1>1. PICK s : s = proc[k][w]  BY Zenon
<1>2. PICK t : t = proc[j][v]  BY Zenon
<1>3. /\ x \in Resource /\ out[x] # None /\ s.key.ns = t.key.ns
      /\ out[x].by[k] = s.key.name /\ out[x].by[j] = t.key.name /\ s.key.name # None /\ t.key.name # None
  BY <1>1, <1>2, Zenon DEF Deleting
<1>4. k = j /\ s.key.name = t.key.name
  <2>1. k = j  BY <1>3, Zenon DEF RouteInv, Marked, MarkedOnce
  <2> QED  BY <1>3, <2>1, Zenon
<1>5. s # Idle /\ t # Idle  BY <1>1, <1>2 DEF Deleting, Idle
<1>6. s.key \in Key /\ t.key \in Key
  <2>1. s.key \in queue[k].busy /\ t.key \in queue[j].busy  BY <1>1, <1>2, <1>5, Zenon DEF RouteInv, Queues
  <2> QED  BY <2>1, Zenon DEF RouteInv, Queues, Sound
<1>7. s.key = t.key  BY <1>3, <1>4, <1>6 DEF Key
<1> QED  BY <1>1, <1>2, <1>4, <1>5, <1>7, Zenon DEF RouteInv, OneWorker

LEMMA DeleteKeeps ==
  ASSUME RouteConstants, RouteInv, NEW k \in Kind, NEW w \in Worker, Delete(k, w)
  PROVE  RouteInv' /\ KeepsUserServices
<1>1. PICK s : s = proc[k][w]  BY Zenon
<1>2. s # Idle /\ Deleting(k, s) /\ UNCHANGED route /\ Queues /\ OneWorker
  BY <1>1, WorkerAt, Zenon DEF Delete, RouteInv
<1>3. PICK x \in s.own :
        \/ /\ out' = [out EXCEPT ![x] = None]
           /\ \/ End(k, w, TRUE)
              \/ GoesTo(k, w, [s EXCEPT !.own = s.own \ {x}]) /\ UNCHANGED queue
        \/ Fail(k, w)
  BY <1>1, Zenon DEF Delete
<1>4. CASE Fail(k, w)
  <2>1. Moves(k, w) /\ UNCHANGED out  BY <1>1, <1>2, <1>4, EndMoves, Zenon DEF Fail
  <2> QED  BY <1>2, <2>1, OutKept, Zenon
<1>5. CASE /\ out' = [out EXCEPT ![x] = None]
           /\ \/ End(k, w, TRUE)
              \/ GoesTo(k, w, [s EXCEPT !.own = s.own \ {x}]) /\ UNCHANGED queue
  <2>1. \A y \in Resource : out'[y] = IF y = x THEN None ELSE out[y]
    BY <1>5, Zenon DEF RouteInv, Marked
  <2>2. x \in Resource /\ out[x] # None /\ out[x].by[k] = s.key.name  BY <1>2, Zenon DEF Deleting
  <2>3. s.key.name # None  BY <1>2, Zenon DEF Deleting
  <2>4. ~out[x].user  BY <2>2, <2>3, Zenon DEF RouteInv, Marked, MarkedOnce
  <2>5. KeepsUserServices  BY <2>1, <2>4, Zenon DEF KeepsUserServices
  <2>6. Marked'  BY <1>5, <2>1, Zenon DEF RouteInv, Marked
  <2>7. Listed'  BY <1>2, Zenon DEF RouteInv, Listed
  <2>8. /\ Queues' /\ OneWorker' /\ Works(k, proc[k][w])'
        /\ \A j \in Kind : \A v \in Worker : j # k \/ v # w => proc'[j][v] = proc[j][v]
    <3>1. CASE End(k, w, TRUE)  BY <1>1, <1>2, <3>1, EndMoves, Zenon DEF Moves
    <3>2. CASE GoesTo(k, w, [s EXCEPT !.own = s.own \ {x}]) /\ UNCHANGED queue
      <4>1. PICK t : t = [s EXCEPT !.own = s.own \ {x}]  BY Zenon
      <4>2. /\ t.at = "delete" /\ t.key = s.key /\ t.own = s.own \ {x}
            /\ DOMAIN t = {"at", "key", "own"}
        BY <1>2, <4>1, Zenon DEF Deleting
      <4>3. /\ Queues' /\ OneWorker' /\ proc'[k][w] = t
            /\ \A j \in Kind : \A v \in Worker : j # k \/ v # w => proc'[j][v] = proc[j][v]
        BY <1>1, <1>2, <3>2, <4>1, <4>2, Continues
      <4>4. \A y \in t.own : /\ y \in Resource /\ y.ns = t.key.ns /\ out'[y] # None
                             /\ out'[y].by[k] = t.key.name
        <5>1. \A y \in s.own : /\ y \in Resource /\ y.ns = s.key.ns /\ out[y] # None
                               /\ out[y].by[k] = s.key.name /\ s.key.name # None
          BY <1>2, Zenon DEF Deleting
        <5>2. \A y \in t.own : y \in s.own /\ y # x  BY <4>2, Zenon
        <5>3. ASSUME NEW y \in t.own
              PROVE  /\ y \in Resource /\ y.ns = t.key.ns /\ out'[y] # None
                     /\ out'[y].by[k] = t.key.name
          <6>1. y \in s.own /\ y \in Resource /\ y # x  BY <5>1, <5>2, Zenon
          <6>2. out'[y] = out[y]  BY <2>1, <6>1, Zenon
          <6> QED  BY <4>2, <5>1, <6>1, <6>2, Zenon
        <5> QED  BY <5>3, Zenon
      <4>5. Works(k, proc[k][w])'
        <5>1. t.key.name # None /\ t.own \subseteq Resource  BY <1>2, <4>2, Zenon DEF Deleting
        <5> QED  BY <4>2, <4>3, <4>4, <5>1, Zenon DEF Works, Deleting
      <4> QED  BY <4>3, <4>5, Zenon
    <3> QED  BY <1>5, <3>1, <3>2, Zenon
  <2>9. ASSUME NEW j \in Kind, NEW v \in Worker, j # k \/ v # w
        PROVE  Works(j, proc[j][v])'
    <3>1. PICK t : t = proc[j][v]  BY Zenon
    <3>2. proc'[j][v] = t /\ Works(j, t)  BY <2>8, <2>9, <3>1, Zenon DEF RouteInv
    <3>3. CASE Deleting(j, t)
      <4>1. x \notin t.own  BY <1>1, <1>2, <2>9, <3>1, <3>3, ListsApart, Zenon
      <4>2. \A y \in t.own : /\ y \in Resource /\ y.ns = t.key.ns /\ out'[y] # None
                             /\ out'[y].by[j] = t.key.name
        BY <2>1, <3>3, <4>1, Zenon DEF Deleting
      <4> QED  BY <3>2, <3>3, <4>2, Zenon DEF Works, Deleting
    <3>4. CASE t = Idle \/ Listing(t) \/ Making(j, t)
      BY <3>2, <3>4, Zenon DEF Works, Listing, Making, Idle
    <3> QED  BY <3>2, <3>3, <3>4, Zenon DEF Works
  <2>10. \A j \in Kind : \A v \in Worker : Works(j, proc[j][v])'  BY <2>8, <2>9, Zenon
  <2> QED  BY <2>5, <2>6, <2>7, <2>8, <2>10, Zenon DEF RouteInv
<1> QED  BY <1>3, <1>4, <1>5, Zenon

(* What every manager does. *)
LEMMA StepKeeps ==
  ASSUME RouteConstants, RouteInv, NoUpdate, NEW k \in Kind, NEW w \in Worker, Step(k, w)
  PROVE  RouteInv' /\ KeepsUserServices
<1>1. \/ Reconcile(k, w) \/ FindGateway(k, w, "get") \/ FindGateway(k, w, "ingress")
      \/ ReconcileService(k, w) \/ CreateService(k, w) \/ DuplicateService(k, w)
      \/ UpdateService(k, w) \/ CreateIngress(k, w) \/ Delete(k, w)
      \/ List(k, w, {"svc", "copy"}) \/ List(k, w, {"ing"})
  BY Zenon DEF Step, TCPRoute, createTCPRoute, deleteTCPRoute, UDPRoute, createUDPRoute,
     deleteUDPRoute, HTTPRoute, createHTTPRoute, deleteHTTPRoute, findGatewayTCP,
     reconcileServiceTCP, createServiceTCP, duplicateServiceTCP, updateServiceTCP,
     findGatewayUDP, reconcileServiceUDP, createServiceUDP, duplicateServiceUDP,
     updateServiceUDP, findGatewayHTTP, reconcileIngress
<1>2. CASE CreateService(k, w)
  <2>1. Making(k, proc[k][w]) /\ CreateAt(k, w, Target(k, w))
    BY <1>2, WorkerAt, Zenon DEF CreateService
  <2> QED  BY <2>1, CreateAtKeeps, Zenon
<1>3. CASE DuplicateService(k, w)
  <2>1. Making(k, proc[k][w]) /\ CreateAt(k, w, Copy(Target(k, w)))
    BY <1>3, WorkerAt, Zenon DEF DuplicateService
  <2> QED  BY <2>1, CreateAtKeeps, Zenon
<1> QED
  BY <1>1, <1>2, <1>3, ReconcileKeeps, FindGatewayKeeps, ReconcileServiceKeeps, UpdateServiceKeeps,
     CreateIngressKeeps, DeleteKeeps, ListKeeps, Zenon

(* An item is added to a queue. *)
LEMMA QueuesChange ==
  ASSUME RouteInv, NEW k \in Kind, NEW q, Sound(q, Key), q.busy = queue[k].busy,
         queue' = [queue EXCEPT ![k] = q], UNCHANGED <<proc, out>>, Listed'
  PROVE  RouteInv'
<1>1. DOMAIN queue' = Kind /\ queue'[k] = q /\ \A j \in Kind : j # k => queue'[j] = queue[j]
  BY Zenon DEF RouteInv, Queues
<1>2. Queues'  BY <1>1, Zenon DEF RouteInv, Queues
<1>3. OneWorker' /\ Marked'  BY Zenon DEF RouteInv, OneWorker, Marked
<1>4. \A j \in Kind : \A w \in Worker : Works(j, proc[j][w])'
  BY DEF RouteInv, Works, Listing, Deleting, Making, Idle
<1> QED  BY <1>2, <1>3, <1>4, Zenon DEF RouteInv

(* What users, the informers and the Gateway manager do. *)
LEMMA OthersKeep ==
  ASSUME RouteConstants, RouteInv,
         \/ \E k \in Kind : \E r \in Key : EditRoute(k, r) \/ Resync(k, r) \/ Retry(k, r)
         \/ \E g \in Gateways : EditGateway(g)
         \/ UNCHANGED vars
  PROVE  RouteInv' /\ KeepsUserServices
<1>1. UNCHANGED <<proc, out>>  BY Zenon DEF EditRoute, Resync, Retry, EditGateway, vars
<1>2. KeepsUserServices  BY <1>1, Zenon DEF KeepsUserServices
<1>3. CASE UNCHANGED <<route, queue>>
  <2>1. Queues' /\ OneWorker' /\ Listed' /\ Marked'
    BY <1>1, <1>3, Zenon DEF RouteInv, Queues, OneWorker, Listed, Marked
  <2>2. \A j \in Kind : \A w \in Worker : Works(j, proc[j][w])'
    BY <1>1 DEF RouteInv, Works, Listing, Deleting, Making, Idle
  <2> QED  BY <1>2, <2>1, <2>2, Zenon DEF RouteInv
<1>4. ASSUME NEW k \in Kind, NEW r \in Key, EditRoute(k, r) \/ Resync(k, r) \/ Retry(k, r)
      PROVE  RouteInv'
  <2>1. Sound(queue[k], Key)  BY Zenon DEF RouteInv, Queues
  <2>2. PICK q : /\ q = Add(queue[k], r) \/ q = Elapse(queue[k], r)
                 /\ queue' = [queue EXCEPT ![k] = q]
    BY <1>4, Zenon DEF EditRoute, Resync, Retry, EnqueueObject, RouteInv, Queues
  <2>3. Sound(q, Key) /\ q.busy = queue[k].busy
    <3>1. CASE q = Add(queue[k], r)  BY <2>1, <3>1, QueueAdds, Zenon
    <3>2. CASE q = Elapse(queue[k], r)  BY <2>1, <3>2, QueueElapses, Zenon
    <3> QED  BY <2>2, <3>1, <3>2, Zenon
  <2>4. Listed'
    <3>1. CASE UNCHANGED route  BY <3>1, Zenon DEF RouteInv, Listed
    <3>2. CASE EditRoute(k, r)
      <4>1. PICK s : /\ route' = [route EXCEPT ![k] = [route[k] EXCEPT ![r] = s]]
                     /\ s # None => s \in Specs[k]
        BY <3>2, Zenon DEF EditRoute
      <4> QED  BY <4>1, Zenon DEF RouteInv, Listed
    <3> QED  BY <1>4, <3>1, <3>2, Zenon DEF Resync, Retry
  <2> QED  BY <1>1, <2>2, <2>3, <2>4, QueuesChange, Zenon
<1>5. ASSUME NEW g \in Gateways, EditGateway(g)  PROVE UNCHANGED <<route, queue>>
  BY <1>5, Zenon DEF EditGateway
<1> QED  BY <1>2, <1>3, <1>4, <1>5, Zenon DEF vars

(* Users do not touch what is on a list: it carries a route's name. *)
LEMMA EditServiceKeeps ==
  ASSUME RouteConstants, RouteInv, NEW x \in Resource, EditService(x)
  PROVE  RouteInv'
<1>1. UNCHANGED <<route, queue, proc>>  BY Zenon DEF EditService
<1>2. PICK c : /\ out' = [out EXCEPT ![x] = c]
               /\ out[x] = None \/ out[x].user
               /\ c = None \/ c.by = Unmarked
  BY Zenon DEF EditService
<1>3. DOMAIN out' = Resource /\ \A y \in Resource : out'[y] = IF y = x THEN c ELSE out[y]
  BY <1>2, Zenon DEF RouteInv, Marked
<1>4. Marked'
  <2>1. DOMAIN Unmarked = Kinds /\ \A j \in Kind : Unmarked[j] = None
    BY Zenon DEF Unmarked, RouteConstants
  <2>2. ASSUME NEW y \in Resource, out'[y] # None
        PROVE  MarkedOnce(out'[y])
    <3>1. CASE y = x
      <4>1. out'[y].by = Unmarked  BY <1>2, <1>3, <2>2, <3>1, Zenon
      <4>2. out'[y] = c /\ ~(\E i \in Kind : c.by[i] # None) /\ DOMAIN c.by = Kinds
        BY <1>3, <2>1, <3>1, <4>1, Zenon
      <4> QED  BY <4>2, Zenon DEF MarkedOnce
    <3>2. CASE y # x
      <4>1. out'[y] = out[y]  BY <1>3, <3>2, Zenon
      <4> QED  BY <2>2, <4>1, Zenon DEF RouteInv, Marked
    <3> QED  BY <3>1, <3>2, Zenon
  <2> QED  BY <1>3, <2>2, Zenon DEF Marked
<1>5. out[x] = None \/ \A j \in Kind : out[x].by[j] = None  BY <1>2, Zenon DEF RouteInv, Marked, MarkedOnce
<1>6. Queues' /\ OneWorker' /\ Listed'  BY <1>1, Zenon DEF RouteInv, Queues, OneWorker, Listed
<1>7. ASSUME NEW j \in Kind, NEW v \in Worker  PROVE Works(j, proc[j][v])'
  <2>1. PICK t : t = proc[j][v]  BY Zenon
  <2>2. proc'[j][v] = t /\ Works(j, t)  BY <1>1, <2>1, Zenon DEF RouteInv
  <2>3. CASE Deleting(j, t)
    <3>1. \A y \in t.own : /\ y \in Resource /\ y.ns = t.key.ns /\ out[y] # None
                           /\ out[y].by[j] = t.key.name /\ t.key.name # None
      BY <2>3, Zenon DEF Deleting
    <3>2. \A y \in t.own : /\ y \in Resource /\ y.ns = t.key.ns /\ out'[y] # None
                           /\ out'[y].by[j] = t.key.name
      <4>1. \A y \in t.own : y # x  BY <1>5, <3>1, Zenon
      <4>2. ASSUME NEW y \in t.own
            PROVE  /\ y \in Resource /\ y.ns = t.key.ns /\ out'[y] # None
                   /\ out'[y].by[j] = t.key.name
        <5>1. out'[y] = out[y]  BY <1>3, <3>1, <4>1, Zenon
        <5>2. /\ y \in Resource /\ y.ns = t.key.ns /\ out[y] # None
              /\ out[y].by[j] = t.key.name
          BY <3>1, Zenon
        <5> QED  BY <5>1, <5>2
      <4> QED  BY <4>2, Zenon
    <3> QED  BY <2>2, <2>3, <3>2, Zenon DEF Works, Deleting
  <2>4. CASE t = Idle \/ Listing(t) \/ Making(j, t)
    BY <2>2, <2>4, Zenon DEF Works, Listing, Making, Idle
  <2> QED  BY <2>2, <2>3, <2>4, Zenon DEF Works
<1> QED  BY <1>4, <1>6, <1>7, Zenon DEF RouteInv

LEMMA RoutesStart ==
  ASSUME Init  PROVE RouteInv
<1>1. \A k \in Kind : queue[k] = EmptyQueue /\ \A w \in Worker : proc[k][w] = Idle
  BY Zenon DEF Init
<1>2. Sound(EmptyQueue, Key)
  <2>1. <<>> \in Seq(Key) /\ Len(<<>>) = 0  BY EmptySeq, Zenon
  <2> QED  BY <2>1 DEF Sound, EmptyQueue
<1>3. Queues /\ OneWorker
  <2>1. DOMAIN queue = Kind /\ DOMAIN proc = Kind /\ \A k \in Kind : DOMAIN proc[k] = Worker
    BY Zenon DEF Init
  <2> QED  BY <1>1, <1>2, <2>1, Zenon DEF Queues, OneWorker
<1>4. Listed /\ Marked  BY Zenon DEF Init, Listed, Marked
<1> QED  BY <1>1, <1>3, <1>4, Zenon DEF RouteInv, Works

(* What users do is told from what the managers do by the number of edits. *)
LEMMA EditsCount ==
  ASSUME edits \in Nat, [Next]_vars
  PROVE  /\ edits' \in Nat
         /\ (\E x \in Resource : EditService(x)) => edits' # edits
<1>1. CASE edits' = edits \/ edits' = edits + 1
  BY <1>1 DEF EditService, Spend
<1>2. ASSUME NEW k \in Kind, NEW w \in Worker, Step(k, w)  PROVE UNCHANGED edits
  BY <1>2, Zenon DEF Step, TCPRoute, UDPRoute, HTTPRoute, createTCPRoute, deleteTCPRoute, createUDPRoute,
     deleteUDPRoute, createHTTPRoute, deleteHTTPRoute, findGatewayTCP, reconcileServiceTCP,
     createServiceTCP, duplicateServiceTCP, updateServiceTCP, findGatewayUDP, reconcileServiceUDP,
     createServiceUDP, duplicateServiceUDP, updateServiceUDP, findGatewayHTTP, reconcileIngress,
     Reconcile, FindGateway, ReconcileService, CreateService, DuplicateService, CreateAt,
     UpdateService, CreateIngress, List, Delete
<1>3. CASE UNCHANGED vars  BY <1>1, <1>3, Zenon DEF vars
<1>4. CASE Next
  BY <1>1, <1>2, <1>4, Zenon DEF Next, EditRoute, Resync, Retry, EditGateway, EditService, Spend
<1> QED  BY <1>3, <1>4, Zenon

LEMMA RoutesStep ==
  ASSUME RouteConstants, NoUpdate, RouteInv, edits \in Nat, [Next]_vars
  PROVE  RouteInv' /\ edits' \in Nat /\ KeepsUserServices
<1>1. edits' \in Nat  BY EditsCount, Zenon
<1>2. ASSUME NEW x \in Resource, EditService(x)  PROVE RouteInv' /\ KeepsUserServices
  BY <1>2, EditServiceKeeps, EditsCount, Zenon DEF KeepsUserServices
<1> QED  BY <1>1, <1>2, OthersKeep, StepKeeps, Zenon DEF Next

(* The managers never delete a Service that a user made, if no route asks for a Service   *)
(* to be updated in place: deleteTCPRoute, deleteUDPRoute and deleteHTTPRoute delete by a    *)
(* list that may be out of date, and still delete only what the route's manager made.       *)
THEOREM UserServicesAreKept ==
  ASSUME RouteConstants, NoUpdate  PROVE Spec => UserServicesKept
<1>1. Init => RouteInv /\ edits \in Nat
  <2>1. Init => edits = 0  BY Zenon DEF Init
  <2> QED  BY <2>1, RoutesStart
<1>2. RouteInv /\ edits \in Nat /\ [Next]_vars => RouteInv' /\ (edits \in Nat)' /\ [KeepsUserServices]_vars
  BY RoutesStep, Zenon
<1> QED  BY <1>1, <1>2, PTL DEF Spec, UserServicesKept
=============================================================================
