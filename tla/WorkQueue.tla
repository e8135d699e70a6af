------------------------------ MODULE WorkQueue ------------------------------
(***************************************************************************)
(* The rate limiting work queue of client-go, an external library, by the   *)
(* contract the managers of kube-loxilb rely on.  A queue is a value        *)
(*   fifo    the items waiting, oldest first, each at most once             *)
(*   busy    the items some worker got and has not marked done              *)
(*   again   busy items added in the meantime: they go back when done       *)
(*   later   items added with AddRateLimited whose delay is not over        *)
(* What an item is decides what the queue merges: the Service, TCPRoute,     *)
(* UDPRoute and HTTPRoute managers queue a namespace/name key, the others    *)
(* queue the object itself, so that two versions of one object are two items *)
(* that two workers may process at the same time.                           *)
(***************************************************************************)
EXTENDS Sequences, SequencesExt

EmptyQueue == [fifo |-> <<>>, busy |-> {}, again |-> {}, later |-> {}]

IsQueue(q, Item) ==
  /\ q.fifo \in Seq(Item) /\ IsInjective(q.fifo)
  /\ q.busy \subseteq Item /\ q.again \subseteq q.busy /\ q.later \subseteq Item

(* Add: an item that waits already is not queued twice. *)
Add(q, x) ==
  IF x \in ToSet(q.fifo) \cup q.again THEN q
  ELSE IF x \in q.busy THEN [q EXCEPT !.again = @ \cup {x}]
  ELSE [q EXCEPT !.fifo = Append(@, x)]

AddRateLimited(q, x) == [q EXCEPT !.later = @ \cup {x}]

(* The delay of a rate limited item is over. *)
Elapse(q, x) == Add([q EXCEPT !.later = @ \ {x}], x)

CanGet(q) == q.fifo # <<>>

Get(q) == [q EXCEPT !.fifo = Tail(@), !.busy = @ \cup {Head(q.fifo)}]

Done(q, x) ==
  [q EXCEPT !.busy  = @ \ {x},
            !.again = @ \ {x},
            !.fifo  = IF x \in q.again THEN Append(@, x) ELSE @]

Waiting(q) == ToSet(q.fifo) \cup q.again \cup q.later

Quiet(q) == Waiting(q) = {} /\ q.busy = {}

=============================================================================
