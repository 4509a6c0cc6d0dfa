----------------------------- MODULE AtLeastOnce -----------------------------
(***************************************************************************)
(* What the delivery of events promises. A task <<q, e>> is the handling   *)
(* of event e by consumer q. A task leaves its queue only after it has had *)
(* its effect, was parked as a dead letter, or was given back more than    *)
(* Limit times; it may come again, and the effect may be repeated. An      *)
(* event counts as published only after each consumer got it.              *)
(***************************************************************************)
EXTENDS Naturals

CONSTANTS Queues, Events, Limit

VARIABLES
  queued,     \* tasks with a copy of their event under way
  effect,     \* tasks that have had their effect
  parked,     \* tasks that were given up
  returned,   \* how often a task was given back
  published   \* events the outbox calls PUBLISHED

vars == <<queued, effect, parked, returned, published>>

Tasks == Queues \X Events

\* Nothing is owed to these any more.
Answered == effect \cup parked \cup {x \in Tasks : returned[x] > Limit}

Routed == queued \cup Answered

Init ==
  /\ queued = {} /\ effect = {} /\ parked = {} /\ published = {}
  /\ returned = [x \in Tasks |-> 0]

\* A copy of e gets to the consumers, one of them or all.
Queue(e) ==
  /\ \E qs \in SUBSET Queues : queued' = queued \cup (qs \X {e})
  /\ Queues \X {e} \subseteq Routed'
  /\ UNCHANGED <<effect, parked, returned, published>>

Perform(x) ==
  /\ x \in Routed
  /\ effect' = effect \cup {x}
  /\ UNCHANGED <<queued, parked, returned, published>>

Park(x) ==
  /\ x \in Routed
  /\ parked' = parked \cup {x}
  /\ UNCHANGED <<queued, effect, returned, published>>

Settle(x) ==
  /\ x \in queued \cap Answered
  /\ queued' = queued \ {x}
  /\ UNCHANGED <<effect, parked, returned, published>>

\* A consumer gives back what it has of these tasks, and some that were given
\* back too often may be dropped. More than too often is not counted.
GiveBack(xs) ==
  /\ xs \subseteq queued
  /\ returned' = [x \in Tasks |-> IF x \in xs /\ returned[x] <= Limit
                                 THEN returned[x] + 1 ELSE returned[x]]
  /\ \E dropped \in SUBSET {x \in xs : returned'[x] > Limit} : queued' = queued \ dropped
  /\ UNCHANGED <<effect, parked, published>>

Publish(e) ==
  /\ Queues \X {e} \subseteq Routed
  /\ published' = published \cup {e}
  /\ UNCHANGED <<queued, effect, parked, returned>>

Next ==
  \/ \E e \in Events : Queue(e) \/ Publish(e)
  \/ \E x \in Tasks : Perform(x) \/ Park(x) \/ Settle(x)
  \/ \E xs \in SUBSET Tasks : GiveBack(xs)

Spec == Init /\ [][Next]_vars
=============================================================================
