------------------------------- MODULE Delivery -------------------------------
(***************************************************************************)
(* The way of an event from the transaction that wrote it to the sockets   *)
(* and the sync feed: outbox, relay, broker and the two consumers, all of  *)
(* which every event-worker process runs over one RabbitMQ connection.     *)
(***************************************************************************)
EXTENDS OutboxRelay, Consumer

vars == <<rabbitVars, relayVars, consumerVars>>

TypeOK == RabbitTypeOK /\ RelayTypeOK /\ ConsumerTypeOK

Init == RabbitInit /\ RelayInit /\ ConsumerInit

-----------------------------------------------------------------------------
\* The connection of p breaks.
LoseConnection(p) ==
  /\ conn[p]
  /\ Fault
  /\ conn' = [conn EXCEPT ![p] = FALSE]
  /\ TakeBack(p)
  /\ job' = Orphaned(p)
  /\ Unconfirmed(p)
  /\ UNCHANGED <<delayed, dead, row, consumerVars>>

\* Process p stops and is started again; the new one has other worker ids.
Crash(p) ==
  /\ Fault
  /\ conn' = [conn EXCEPT ![p] = FALSE]
  /\ TakeBack(p)
  /\ job' = [h \in Handlers |-> IF ProcOf(h) = p THEN IdleJob ELSE job[h]]
  /\ relay' = [relay EXCEPT ![p] = NoIteration]
  /\ row' = [e \in Events |->
       [row[e] EXCEPT !.lockedBy = IF @ = p THEN Nobody ELSE @]]
  /\ inbox' = [x \in Tasks |->
       [inbox[x] EXCEPT !.lockedBy = IF @ = p THEN Nobody ELSE @]]
  /\ UNCHANGED <<delayed, dead, done>>

-----------------------------------------------------------------------------
\* An iteration of the relay goes on, well or badly.
RelayStep(p) ==
  /\ \/ \E batch \in SUBSET Events : Claim(p, batch) \/ ClaimUnread(p, batch)
     \/ Publish(p) \/ PublishRefused(p) \/ Confirmed(p)
     \/ MarkPublished(p) \/ MarkFails(p) \/ RecordError(p) \/ Abandon(p)
  /\ UNCHANGED consumerVars

\* A handler goes on.
HandlerStep(h) ==
  /\ \/ Reject(h) \/ ClaimInbox(h) \/ FindProcessed(h) \/ FindBusy(h)
     \/ Work(h) \/ WorkFails(h) \/ Mark(h) \/ Release(h) \/ StatementFails(h)
     \/ (Ack(h) \/ Retry(h) \/ Park(h) \/ Settle(h)) /\ UNCHANGED consumerVars
  /\ UNCHANGED relayVars

\* A handler gives up and closes the connection, which the relay uses as well.
HandlerGivesUp(h) ==
  /\ RetryUnroutable(h) \/ RetryRefused(h) \/ SettleClosed(h)
  /\ IF conn[ProcOf(h)] THEN Unconfirmed(ProcOf(h)) ELSE UNCHANGED relay
  /\ UNCHANGED <<row, consumerVars>>

DeliverTo(q, c) ==
  /\ \E h \in Handlers, n \in 0..DeliveryLimit : QueueOf(h) = q /\ Deliver(h, <<c, n>>)
  /\ UNCHANGED <<relayVars, consumerVars>>

BrokerStep ==
  /\ \/ \E c \in Copies : Expire(c)
     \/ \E p \in Procs : Reconnect(p)
  /\ UNCHANGED <<relayVars, consumerVars>>

LeaseExpires ==
  \/ \E e \in Events : RowLeaseExpires(e) /\ UNCHANGED consumerVars
  \/ \E x \in Tasks : InboxLeaseExpires(x) /\ UNCHANGED relayVars

Next ==
  \/ \E e \in Events : Append(e) /\ UNCHANGED consumerVars
  \/ \E p \in Procs : RelayStep(p)
  \/ \E h \in Handlers : HandlerStep(h)
  \/ \E h \in Handlers : HandlerGivesUp(h)
  \/ \E q \in Queues, c \in Copies : DeliverTo(q, c)
  \/ BrokerStep
  \/ LeaseExpires
  \/ \E p \in Procs : LoseConnection(p)
  \/ \E p \in Procs : Crash(p)

Spec == Init /\ [][Next]_vars

-----------------------------------------------------------------------------
(* What the processes, the broker and time do in the end. Nothing that is  *)
(* counted as a fault is among it, and no event has to be written.         *)

NoFault == UNCHANGED faults

Fairness ==
  /\ \A p \in Procs : WF_vars(RelayStep(p) /\ NoFault)
  /\ \A h \in Handlers : WF_vars((HandlerStep(h) \/ HandlerGivesUp(h)) /\ NoFault)
  /\ WF_vars(BrokerStep)
  /\ WF_vars(LeaseExpires /\ NoFault)
  \* A queue is first in, first out: a copy that waits gets to its head.
  /\ \A q \in Queues, c \in Copies : SF_vars(DeliverTo(q, c))

FairSpec == Spec /\ Fairness

-----------------------------------------------------------------------------
(* Safety.                                                                 *)

\* A copy of e is in queue q, with one of its consumers, or on its way back to
\* it.
UnderWay(q, e) ==
  \/ \E x \in Entries : x[1][1] = e /\ ready[q][x] > 0
  \/ \E c \in Copies : c[1] = e /\ delayed[c] > 0
  \/ \E h \in Handlers : QueueOf(h) = q /\ Held(h) /\ EventOf(h) = e

\* The broker took deliveries of e back more often than it does without dropping.
WornOut(q, e) == requeued[<<q, e>>] > DeliveryLimit

\* Only the broker's delivery limit can lose an event whose row says PUBLISHED:
\* each consumer still has it coming, or has done its work, or it is in the dead
\* letters, or more deliveries of it were given back than the limit allows.
PublishedIsNotLost ==
  \A e \in Events, q \in Queues :
    row[e].status = "PUBLISHED"
      => UnderWay(q, e) \/ <<q, e>> \in done \/ e \in dead[q] \/ WornOut(q, e)

\* What the inbox calls PROCESSED has had its effect.
ProcessedMeansDone ==
  \A x \in Tasks : inbox[x].status = "PROCESSED" => x \in done

\* No relay takes a published row back, also not one that lost its lease to a
\* faster one and has an error to record.
PublishedIsFinal ==
  [][\A e \in Events : row[e].status = "PUBLISHED" => row'[e] = row[e]]_vars

\* Two handlers are at work on the same task only if the lease of one of them
\* ran out under it.
OneAtATime ==
  \A x \in Tasks :
    ~inbox[x].lapsed
      => Cardinality({h \in Handlers : Busy(h) /\ TaskOf(h) = x /\ job[h].pc = "work"}) <= 1

-----------------------------------------------------------------------------
(* Liveness.                                                               *)

\* Every row that is written is published in the end, or given up as FAILED
\* after the last attempt.
RowsSettle ==
  \A e \in Events :
    row[e].status = "PENDING" ~> row[e].status \in {"PUBLISHED", "FAILED"}

\* Every published event has its effect in the end for each consumer, or is put
\* aside as a dead letter: no delivery is retried for ever.
DeliveriesSettle ==
  \A q \in Queues, e \in Events :
    row[e].status = "PUBLISHED"
      ~> <<q, e>> \in done \/ e \in dead[q]

-----------------------------------------------------------------------------
(* The abstract machine.                                                   *)

Queued == {x \in Tasks : UnderWay(x[1], x[2])}

Parked == {x \in Tasks : x[2] \in dead[x[1]]}

Promise == INSTANCE AtLeastOnce
  WITH queued <- Queued, parked <- Parked, effect <- done, returned <- requeued,
       Limit <- DeliveryLimit, published <- {e \in Events : row[e].status = "PUBLISHED"}

\* Relay, broker and consumers together deliver every published event at least
\* once to every consumer, or park it, as long as it is not given back too often.
ImplementsPromise == Promise!Spec
=============================================================================
