-------------------------------- MODULE Rabbit --------------------------------
(***************************************************************************)
(* RabbitMqService and the broker behind it: one connection per            *)
(* event-worker process, the queues its topology declares, and the copies  *)
(* of events that are in them.                                             *)
(*                                                                         *)
(* A copy of event e is <<e, n>>, where n is its x-retry-attempt header.   *)
(* The queues are quorum queues without a delivery limit of their own or a *)
(* dead-letter exchange, so the broker counts how often it took a delivery *)
(* of a copy back, and drops the copy when that exceeds its default limit. *)
(* The domain exchange routes every copy to both queues (binding "#"); the *)
(* retry exchange only knows routing keys that start with "realtime", and  *)
(* its queues hand a copy whose delay is over to the domain exchange.      *)
(* Publishing and its confirmation are one step here: if the connection is *)
(* lost in between, the copy was routed before or it was not.              *)
(***************************************************************************)
EXTENDS Integers, FiniteSets

CONSTANTS
  Procs,        \* event-worker processes
  Queues,       \* consumer queues that are looked at, "realtime" and "sync"
  Events,       \* ids of outbox events, numbered in the order of created_at
  Poison,       \* events whose payload the consumers' schema rejects
  Slots,        \* handlers a process may have under way for one queue
  Tries,        \* number of retry delays (rabbitMqRetryDelaysMs.length)
  DeliveryLimit,\* times a copy may come back to its queue (20 in rabbitmq:4.2)
  Nobody,       \* a worker id nobody has, or has any more
  MaxFaults,    \* bound on crashes, lost connections, early lease expiries, failures
  MaxCopies     \* bound on equal copies waiting in one queue

ASSUME RabbitAssumption ==
  /\ Queues \subseteq {"realtime", "sync"}
  /\ Events \subseteq Nat /\ Poison \subseteq Events
  /\ Tries \in Nat /\ DeliveryLimit \in Nat /\ MaxFaults \in Nat /\ MaxCopies \in Nat
  /\ IsFiniteSet(Slots)
  /\ Nobody \notin Procs

VARIABLES
  conn,     \* does the process have its connection, with both channels
  ready,    \* copies waiting in each queue
  delayed,  \* copies waiting in the retry queues
  requeued, \* history: how often deliveries of an event came back to a queue
  dead,     \* events of which a copy is in the queue's dead-letter queue
  job,      \* what each message handler is doing
  faults    \* how much of MaxFaults has happened

rabbitVars == <<conn, ready, delayed, requeued, dead, job, faults>>

Copies == Events \X (0..Tries)

\* A copy in a queue, and how often it came back there (x-delivery-count).
Entries == Copies \X (0..DeliveryLimit)

Handlers == Procs \X Queues \X Slots

ProcOf(h) == h[1]
QueueOf(h) == h[2]

IdleJob == [pc |-> "idle"]

\* held: the broker still waits for the acknowledgement of this delivery.
BusyJob == [pc : {"claim", "work", "mark", "release", "fail", "ack", "settle"},
            copy : Copies, returns : 0..DeliveryLimit, held : BOOLEAN]

Job == {IdleJob} \cup BusyJob

RabbitTypeOK ==
  /\ conn \in [Procs -> BOOLEAN]
  /\ ready \in [Queues -> [Entries -> Nat]]
  /\ delayed \in [Copies -> Nat]
  /\ requeued \in [Queues \X Events -> Nat]
  /\ dead \in [Queues -> SUBSET Events]
  /\ job \in [Handlers -> Job]
  /\ faults \in 0..MaxFaults

RabbitInit ==
  /\ conn = [p \in Procs |-> TRUE]
  /\ ready = [q \in Queues |-> [x \in Entries |-> 0]]
  /\ delayed = [c \in Copies |-> 0]
  /\ requeued = [x \in Queues \X Events |-> 0]
  /\ dead = [q \in Queues |-> {}]
  /\ job = [h \in Handlers |-> IdleJob]
  /\ faults = 0

Fault == faults < MaxFaults /\ faults' = faults + 1

\* A failure that the environment brings about, or one that follows from where
\* the system is already.
FaultUnless(inevitable) == IF inevitable THEN UNCHANGED faults ELSE Fault

At(h, pc) == job[h].pc = pc

Step(h, pc) == job' = [job EXCEPT ![h].pc = pc]

Free(h) == job' = [job EXCEPT ![h] = IdleJob]

-----------------------------------------------------------------------------
\* The domain exchange routes copy c.
RouteDomain(c) ==
  /\ \A q \in Queues, n \in 0..DeliveryLimit : ready[q][<<c, n>>] < MaxCopies
  /\ ready' = [q \in Queues |-> [ready[q] EXCEPT ![<<c, 0>>] = @ + 1]]

\* The time-to-live of a copy in a retry queue is over.
Expire(c) ==
  /\ delayed[c] > 0
  /\ delayed' = [delayed EXCEPT ![c] = @ - 1]
  /\ RouteDomain(c)
  /\ UNCHANGED <<conn, requeued, dead, job, faults>>

\* The broker pushes a waiting copy to a consumer.
Deliver(h, x) ==
  LET q == QueueOf(h) IN
  /\ conn[ProcOf(h)]
  /\ job[h] = IdleJob
  /\ ready[q][x] > 0
  /\ ready' = [ready EXCEPT ![q][x] = @ - 1]
  /\ job' = [job EXCEPT ![h] =
       [pc |-> "claim", copy |-> x[1], returns |-> x[2], held |-> TRUE]]
  /\ UNCHANGED <<conn, delayed, requeued, dead, faults>>

Busy(h) == job[h] # IdleJob

Held(h) == Busy(h) /\ job[h].held

\* Handlers of p that the broker waits for, with copy c given back n times before.
HeldBy(p, q, c, n) ==
  {s \in Slots : /\ Held(<<p, q, s>>)
                 /\ job[<<p, q, s>>].copy = c /\ job[<<p, q, s>>].returns = n}

\* The queues once p has no connection: the broker takes back what p has not
\* acknowledged, but for the copies that came back as often as they may.
Returned(p) ==
  [q \in Queues |-> [x \in Entries |->
     IF x[2] = 0 THEN ready[q][x]
     ELSE ready[q][x] + Cardinality(HeldBy(p, q, x[1], x[2] - 1))]]

\* Does p hold a delivery of event x[2] from queue x[1]?
Holding(p, x) ==
  \E h \in Handlers : /\ ProcOf(h) = p /\ QueueOf(h) = x[1]
                      /\ Held(h) /\ job[h].copy[1] = x[2]

\* The broker has noticed that p has no connection any more.
TakeBack(p) ==
  /\ ready' = Returned(p)
  /\ requeued' = [x \in Queues \X Events |->
                    IF Holding(p, x) /\ requeued[x] <= DeliveryLimit
                    THEN requeued[x] + 1 ELSE requeued[x]]

\* The handlers of p, which go on with what they have and do not notice.
Orphaned(p) ==
  [h \in Handlers |->
     IF ProcOf(h) = p /\ Busy(h) THEN [job[h] EXCEPT !.held = FALSE] ELSE job[h]]

-----------------------------------------------------------------------------
(* handleDelivery around the handler: its acknowledgements and retries.    *)

\* channel.ack after success; on a channel that is closed it throws, and the
\* delivery is treated as a failure.
Ack(h) ==
  /\ At(h, "ack")
  /\ IF job[h].held THEN Free(h) ELSE Step(h, "fail")
  /\ UNCHANGED <<conn, ready, delayed, requeued, dead, faults>>

\* A PermanentRabbitMessageError, or no attempt is left.
Hopeless(c) == c[1] \in Poison \/ c[2] >= Tries

\* Mutant: the header keeps its value.
RetrySameAttempt(h) ==
  /\ At(h, "fail") /\ ~Hopeless(job[h].copy)
  /\ QueueOf(h) = "realtime"
  /\ conn[ProcOf(h)]
  /\ delayed[job[h].copy] < MaxCopies
  /\ delayed' = [delayed EXCEPT ![job[h].copy] = @ + 1]
  /\ Step(h, "settle")
  /\ UNCHANGED <<conn, ready, requeued, dead, faults>>

\* A failed delivery is published again with the next attempt, if the retry
\* exchange has a queue for it.
Retry(h) ==
  LET next == <<job[h].copy[1], job[h].copy[2] + 1>> IN
  /\ At(h, "fail") /\ ~Hopeless(job[h].copy)
  /\ QueueOf(h) = "realtime"
  /\ conn[ProcOf(h)]
  /\ delayed[next] < MaxCopies
  /\ delayed' = [delayed EXCEPT ![next] = @ + 1]
  /\ Step(h, "settle")
  /\ UNCHANGED <<conn, ready, requeued, dead, faults>>

\* A hopeless delivery is published to the dead letters.
Park(h) ==
  /\ At(h, "fail") /\ Hopeless(job[h].copy)
  /\ conn[ProcOf(h)]
  /\ dead' = [dead EXCEPT ![QueueOf(h)] = @ \cup {job[h].copy[1]}]
  /\ Step(h, "settle")
  /\ UNCHANGED <<conn, ready, delayed, requeued, faults>>

\* The original is acknowledged once its copy is confirmed.
Settle(h) ==
  /\ At(h, "settle") /\ job[h].held
  /\ Free(h)
  /\ UNCHANGED <<conn, ready, delayed, requeued, dead, faults>>

\* A handler closes whatever connection its process has at this moment.
CloseConnection(h) ==
  LET p == ProcOf(h) IN
  /\ conn' = [conn EXCEPT ![p] = FALSE]
  /\ TakeBack(p)
  /\ job' = [Orphaned(p) EXCEPT ![h] = IdleJob]
  /\ UNCHANGED <<delayed, dead>>

\* Mutant: without "mandatory" the broker drops the copy and confirms it.
RetryDropped(h) ==
  /\ At(h, "fail") /\ ~Hopeless(job[h].copy)
  /\ QueueOf(h) = "sync"
  /\ conn[ProcOf(h)]
  /\ Step(h, "settle")
  /\ UNCHANGED <<conn, ready, delayed, requeued, dead, faults>>

\* No queue is bound for the retry of a sync delivery: it is published as
\* mandatory, is returned, and the handler gives up. The original goes back to
\* its queue, and that counts against its limit.
RetryUnroutable(h) ==
  /\ At(h, "fail") /\ ~Hopeless(job[h].copy)
  /\ QueueOf(h) = "sync"
  /\ conn[ProcOf(h)]
  /\ CloseConnection(h)
  /\ UNCHANGED faults

\* The publisher is gone, or the broker refuses the copy.
RetryRefused(h) ==
  /\ At(h, "fail")
  /\ FaultUnless(~conn[ProcOf(h)])
  /\ CloseConnection(h)

\* The acknowledgement of a delivery whose channel is closed throws.
SettleClosed(h) ==
  /\ At(h, "settle") /\ ~job[h].held
  /\ CloseConnection(h)
  /\ UNCHANGED faults

-----------------------------------------------------------------------------
Reconnect(p) ==
  /\ ~conn[p]
  /\ conn' = [conn EXCEPT ![p] = TRUE]
  /\ UNCHANGED <<ready, delayed, requeued, dead, job, faults>>
=============================================================================
