---------------------------- MODULE DeliveryProofs ----------------------------
(***************************************************************************)
(* The delivery of events, for any processes, events, handlers, retries    *)
(* and faults: types, the effects behind the inbox, one worker at a time   *)
(* to an event, that no published event is lost, and that all this         *)
(* implements delivery at least once.                                      *)
(***************************************************************************)
EXTENDS Delivery, FiniteSetTheorems, TLAPS

\* Steps leave parts of the broker alone; every proof sees which.
USE DEF brokerVars

LEMMA FaultType ==
  ASSUME RabbitTypeOK, Fault \/ UNCHANGED faults
  PROVE  faults' \in 0..MaxFaults
  BY RabbitAssumption DEF RabbitTypeOK, Fault

LEMMA FaultUnlessType ==
  ASSUME RabbitTypeOK, NEW x, FaultUnless(x)
  PROVE  faults' \in 0..MaxFaults
  BY FaultType DEF FaultUnless

\* A handler that is anywhere has a copy.
LEMMA BusyJobs ==
  ASSUME RabbitTypeOK, NEW h \in Handlers, NEW pc, At(h, pc), pc # "idle"
  PROVE  job[h] \in BusyJob /\ Busy(h)
  BY DEF RabbitTypeOK, Job, IdleJob, At, Busy

LEMMA StepType ==
  ASSUME RabbitTypeOK, NEW h \in Handlers, job[h] \in BusyJob,
         NEW pc \in {"claim", "work", "mark", "release", "fail", "ack", "settle"},
         Step(h, pc)
  PROVE  /\ job' \in [Handlers -> Job]
         /\ \A g \in Handlers : job'[g] = IF g = h THEN [job[h] EXCEPT !.pc = pc] ELSE job[g]
  BY DEF RabbitTypeOK, Job, BusyJob, Step

LEMMA StepMoves ==
  ASSUME RabbitTypeOK, NEW h \in Handlers, job[h] \in BusyJob,
         NEW pc \in {"claim", "work", "mark", "release", "fail", "ack", "settle"},
         Step(h, pc)
  PROVE  /\ job'[h] \in BusyJob /\ job'[h].pc = pc
         /\ job'[h].copy = job[h].copy /\ job'[h].returns = job[h].returns
         /\ job'[h].held = job[h].held
         /\ \A g \in Handlers : g # h => job'[g] = job[g]
<1>1. job'[h] = [job[h] EXCEPT !.pc = pc] /\ \A g \in Handlers : g # h => job'[g] = job[g]
  BY DEF RabbitTypeOK, Step
<1>2. [job[h] EXCEPT !.pc = pc] \in BusyJob
  BY DEF BusyJob
<1>3. [job[h] EXCEPT !.pc = pc].pc = pc
  BY DEF BusyJob
<1>4. QED
  BY <1>1, <1>2, <1>3 DEF BusyJob

LEMMA FreeType ==
  ASSUME RabbitTypeOK, NEW h \in Handlers, Free(h)
  PROVE  /\ job' \in [Handlers -> Job]
         /\ \A g \in Handlers : job'[g] = IF g = h THEN IdleJob ELSE job[g]
  BY DEF RabbitTypeOK, Job, Free

\* What the broker takes back when p has no connection any more.
LEMMA ReturnedType ==
  ASSUME RabbitTypeOK, NEW p \in Procs
  PROVE  /\ Returned(p) \in [Queues -> [Entries -> Nat]]
         /\ \A q \in Queues, x \in Entries :
              /\ Returned(p)[q][x] >= ready[q][x]
              /\ x[2] > 0 /\ HeldBy(p, q, x[1], x[2] - 1) # {} => Returned(p)[q][x] > 0
              /\ Returned(p)[q][x] > 0
                   => \/ ready[q][x] > 0
                      \/ x[2] > 0 /\ HeldBy(p, q, x[1], x[2] - 1) # {}
<1> DEFINE back(q, x) == Cardinality(HeldBy(p, q, x[1], x[2] - 1))
<1>1. \A q \in Queues, x \in Entries :
        /\ back(q, x) \in Nat
        /\ HeldBy(p, q, x[1], x[2] - 1) # {} => back(q, x) > 0
        /\ HeldBy(p, q, x[1], x[2] - 1) = {} => back(q, x) = 0
  <2> TAKE q \in Queues, x \in Entries
  <2>1. IsFiniteSet(HeldBy(p, q, x[1], x[2] - 1))
    BY RabbitAssumption, FS_Subset DEF HeldBy
  <2>2. QED
    BY <2>1, FS_CardinalityType, FS_EmptySet
<1>2. \A q \in Queues, x \in Entries : ready[q][x] \in Nat /\ x[2] \in Nat
  BY RabbitAssumption DEF RabbitTypeOK, Entries
<1>3. \A q \in Queues, x \in Entries :
        Returned(p)[q][x] = IF x[2] = 0 THEN ready[q][x] ELSE ready[q][x] + back(q, x)
  BY DEF Returned
<1>4. Returned(p) = [q \in Queues |-> [x \in Entries |-> Returned(p)[q][x]]]
  BY DEF Returned
<1> HIDE DEF back
<1>5. \A q \in Queues, x \in Entries :
        /\ Returned(p)[q][x] \in Nat
        /\ Returned(p)[q][x] >= ready[q][x]
        /\ x[2] > 0 /\ HeldBy(p, q, x[1], x[2] - 1) # {} => Returned(p)[q][x] > 0
        /\ Returned(p)[q][x] > 0
             => \/ ready[q][x] > 0
                \/ x[2] > 0 /\ HeldBy(p, q, x[1], x[2] - 1) # {}
  BY <1>1, <1>2, <1>3
<1>6. Returned(p) \in [Queues -> [Entries -> Nat]]
  BY <1>4, <1>5
<1>7. QED
  BY <1>5, <1>6

\* A return is counted, as long as the count says less than "too often".
LEMMA TakeBackType ==
  ASSUME RabbitTypeOK, NEW p \in Procs, TakeBack(p)
  PROVE  /\ ready' \in [Queues -> [Entries -> Nat]]
         /\ requeued' \in [Queues \X Events -> Nat]
         /\ \A x \in Queues \X Events :
              /\ requeued[x] \in Nat /\ requeued'[x] \in Nat
              /\ requeued'[x] >= requeued[x]
              /\ ~Holding(p, x) => requeued'[x] = requeued[x]
              /\ Holding(p, x) => requeued'[x] = requeued[x] + 1 \/ requeued'[x] > DeliveryLimit
<1>1. ready' \in [Queues -> [Entries -> Nat]]
  BY ReturnedType DEF TakeBack
<1>2. \A x \in Queues \X Events :
        /\ requeued[x] \in Nat
        /\ requeued'[x] = IF Holding(p, x) /\ requeued[x] <= DeliveryLimit
                          THEN requeued[x] + 1 ELSE requeued[x]
  BY DEF TakeBack, RabbitTypeOK
<1>3. requeued' \in [Queues \X Events -> Nat]
  BY <1>2 DEF TakeBack
<1>4. QED
  BY <1>1, <1>2, <1>3, RabbitAssumption

LEMMA OrphanedType ==
  ASSUME RabbitTypeOK, NEW p \in Procs
  PROVE  Orphaned(p) \in [Handlers -> Job]
  BY DEF RabbitTypeOK, Orphaned, Job, BusyJob, Busy

\* Every copy may wait in a queue, as a new one and as one that came back.
LEMMA EntryOf ==
  ASSUME NEW c \in Copies
  PROVE  /\ \E x \in Entries : x = <<c, 0>>
         /\ \A n \in 0..DeliveryLimit : \E x \in Entries : x = <<c, n>>
<1>1. 0 \in 0..DeliveryLimit
  BY RabbitAssumption
<1>2. \A n \in 0..DeliveryLimit : <<c, n>> \in Entries
  BY Zenon DEF Entries
<1>3. QED
  BY <1>1, <1>2, Zenon

LEMMA FirstCopy ==
  ASSUME NEW e \in Events
  PROVE  <<e, 0>> \in Copies
<1>1. 0 \in 0..Tries
  BY RabbitAssumption
<1>2. QED
  BY <1>1, Zenon DEF Copies

LEMMA RouteType ==
  ASSUME RabbitTypeOK, NEW c, RouteDomain(c)
  PROVE  /\ ready' \in [Queues -> [Entries -> Nat]]
         /\ \A q \in Queues, x \in Entries :
              ready'[q][x] = IF x = <<c, 0>> THEN ready[q][x] + 1 ELSE ready[q][x]
<1> DEFINE new == <<c, 0>>
           g(q) == [ready[q] EXCEPT ![new] = ready[q][new] + 1]
<1>1. ready' = [q \in Queues |-> g(q)]
  BY DEF RouteDomain
<1> HIDE DEF new
<1>2. ASSUME NEW q \in Queues
      PROVE  /\ g(q) \in [Entries -> Nat]
             /\ \A x \in Entries : g(q)[x] = IF x = new THEN ready[q][x] + 1 ELSE ready[q][x]
  <2>1. ready[q] \in [Entries -> Nat]
    BY DEF RabbitTypeOK
  <2>2. CASE new \in Entries
    BY <2>1, <2>2
  <2>3. CASE new \notin Entries
    BY <2>1, <2>3
  <2>4. QED
    BY <2>2, <2>3
<1> HIDE DEF g
<1>3. QED
  BY <1>1, <1>2 DEF new

-----------------------------------------------------------------------------
(* Types.                                                                  *)

LEMMA GotoType ==
  ASSUME RelayTypeOK, NEW p \in Procs,
         NEW pc \in {"idle", "publish", "confirm", "mark", "error", "hung"}, Goto(p, pc)
  PROVE  relay' \in [Procs -> Iteration]
  BY DEF RelayTypeOK, Iteration, Goto

LEMMA UnconfirmedType ==
  ASSUME RelayTypeOK, NEW p \in Procs, Unconfirmed(p)
  PROVE  relay' \in [Procs -> Iteration]
  BY GotoType DEF Unconfirmed, RelayTypeOK

LEMMA NextInBatchType ==
  ASSUME RelayTypeOK, NEW p \in Procs, NextInBatch(p)
  PROVE  relay' \in [Procs -> Iteration]
  BY DEF RelayTypeOK, Iteration, NextInBatch, NoIteration

LEMMA LeaseType ==
  ASSUME RelayTypeOK, NEW p \in Procs, NEW batch \in SUBSET Events, Lease(p, batch)
  PROVE  row' \in [Events -> OutboxRow]
  BY DEF RelayTypeOK, OutboxRow, Lease

LEMMA RelayStepType ==
  ASSUME TypeOK, NEW p \in Procs, RelayStep(p)
  PROVE  TypeOK'
<1> USE DEF TypeOK
<1>a. RabbitTypeOK /\ RelayTypeOK /\ ConsumerTypeOK
  OBVIOUS
<1>b. ConsumerTypeOK'
  BY DEF RelayStep, consumerVars, ConsumerTypeOK
<1>1. ASSUME NEW batch \in SUBSET Events, Claim(p, batch)
      PROVE  RabbitTypeOK' /\ RelayTypeOK'
  BY <1>1, <1>a, LeaseType DEF Claim, RelayTypeOK, Iteration, rabbitVars, RabbitTypeOK
<1>2. ASSUME NEW batch \in SUBSET Events, ClaimUnread(p, batch)
      PROVE  RabbitTypeOK' /\ RelayTypeOK'
  BY <1>2, <1>a, LeaseType, FaultType DEF ClaimUnread, RelayTypeOK, RabbitTypeOK
<1>3. CASE Publish(p)
  BY <1>3, <1>a, <1>b, RouteType, GotoType DEF Publish, RelayTypeOK, RabbitTypeOK
<1>4. CASE PublishRefused(p)
  BY <1>4, <1>a, <1>b, FaultUnlessType, GotoType DEF PublishRefused, RelayTypeOK, RabbitTypeOK
<1>5. CASE Confirmed(p)
  BY <1>5, <1>a, <1>b, GotoType DEF Confirmed, RelayTypeOK, RabbitTypeOK, rabbitVars
<1>6. CASE MarkPublished(p)
  <2>1. row' \in [Events -> OutboxRow]
    BY <1>6, <1>a DEF MarkPublished, Published, RelayTypeOK, OutboxRow
  <2>2. QED
    BY <1>6, <1>a, <1>b, <2>1, NextInBatchType
       DEF MarkPublished, RelayTypeOK, RabbitTypeOK, rabbitVars
<1>7. CASE MarkFails(p)
  BY <1>7, <1>a, <1>b, FaultType, GotoType DEF MarkFails, RelayTypeOK, RabbitTypeOK
<1>8. CASE RecordError(p)
  <2>1. row' \in [Events -> OutboxRow]
    <3>1. \A e \in Events : Unpublished(e) \in OutboxRow
      BY <1>a DEF Unpublished, RelayTypeOK, OutboxRow
    <3>2. QED
      BY <1>8, <1>a, <3>1 DEF RecordError, RelayTypeOK
  <2>2. QED
    BY <1>8, <1>a, <1>b, <2>1, NextInBatchType
       DEF RecordError, RelayTypeOK, RabbitTypeOK, rabbitVars
<1>9. CASE Abandon(p)
  BY <1>9, <1>a, <1>b, FaultType
     DEF Abandon, RelayTypeOK, RabbitTypeOK, Iteration, NoIteration
<1>10. QED
  BY <1>b, <1>1, <1>2, <1>3, <1>4, <1>5, <1>6, <1>7, <1>8, <1>9 DEF RelayStep

LEMMA InboxType ==
  ASSUME RabbitTypeOK, ConsumerTypeOK, NEW h \in Handlers, job[h] \in BusyJob
  PROVE  /\ ProcOf(h) \in Procs /\ QueueOf(h) \in Queues
         /\ EventOf(h) \in Events /\ TaskOf(h) \in Tasks
  BY DEF Handlers, ProcOf, QueueOf, EventOf, TaskOf, Tasks, BusyJob, Copies

LEMMA HandlerStepType ==
  ASSUME TypeOK, NEW h \in Handlers, HandlerStep(h)
  PROVE  TypeOK'
<1> USE DEF TypeOK
<1>a. RabbitTypeOK /\ RelayTypeOK /\ ConsumerTypeOK
  OBVIOUS
<1>b. RelayTypeOK'
  BY DEF HandlerStep, relayVars, RelayTypeOK
<1>c. job[h] \in BusyJob
  BY <1>a, BusyJobs
     DEF HandlerStep, Reject, ClaimInbox, FindProcessed, FindBusy, Work, WorkFails, Mark,
         Release, StatementFails, Ack, Retry, Park, Settle
<1>d. ProcOf(h) \in Procs /\ QueueOf(h) \in Queues /\ EventOf(h) \in Events /\ TaskOf(h) \in Tasks
  BY <1>a, <1>c, InboxType
<1>1. CASE Reject(h) \/ FindProcessed(h) \/ FindBusy(h)
  BY <1>1, <1>a, <1>b, <1>c, StepType
     DEF Reject, FindProcessed, FindBusy, RabbitTypeOK, ConsumerTypeOK, consumerVars
<1>2. CASE ClaimInbox(h)
  <2>1. inbox' \in [Tasks -> InboxRow]
    BY <1>2, <1>a, <1>d DEF ClaimInbox, ConsumerTypeOK, InboxRow
  <2>2. QED
    BY <1>2, <1>a, <1>b, <1>c, <2>1, StepType DEF ClaimInbox, RabbitTypeOK, ConsumerTypeOK
<1>3. CASE Work(h)
  BY <1>3, <1>a, <1>b, <1>c, <1>d, StepType DEF Work, RabbitTypeOK, ConsumerTypeOK
<1>4. CASE WorkFails(h)
  BY <1>4, <1>a, <1>b, <1>c, StepType, FaultUnlessType
     DEF WorkFails, RabbitTypeOK, ConsumerTypeOK, consumerVars
<1>5. CASE Mark(h)
  <2>1. inbox' \in [Tasks -> InboxRow]
    BY <1>5, <1>a, <1>d DEF Mark, ConsumerTypeOK, InboxRow
  <2>2. QED
    BY <1>5, <1>a, <1>b, <1>c, <2>1, StepType DEF Mark, RabbitTypeOK, ConsumerTypeOK
<1>6. CASE Release(h)
  <2>1. inbox' \in [Tasks -> InboxRow]
    BY <1>6, <1>a, <1>d DEF Release, ConsumerTypeOK, InboxRow
  <2>2. QED
    BY <1>6, <1>a, <1>b, <1>c, <2>1, StepType DEF Release, RabbitTypeOK, ConsumerTypeOK
<1>7. CASE StatementFails(h)
  BY <1>7, <1>a, <1>b, <1>c, StepType, FaultType
     DEF StatementFails, RabbitTypeOK, ConsumerTypeOK, consumerVars
<1>8. CASE Ack(h) /\ UNCHANGED consumerVars
  BY <1>8, <1>a, <1>b, <1>c, StepType, FreeType
     DEF Ack, RabbitTypeOK, ConsumerTypeOK, consumerVars
<1>9. CASE Retry(h) /\ UNCHANGED consumerVars
  <2>1. delayed' \in [Copies -> Nat]
    <3> DEFINE next == <<job[h].copy[1], job[h].copy[2] + 1>>
    <3>1. delayed' = [delayed EXCEPT ![next] = delayed[next] + 1]
      BY <1>9 DEF Retry
    <3>2. next \in Copies
      BY <1>9, <1>c, RabbitAssumption DEF Retry, BusyJob, Copies, Hopeless
    <3> HIDE DEF next
    <3>3. QED
      BY <3>1, <3>2, <1>a DEF RabbitTypeOK
  <2>2. QED
    BY <1>9, <1>a, <1>b, <1>c, <2>1, StepType DEF Retry, RabbitTypeOK, ConsumerTypeOK, consumerVars
<1>10. CASE Park(h) /\ UNCHANGED consumerVars
  <2>1. dead' \in [Queues -> SUBSET Events]
    BY <1>10, <1>a, <1>d DEF Park, RabbitTypeOK, EventOf
  <2>2. QED
    BY <1>10, <1>a, <1>b, <1>c, <2>1, StepType DEF Park, RabbitTypeOK, ConsumerTypeOK, consumerVars
<1>11. CASE Settle(h) /\ UNCHANGED consumerVars
  BY <1>11, <1>a, <1>b, FreeType DEF Settle, RabbitTypeOK, ConsumerTypeOK, consumerVars
<1>12. QED
  BY <1>1, <1>2, <1>3, <1>4, <1>5, <1>6, <1>7, <1>8, <1>9, <1>10, <1>11 DEF HandlerStep

\* A handler that closes the connection.
LEMMA CloseType ==
  ASSUME RabbitTypeOK, NEW h \in Handlers, CloseConnection(h), faults' \in 0..MaxFaults
  PROVE  RabbitTypeOK'
<1>1. ProcOf(h) \in Procs
  BY DEF Handlers, ProcOf
<1>2. job' \in [Handlers -> Job]
  BY <1>1, OrphanedType DEF CloseConnection, Job
<1>3. QED
  BY <1>1, <1>2, TakeBackType DEF CloseConnection, RabbitTypeOK

LEMMA GivesUpType ==
  ASSUME TypeOK, NEW h \in Handlers, HandlerGivesUp(h)
  PROVE  TypeOK'
<1>1. ProcOf(h) \in Procs
  BY DEF Handlers, ProcOf
<1>2. CloseConnection(h) /\ faults' \in 0..MaxFaults
  BY FaultUnlessType
     DEF TypeOK, RabbitTypeOK, HandlerGivesUp, RetryUnroutable, RetryRefused, SettleClosed
<1>3. RelayTypeOK'
  BY <1>1, UnconfirmedType DEF TypeOK, HandlerGivesUp, RelayTypeOK
<1>4. QED
  BY <1>2, <1>3, CloseType DEF TypeOK, HandlerGivesUp, ConsumerTypeOK, consumerVars

LEMMA EnvironmentType ==
  ASSUME TypeOK,
         \/ \E e \in Events : Append(e) /\ UNCHANGED consumerVars
         \/ \E q \in Queues, c \in Copies : DeliverTo(q, c)
         \/ BrokerStep
         \/ LeaseExpires
         \/ \E p \in Procs : LoseConnection(p) \/ Crash(p)
  PROVE  TypeOK'
<1> USE DEF TypeOK
<1>a. RabbitTypeOK /\ RelayTypeOK /\ ConsumerTypeOK
  OBVIOUS
<1>1. ASSUME NEW e \in Events, Append(e), UNCHANGED consumerVars
      PROVE  TypeOK'
  BY <1>1, <1>a
     DEF Append, RabbitTypeOK, RelayTypeOK, ConsumerTypeOK, rabbitVars, consumerVars, OutboxRow
<1>2. ASSUME NEW x \in Entries, NEW h \in Handlers, Deliver(h, x),
             UNCHANGED <<relayVars, consumerVars>>
      PROVE  TypeOK'
  <2>1. job' \in [Handlers -> Job]
    <3>1. x[1] \in Copies /\ x[2] \in 0..DeliveryLimit
      BY DEF Entries
    <3>2. QED
      BY <1>2, <1>a, <3>1 DEF Deliver, RabbitTypeOK, Job, BusyJob
  <2>2. ready' \in [Queues -> [Entries -> Nat]]
    <3>1. QueueOf(h) \in Queues
      BY DEF Handlers, QueueOf
    <3>2. ready[QueueOf(h)][x] \in Nat /\ ready[QueueOf(h)][x] > 0
      BY <3>1, <1>2, <1>a DEF Deliver, RabbitTypeOK
    <3>3. ready[QueueOf(h)][x] - 1 \in Nat
      BY <3>2
    <3>4. [ready[QueueOf(h)] EXCEPT ![x] = ready[QueueOf(h)][x] - 1] \in [Entries -> Nat]
      BY <3>1, <3>3, <1>a DEF RabbitTypeOK
    <3>5. QED
      BY <3>1, <3>4, <1>2, <1>a DEF Deliver, RabbitTypeOK
  <2>3. QED
    BY <1>2, <1>a, <2>1, <2>2
       DEF Deliver, RabbitTypeOK, RelayTypeOK, ConsumerTypeOK, relayVars, consumerVars
<1>3. ASSUME NEW c \in Copies, Expire(c), UNCHANGED <<relayVars, consumerVars>>
      PROVE  TypeOK'
  <2>1. delayed' \in [Copies -> Nat]
    BY <1>3, <1>a DEF Expire, RabbitTypeOK
  <2>2. QED
    BY <1>3, <1>a, <2>1, RouteType
       DEF Expire, RabbitTypeOK, RelayTypeOK, ConsumerTypeOK, relayVars, consumerVars
<1>4. ASSUME NEW p \in Procs, Reconnect(p), UNCHANGED <<relayVars, consumerVars>>
      PROVE  TypeOK'
  BY <1>4, <1>a
     DEF Reconnect, RabbitTypeOK, RelayTypeOK, ConsumerTypeOK, relayVars, consumerVars
<1>5. ASSUME NEW e \in Events, RowLeaseExpires(e), UNCHANGED consumerVars
      PROVE  TypeOK'
  <2>1. row' = [row EXCEPT ![e] = [row[e] EXCEPT !.live = FALSE]]
    BY <1>5, <1>a DEF RowLeaseExpires, RelayTypeOK, OutboxRow
  <2>2. row' \in [Events -> OutboxRow]
    BY <2>1, <1>a DEF RelayTypeOK, OutboxRow
  <2>3. faults' \in 0..MaxFaults
    BY <1>5, <1>a, FaultUnlessType DEF RowLeaseExpires
  <2>4. QED
    BY <1>5, <1>a, <2>2, <2>3
       DEF RowLeaseExpires, RabbitTypeOK, RelayTypeOK, ConsumerTypeOK, consumerVars
<1>6. ASSUME NEW x \in Tasks, InboxLeaseExpires(x), UNCHANGED relayVars
      PROVE  TypeOK'
  <2>1. inbox' \in [Tasks -> InboxRow]
    <3> DEFINE late == inbox[x].lapsed \/ AtWork(x) # {}
    <3>1. late \in BOOLEAN
      OBVIOUS
    <3>2. inbox' = [inbox EXCEPT ![x] = [inbox[x] EXCEPT !.live = FALSE, !.lapsed = late]]
      BY <1>6, <1>a DEF InboxLeaseExpires, ConsumerTypeOK, InboxRow
    <3> HIDE DEF late
    <3>3. QED
      BY <3>1, <3>2, <1>a DEF ConsumerTypeOK, InboxRow
  <2>2. QED
    BY <1>6, <1>a, <2>1, FaultUnlessType
       DEF InboxLeaseExpires, RabbitTypeOK, RelayTypeOK, ConsumerTypeOK, relayVars
<1>7. ASSUME NEW p \in Procs, LoseConnection(p)
      PROVE  TypeOK'
  <2>1. RabbitTypeOK'
    <3>1. Orphaned(p) \in [Handlers -> Job]
      BY <1>a, OrphanedType
    <3>2. faults' \in 0..MaxFaults
      BY <1>7, <1>a, FaultType DEF LoseConnection
    <3>3. QED
      BY <1>7, <1>a, <3>1, <3>2, TakeBackType DEF LoseConnection, RabbitTypeOK
  <2>2. RelayTypeOK'
    BY <1>7, <1>a, UnconfirmedType DEF LoseConnection, RelayTypeOK
  <2>3. QED
    BY <1>7, <1>a, <2>1, <2>2 DEF LoseConnection, ConsumerTypeOK, consumerVars
<1>8. ASSUME NEW p \in Procs, Crash(p)
      PROVE  TypeOK'
  <2>1. job' \in [Handlers -> Job]
    BY <1>8, <1>a DEF Crash, RabbitTypeOK, Job
  <2>2. row' \in [Events -> OutboxRow]
    <3> DEFINE left(e) ==
          [row[e] EXCEPT !.lockedBy = IF row[e].lockedBy = p THEN Nobody ELSE row[e].lockedBy]
    <3>1. \A e \in Events : left(e) \in OutboxRow
      BY <1>a DEF RelayTypeOK, OutboxRow
    <3>2. row' = [e \in Events |-> left(e)]
      BY <1>8 DEF Crash
    <3> HIDE DEF left
    <3>3. QED
      BY <3>1, <3>2
  <2>3. inbox' \in [Tasks -> InboxRow]
    <3> DEFINE left(x) ==
          [inbox[x] EXCEPT !.lockedBy = IF inbox[x].lockedBy = p THEN Nobody
                                        ELSE inbox[x].lockedBy]
    <3>1. \A x \in Tasks : left(x) \in InboxRow
      BY <1>a DEF ConsumerTypeOK, InboxRow
    <3>2. inbox' = [x \in Tasks |-> left(x)]
      BY <1>8 DEF Crash
    <3> HIDE DEF left
    <3>3. QED
      BY <3>1, <3>2
  <2>4. relay' \in [Procs -> Iteration]
    BY <1>8, <1>a DEF Crash, RelayTypeOK, Iteration, NoIteration
  <2>5. QED
    BY <1>8, <1>a, <2>1, <2>2, <2>3, <2>4, FaultType, TakeBackType
       DEF Crash, RabbitTypeOK, RelayTypeOK, ConsumerTypeOK
<1>9. ASSUME NEW q \in Queues, NEW c \in Copies, DeliverTo(q, c)
      PROVE  TypeOK'
  <2>1. PICK h \in Handlers, n \in 0..DeliveryLimit : Deliver(h, <<c, n>>)
    BY <1>9 DEF DeliverTo
  <2>2. <<c, n>> \in Entries
    BY DEF Entries
  <2>3. QED
    BY <1>2, <1>9, <2>1, <2>2 DEF DeliverTo
<1>10. QED
  BY <1>1, <1>3, <1>4, <1>5, <1>6, <1>7, <1>8, <1>9 DEF BrokerStep, LeaseExpires

LEMMA InitType == ASSUME Init PROVE TypeOK
<1>1. RabbitTypeOK
  BY RabbitAssumption DEF Init, RabbitInit, RabbitTypeOK, Job
<1>2. RelayTypeOK
  BY DEF Init, RelayInit, RelayTypeOK, OutboxRow, Iteration, NoIteration
<1>3. ConsumerTypeOK
  BY DEF Init, ConsumerInit, ConsumerTypeOK, InboxRow
<1>4. QED
  BY <1>1, <1>2, <1>3 DEF TypeOK

LEMMA NextType == ASSUME TypeOK, [Next]_vars PROVE TypeOK'
<1>1. CASE Next
  BY <1>1, RelayStepType, HandlerStepType, GivesUpType, EnvironmentType DEF Next
<1>2. CASE UNCHANGED vars
  BY <1>2
     DEF vars, rabbitVars, relayVars, consumerVars, TypeOK, RabbitTypeOK, RelayTypeOK,
         ConsumerTypeOK
<1>3. QED
  BY <1>1, <1>2

\* Queues, rows, iterations and handlers keep their shapes, and no queue ever
\* holds less than no copy.
THEOREM DeliveryTypeCorrect == Spec => []TypeOK
<1>1. Init => TypeOK
  BY InitType
<1>2. TypeOK /\ [Next]_vars => TypeOK'
  BY NextType
<1>3. QED
  BY <1>1, <1>2, PTL DEF Spec

-----------------------------------------------------------------------------
(* The effect is there before the inbox row says PROCESSED.                *)

\* A handler that is past its work, or found the row PROCESSED.
EffectFirst ==
  \A h \in Handlers : job[h].pc \in {"mark", "ack"} => TaskOf(h) \in done

EInv == TypeOK /\ EffectFirst /\ ProcessedMeansDone

\* A step after which no handler is newly past its work and no row is newly
\* PROCESSED.
LEMMA EffectKept ==
  ASSUME EInv, done \subseteq done',
         \A g \in Handlers :
           job'[g].pc \in {"mark", "ack"} =>
             job[g].pc \in {"mark", "ack"} /\ job'[g].copy = job[g].copy,
         \A x \in Tasks : inbox'[x].status = "PROCESSED" => inbox[x].status = "PROCESSED"
  PROVE  EffectFirst' /\ ProcessedMeansDone'
  BY DEF EInv, EffectFirst, ProcessedMeansDone, TaskOf, EventOf

\* A handler that closes the connection orphans the others of its process.
LEMMA EffectKeptByClose ==
  ASSUME EInv, NEW h \in Handlers, CloseConnection(h), UNCHANGED consumerVars
  PROVE  EffectFirst' /\ ProcessedMeansDone'
<1>1. ProcOf(h) \in Procs
  BY DEF Handlers, ProcOf
<1>2. \A g \in Handlers :
        job'[g].pc \in {"mark", "ack"} =>
          job[g].pc \in {"mark", "ack"} /\ job'[g].copy = job[g].copy
  BY <1>1
     DEF EInv, TypeOK, RabbitTypeOK, CloseConnection, Orphaned, Busy, IdleJob, Job, BusyJob
<1>3. QED
  BY <1>2, EffectKept DEF consumerVars

LEMMA HandlerStepEffect ==
  ASSUME EInv, NEW h \in Handlers, HandlerStep(h)
  PROVE  EffectFirst' /\ ProcessedMeansDone'
<1>a. RabbitTypeOK /\ ConsumerTypeOK /\ EffectFirst /\ ProcessedMeansDone
  BY DEF EInv, TypeOK
<1>b. job[h] \in BusyJob
  BY <1>a, BusyJobs
     DEF HandlerStep, Reject, ClaimInbox, FindProcessed, FindBusy, Work, WorkFails, Mark,
         Release, StatementFails, Ack, Retry, Park, Settle
<1>c. TaskOf(h) \in Tasks
  BY <1>a, <1>b, InboxType
<1>1. ASSUME NEW pc \in {"work", "release", "fail", "settle"}, Step(h, pc),
             UNCHANGED consumerVars
      PROVE  EffectFirst' /\ ProcessedMeansDone'
  BY <1>1, <1>a, <1>b, StepMoves, EffectKept DEF consumerVars
<1>2. ASSUME Free(h), UNCHANGED consumerVars
      PROVE  EffectFirst' /\ ProcessedMeansDone'
  BY <1>2, <1>a, FreeType, EffectKept DEF consumerVars, IdleJob
<1>3. CASE ClaimInbox(h)
  <2>1. \A x \in Tasks : inbox'[x].status = "PROCESSED" => inbox[x].status = "PROCESSED"
    BY <1>3, <1>a, <1>c DEF ClaimInbox, ConsumerTypeOK, InboxRow
  <2>2. QED
    BY <1>3, <1>a, <1>b, <2>1, StepMoves, EffectKept DEF ClaimInbox
<1>4. CASE FindProcessed(h)
  <2>1. TaskOf(h) \in done
    BY <1>4, <1>a, <1>c DEF FindProcessed, ProcessedMeansDone
  <2>2. QED
    BY <1>4, <1>a, <1>b, <2>1, StepMoves
       DEF FindProcessed, EffectFirst, ProcessedMeansDone, TaskOf, EventOf, consumerVars
<1>5. CASE Work(h)
  BY <1>5, <1>a, <1>b, StepMoves
     DEF Work, EffectFirst, ProcessedMeansDone, TaskOf, EventOf
<1>6. CASE Mark(h)
  <2>1. TaskOf(h) \in done
    BY <1>6, <1>a DEF Mark, At, EffectFirst
  <2>2. \A x \in Tasks :
          inbox'[x].status = "PROCESSED" => inbox[x].status = "PROCESSED" \/ x = TaskOf(h)
    BY <1>6, <1>a, <1>c DEF Mark, ConsumerTypeOK, InboxRow
  <2>3. ProcessedMeansDone'
    BY <1>6, <1>a, <2>1, <2>2 DEF Mark, ProcessedMeansDone
  <2>4. EffectFirst'
    BY <1>6, <1>a, <1>b, <2>1, StepMoves DEF Mark, EffectFirst, TaskOf, EventOf
  <2>5. QED
    BY <2>3, <2>4
<1>7. CASE Release(h)
  <2>1. \A x \in Tasks : inbox'[x].status = inbox[x].status
    BY <1>7, <1>a, <1>c DEF Release, ConsumerTypeOK, InboxRow
  <2>2. QED
    BY <1>7, <1>a, <1>b, <2>1, StepMoves, EffectKept DEF Release
<1>8. QED
  BY <1>1, <1>2, <1>3, <1>4, <1>5, <1>6, <1>7
     DEF HandlerStep, Reject, FindBusy, WorkFails, StatementFails, Ack, Retry, Park, Settle

LEMMA EffectInvariant ==
  ASSUME EInv, [Next]_vars
  PROVE  EInv'
<1>a. TypeOK'
  BY NextType DEF EInv
<1>b. RabbitTypeOK /\ ConsumerTypeOK
  BY DEF EInv, TypeOK
<1>0. ASSUME UNCHANGED job, UNCHANGED inbox, UNCHANGED done
      PROVE  EffectFirst' /\ ProcessedMeansDone'
  BY <1>0, EffectKept
<1>1. ASSUME NEW p \in Procs, RelayStep(p)
      PROVE  EffectFirst' /\ ProcessedMeansDone'
  BY <1>0, <1>1
     DEF RelayStep, Claim, ClaimUnread, Publish, PublishRefused, Confirmed, MarkPublished,
         MarkFails, RecordError, Abandon, rabbitVars, consumerVars
<1>2. ASSUME NEW e \in Events, Append(e), UNCHANGED consumerVars
      PROVE  EffectFirst' /\ ProcessedMeansDone'
  BY <1>0, <1>2 DEF Append, rabbitVars, consumerVars
<1>3. ASSUME NEW h \in Handlers, HandlerGivesUp(h)
      PROVE  EffectFirst' /\ ProcessedMeansDone'
  BY <1>3, EffectKeptByClose
     DEF HandlerGivesUp, RetryUnroutable, RetryRefused, SettleClosed
<1>4. ASSUME NEW q \in Queues, NEW c \in Copies, DeliverTo(q, c)
      PROVE  EffectFirst' /\ ProcessedMeansDone'
  BY <1>4, <1>b, EffectKept DEF DeliverTo, Deliver, RabbitTypeOK, consumerVars
<1>5. CASE BrokerStep
  BY <1>0, <1>a, <1>5 DEF BrokerStep, Expire, Reconnect, consumerVars, EInv
<1>6. CASE LeaseExpires
  <2>1. ASSUME NEW e \in Events, RowLeaseExpires(e), UNCHANGED consumerVars
        PROVE  EffectFirst' /\ ProcessedMeansDone'
    BY <2>1, <1>0 DEF RowLeaseExpires, consumerVars
  <2>2. ASSUME NEW x \in Tasks, InboxLeaseExpires(x)
        PROVE  EffectFirst' /\ ProcessedMeansDone'
    <3>1. \A y \in Tasks : inbox'[y].status = inbox[y].status
      BY <2>2, <1>b DEF InboxLeaseExpires, ConsumerTypeOK, InboxRow
    <3>2. QED
      BY <2>2, <3>1, EffectKept DEF InboxLeaseExpires
  <2>3. QED
    BY <1>6, <1>a, <2>1, <2>2 DEF LeaseExpires, EInv
<1>7. ASSUME NEW p \in Procs, LoseConnection(p)
      PROVE  EffectFirst' /\ ProcessedMeansDone'
  <2>1. \A g \in Handlers : job'[g].pc = job[g].pc /\ (Busy(g) => job'[g].copy = job[g].copy)
    BY <1>7, <1>b DEF LoseConnection, Orphaned, Busy, IdleJob, RabbitTypeOK, Job, BusyJob
  <2>2. \A g \in Handlers : job[g].pc \in {"mark", "ack"} => Busy(g)
    BY DEF Busy, IdleJob
  <2>3. QED
    BY <1>7, <2>1, <2>2, EffectKept DEF LoseConnection, consumerVars
<1>8. ASSUME NEW p \in Procs, Crash(p)
      PROVE  EffectFirst' /\ ProcessedMeansDone'
  <2>1. \A x \in Tasks : inbox'[x].status = inbox[x].status
    BY <1>8, <1>b DEF Crash, ConsumerTypeOK, InboxRow
  <2>2. QED
    BY <1>8, <2>1, EffectKept DEF Crash, IdleJob
<1>9. CASE UNCHANGED vars
  BY <1>0, <1>a, <1>9 DEF vars, rabbitVars, consumerVars, EInv
<1>10. QED
  BY <1>a, <1>1, <1>2, <1>3, <1>4, <1>5, <1>6, <1>7, <1>8, <1>9, HandlerStepEffect
     DEF Next, EInv

LEMMA EffectInit == ASSUME Init PROVE EInv
  BY InitType
     DEF EInv, EffectFirst, ProcessedMeansDone, Init, RabbitInit, ConsumerInit, IdleJob

\* An inbox row is PROCESSED only when the event has had its effect for that
\* consumer: whatever crashes, late leases and repeated deliveries do, a copy
\* that is acknowledged because the row says PROCESSED loses nothing.
THEOREM ProcessedCorrect == Spec => []ProcessedMeansDone
<1>1. Init => EInv
  BY EffectInit
<1>2. EInv /\ [Next]_vars => EInv'
  BY EffectInvariant
<1>3. EInv => ProcessedMeansDone
  BY DEF EInv
<1>4. QED
  BY <1>1, <1>2, <1>3, PTL DEF Spec

-----------------------------------------------------------------------------
(* Published rows stay as they are.                                        *)

\* A published row belongs to nobody, so no relay that is late holds it.
PublishedIsFree ==
  \A e \in Events : row[e].status = "PUBLISHED" => row[e].lockedBy = Nobody

LEMMA RowStep ==
  ASSUME TypeOK, PublishedIsFree, [Next]_vars
  PROVE  \A e \in Events :
           /\ row[e].status = "PUBLISHED" => row'[e] = row[e]
           /\ row'[e].status = "PUBLISHED" => row'[e].lockedBy = Nobody
<1> DEFINE Good == \A e \in Events :
              /\ row[e].status = "PUBLISHED" => row'[e] = row[e]
              /\ row'[e].status = "PUBLISHED" => row'[e].lockedBy = Nobody
<1>a. row \in [Events -> OutboxRow]
  BY DEF TypeOK, RelayTypeOK
<1>0. ASSUME UNCHANGED row
      PROVE  Good
  BY <1>0 DEF PublishedIsFree
<1>1. ASSUME NEW p \in Procs, RelayStep(p)
      PROVE  Good
  <2>1. ASSUME NEW batch \in SUBSET Events, Lease(p, batch)
        PROVE  Good
    BY <2>1, <1>a DEF Lease, Due, PublishedIsFree, OutboxRow
  <2>2. ASSUME NEW f, Holds(p, f), f \in Events,
               row' = [row EXCEPT ![f] = Published(f)] \/ row' = [row EXCEPT ![f] = Unpublished(f)]
        PROVE  Good
    <3>1. row[f].status # "PUBLISHED"
      BY <2>2, RabbitAssumption DEF Holds, PublishedIsFree
    <3>2. Published(f).lockedBy = Nobody /\ Unpublished(f).lockedBy = Nobody
      BY <1>a, <2>2 DEF Published, Unpublished, OutboxRow
    <3>3. QED
      BY <1>a, <2>2, <3>1, <3>2 DEF PublishedIsFree
  <2>3. CASE MarkPublished(p)
    BY <2>3, <2>2, <1>0, <1>a DEF MarkPublished
  <2>4. CASE RecordError(p)
    BY <2>4, <2>2, <1>0, <1>a DEF RecordError
  <2>5. QED
    BY <1>0, <1>1, <2>1, <2>3, <2>4
       DEF RelayStep, Claim, ClaimUnread, Publish, PublishRefused, Confirmed, MarkFails, Abandon
<1>2. ASSUME NEW e \in Events, Append(e)
      PROVE  Good
  BY <1>2, <1>a DEF Append, PublishedIsFree, OutboxRow
<1>3. ASSUME NEW h \in Handlers, HandlerStep(h) \/ HandlerGivesUp(h)
      PROVE  Good
  BY <1>0, <1>3 DEF HandlerStep, HandlerGivesUp, relayVars
<1>4. ASSUME NEW q \in Queues, NEW c \in Copies, DeliverTo(q, c)
      PROVE  Good
  BY <1>0, <1>4 DEF DeliverTo, relayVars
<1>5. CASE BrokerStep
  BY <1>0, <1>5 DEF BrokerStep, relayVars
<1>6. CASE LeaseExpires
  <2>1. ASSUME NEW e \in Events, RowLeaseExpires(e)
        PROVE  Good
    BY <2>1, <1>a DEF RowLeaseExpires, PublishedIsFree, OutboxRow
  <2>2. QED
    BY <1>0, <1>6, <2>1 DEF LeaseExpires, relayVars
<1>7. ASSUME NEW p \in Procs, LoseConnection(p)
      PROVE  Good
  BY <1>0, <1>7 DEF LoseConnection
<1>8. ASSUME NEW p \in Procs, Crash(p)
      PROVE  Good
  <2>1. \A e \in Events : row'[e] =
          [row[e] EXCEPT !.lockedBy = IF row[e].lockedBy = p THEN Nobody ELSE row[e].lockedBy]
    BY <1>8 DEF Crash
  <2>2. \A e \in Events : row[e].lockedBy # p => row'[e] = row[e]
    BY <1>a, <2>1 DEF OutboxRow
  <2>3. \A e \in Events : row[e].status = "PUBLISHED" => row[e].lockedBy # p
    BY RabbitAssumption DEF PublishedIsFree
  <2>4. \A e \in Events : row'[e].status = row[e].status
    <3> TAKE e \in Events
    <3>1. CASE row[e].lockedBy = p
      <4>1. row'[e] = [row[e] EXCEPT !.lockedBy = Nobody]
        BY <2>1, <3>1
      <4>2. QED
        BY <1>a, <4>1 DEF OutboxRow
    <3>2. QED
      BY <2>2, <3>1
  <2>5. QED
    BY <2>2, <2>3, <2>4 DEF PublishedIsFree
<1>9. CASE UNCHANGED vars
  BY <1>0, <1>9 DEF vars, relayVars
<1>10. QED
  BY <1>1, <1>2, <1>3, <1>4, <1>5, <1>6, <1>7, <1>8, <1>9 DEF Next

FInv == TypeOK /\ PublishedIsFree

LEMMA FreeInit == ASSUME Init PROVE FInv
  BY InitType DEF FInv, PublishedIsFree, Init, RelayInit

LEMMA FreeInvariant == ASSUME FInv, [Next]_vars PROVE FInv'
  BY NextType, RowStep DEF FInv, PublishedIsFree

\* Nothing changes a row once it is PUBLISHED: a relay that was overtaken
\* while it published, and now has an error to record, leaves the row alone.
THEOREM PublishedStays == Spec => PublishedIsFinal
<1>1. Init => FInv
  BY FreeInit
<1>2. FInv /\ [Next]_vars => FInv'
  BY FreeInvariant
<1>3. FInv /\ [Next]_vars
        => [\A e \in Events : row[e].status = "PUBLISHED" => row'[e] = row[e]]_vars
  BY RowStep DEF FInv
<1>4. QED
  BY <1>1, <1>2, <1>3, PTL DEF Spec, PublishedIsFinal

-----------------------------------------------------------------------------
(* What the broker took back is counted.                                   *)

\* A delivery that came back n times is of an event of which at least n came back.
ReturnsAreCounted ==
  /\ \A q \in Queues, x \in Entries :
       ready[q][x] > 0 => x[2] <= requeued[<<q, x[1][1]>>]
  /\ \A h \in Handlers : Held(h) => job[h].returns <= requeued[TaskOf(h)]

\* A step that adds nothing but new copies, and gives no handler a copy.
LEMMA CountKept ==
  ASSUME RabbitTypeOK, ReturnsAreCounted, UNCHANGED requeued,
         \A q \in Queues, x \in Entries :
           ready'[q][x] > 0 => ready[q][x] > 0 \/ x[2] = 0,
         \A g \in Handlers :
           Held(g)' => /\ Held(g)
                       /\ job'[g].returns = job[g].returns /\ job'[g].copy = job[g].copy
  PROVE  ReturnsAreCounted'
<1>1. \A q \in Queues, x \in Entries :
        requeued[<<q, x[1][1]>>] \in Nat /\ x[2] \in 0..DeliveryLimit
  BY DEF RabbitTypeOK, Entries, Copies
<1>2. QED
  BY <1>1, RabbitAssumption DEF ReturnsAreCounted, TaskOf, EventOf

LEMMA CountRouted ==
  ASSUME RabbitTypeOK, ReturnsAreCounted, NEW c, RouteDomain(c), UNCHANGED <<requeued, job>>
  PROVE  ReturnsAreCounted'
<1>1. \A q \in Queues, x \in Entries : ready'[q][x] > 0 => ready[q][x] > 0 \/ x[2] = 0
  BY RouteType DEF RabbitTypeOK
<1>2. QED
  BY <1>1, CountKept DEF Held, Busy

LEMMA CountReturned ==
  ASSUME RabbitTypeOK, ReturnsAreCounted, NEW p \in Procs, TakeBack(p),
         \A g \in Handlers : Held(g)' => job'[g] = job[g]
  PROVE  ReturnsAreCounted'
<1>1. \A x \in Queues \X Events :
        /\ requeued[x] \in Nat /\ requeued'[x] \in Nat /\ requeued'[x] >= requeued[x]
        /\ Holding(p, x) => requeued'[x] = requeued[x] + 1 \/ requeued'[x] > DeliveryLimit
  BY TakeBackType
<1>2. ASSUME NEW q \in Queues, NEW x \in Entries, ready'[q][x] > 0
      PROVE  x[2] <= requeued'[<<q, x[1][1]>>]
  <2>1. /\ <<q, x[1][1]>> \in Queues \X Events /\ x[2] \in 0..DeliveryLimit
    BY DEF Entries, Copies
  <2>2. CASE ready[q][x] > 0
    BY <1>1, <2>1, <2>2, RabbitAssumption DEF ReturnsAreCounted
  <2>3. CASE x[2] > 0 /\ HeldBy(p, q, x[1], x[2] - 1) # {}
    <3>1. PICK s \in Slots : /\ Held(<<p, q, s>>) /\ job[<<p, q, s>>].copy = x[1]
                             /\ job[<<p, q, s>>].returns = x[2] - 1
      BY <2>3 DEF HeldBy
    <3>2. /\ <<p, q, s>> \in Handlers /\ TaskOf(<<p, q, s>>) = <<q, x[1][1]>>
          /\ Holding(p, <<q, x[1][1]>>)
      BY <3>1 DEF Handlers, TaskOf, QueueOf, ProcOf, EventOf, Holding
    <3>3. x[2] - 1 <= requeued[<<q, x[1][1]>>]
      BY <3>1, <3>2 DEF ReturnsAreCounted
    <3>4. QED
      BY <1>1, <2>1, <3>2, <3>3, RabbitAssumption
  <2>4. QED
    BY <1>2, <2>2, <2>3, ReturnedType DEF TakeBack
<1>3. ASSUME NEW g \in Handlers, Held(g)'
      PROVE  job'[g].returns <= requeued'[TaskOf(g)']
  <2>1. job'[g] = job[g] /\ Held(g)
    BY <1>3 DEF Held, Busy
  <2>2. TaskOf(g)' = TaskOf(g) /\ job[g] \in BusyJob
    BY <2>1 DEF TaskOf, EventOf, Held, Busy, RabbitTypeOK, Job
  <2>3. TaskOf(g) \in Queues \X Events /\ job[g].returns \in 0..DeliveryLimit
    BY <2>2 DEF TaskOf, QueueOf, EventOf, BusyJob, Copies, Handlers
  <2>4. job[g].returns <= requeued[TaskOf(g)]
    BY <2>1 DEF ReturnsAreCounted
  <2>5. QED
    BY <1>1, <2>1, <2>2, <2>3, <2>4, RabbitAssumption
<1>4. QED
  BY <1>2, <1>3 DEF ReturnsAreCounted

LEMMA CountInvariant ==
  ASSUME TypeOK, ReturnsAreCounted, [Next]_vars
  PROVE  ReturnsAreCounted'
<1>a. RabbitTypeOK
  BY DEF TypeOK
<1>0. ASSUME UNCHANGED <<ready, requeued, job>>
      PROVE  ReturnsAreCounted'
  BY <1>0 DEF ReturnsAreCounted, Held, Busy, TaskOf, EventOf
<1>1. ASSUME NEW p \in Procs, RelayStep(p)
      PROVE  ReturnsAreCounted'
  <2>1. CASE Publish(p)
    BY <2>1, <1>a, CountRouted DEF Publish
  <2>2. QED
    BY <1>0, <1>1, <2>1
       DEF RelayStep, Claim, ClaimUnread, PublishRefused, Confirmed, MarkPublished, MarkFails,
           RecordError, Abandon, rabbitVars
<1>2. ASSUME NEW h \in Handlers, HandlerStep(h)
      PROVE  ReturnsAreCounted'
  <2>1. job[h] \in BusyJob
    BY <1>2, <1>a, BusyJobs
       DEF HandlerStep, Reject, ClaimInbox, FindProcessed, FindBusy, Work, WorkFails, Mark,
           Release, StatementFails, Ack, Retry, Park, Settle
  <2>2. UNCHANGED <<ready, requeued>>
    BY <1>2
       DEF HandlerStep, Reject, ClaimInbox, FindProcessed, FindBusy, Work, WorkFails, Mark,
           Release, StatementFails, Ack, Retry, Park, Settle
  <2>3. \/ Free(h)
        \/ \E pc \in {"work", "mark", "release", "fail", "ack", "settle"} : Step(h, pc)
    BY <1>2
       DEF HandlerStep, Reject, ClaimInbox, FindProcessed, FindBusy, Work, WorkFails, Mark,
           Release, StatementFails, Ack, Retry, Park, Settle
  <2>4. \A g \in Handlers :
          Held(g)' => /\ Held(g)
                      /\ job'[g].returns = job[g].returns /\ job'[g].copy = job[g].copy
    <3>1. CASE Free(h)
      BY <3>1, <1>a, FreeType DEF Held, Busy
    <3>2. ASSUME NEW pc \in {"work", "mark", "release", "fail", "ack", "settle"}, Step(h, pc)
          PROVE  \A g \in Handlers :
                   Held(g)' => /\ Held(g) /\ job'[g].returns = job[g].returns
                               /\ job'[g].copy = job[g].copy
      BY <3>2, <2>1, <1>a, StepMoves DEF Held, Busy, BusyJob, IdleJob
    <3>3. QED
      BY <2>3, <3>1, <3>2
  <2>5. QED
    BY <2>2, <2>4, <1>a, CountKept
<1>3. ASSUME NEW h \in Handlers, HandlerGivesUp(h)
      PROVE  ReturnsAreCounted'
  <2>1. ProcOf(h) \in Procs
    BY DEF Handlers, ProcOf
  <2>2. CloseConnection(h)
    BY <1>3 DEF HandlerGivesUp, RetryUnroutable, RetryRefused, SettleClosed
  <2>3. \A g \in Handlers : Held(g)' => job'[g] = job[g]
    BY <2>2, <1>a
       DEF CloseConnection, Orphaned, RabbitTypeOK, Held, Busy, IdleJob, Job, BusyJob
  <2>4. QED
    BY <2>1, <2>2, <2>3, <1>a, CountReturned DEF CloseConnection
<1>4. ASSUME NEW q \in Queues, NEW c \in Copies, DeliverTo(q, c)
      PROVE  ReturnsAreCounted'
  <2>1. PICK h \in Handlers, n \in 0..DeliveryLimit : QueueOf(h) = q /\ Deliver(h, <<c, n>>)
    BY <1>4 DEF DeliverTo
  <2>2. PICK x \in Entries : x = <<c, n>>
    BY DEF Entries
  <2>3. /\ job'[h] = [pc |-> "claim", copy |-> c, returns |-> n, held |-> TRUE]
        /\ \A g \in Handlers : g # h => job'[g] = job[g]
        /\ ready[q][x] > 0
    BY <2>1, <2>2, <1>a DEF Deliver, RabbitTypeOK
  <2>4. n <= requeued[<<q, c[1]>>]
    BY <2>2, <2>3 DEF ReturnsAreCounted
  <2>5. \A g \in Handlers : Held(g)' => job'[g].returns <= requeued[TaskOf(g)']
    BY <2>1, <2>3, <2>4 DEF ReturnsAreCounted, Held, Busy, TaskOf, EventOf
  <2>6. \A r \in Queues, y \in Entries : ready'[r][y] > 0 => ready[r][y] > 0
    <3>1. ready' = [ready EXCEPT ![q] = [ready[q] EXCEPT ![x] = ready[q][x] - 1]]
      BY <2>1, <2>2, <1>a DEF Deliver, RabbitTypeOK
    <3>2. \A r \in Queues, y \in Entries :
            ready'[r][y] = IF r = q /\ y = x THEN ready[q][x] - 1 ELSE ready[r][y]
      BY <3>1, <1>a DEF RabbitTypeOK
    <3>3. QED
      BY <2>3, <3>2
  <2>7. QED
    BY <2>1, <2>5, <2>6 DEF ReturnsAreCounted, Deliver
<1>5. CASE BrokerStep
  <2>1. ASSUME NEW c \in Copies, Expire(c)
        PROVE  ReturnsAreCounted'
    BY <2>1, <1>a, CountRouted DEF Expire
  <2>2. QED
    BY <1>0, <1>5, <2>1 DEF BrokerStep, Reconnect
<1>6. ASSUME NEW p \in Procs, LoseConnection(p)
      PROVE  ReturnsAreCounted'
  <2>1. \A g \in Handlers : Held(g)' => job'[g] = job[g]
    BY <1>6, <1>a
       DEF LoseConnection, Orphaned, RabbitTypeOK, Held, Busy, IdleJob, Job, BusyJob
  <2>2. QED
    BY <1>6, <2>1, <1>a, CountReturned DEF LoseConnection
<1>7. ASSUME NEW p \in Procs, Crash(p)
      PROVE  ReturnsAreCounted'
  <2>1. \A g \in Handlers : Held(g)' => job'[g] = job[g]
    BY <1>7 DEF Crash, Held, Busy
  <2>2. QED
    BY <1>7, <2>1, <1>a, CountReturned DEF Crash
<1>8. CASE \/ \E e \in Events : Append(e)
           \/ LeaseExpires \/ UNCHANGED vars
  BY <1>0, <1>8
     DEF Append, LeaseExpires, RowLeaseExpires, InboxLeaseExpires, vars, rabbitVars
<1>9. QED
  BY <1>1, <1>2, <1>3, <1>4, <1>5, <1>6, <1>7, <1>8 DEF Next

-----------------------------------------------------------------------------
(* No published event is lost, but to the delivery limit.                  *)

Waiting(q, e) ==
  \/ \E x \in Entries : x[1][1] = e /\ ready[q][x] > 0
  \/ \E c \in Copies : c[1] = e /\ delayed[c] > 0

\* With a handler that has not yet sent it somewhere else.
InHand(q, e) ==
  \E h \in Handlers : QueueOf(h) = q /\ Held(h) /\ ~At(h, "settle") /\ EventOf(h) = e

\* Nothing is owed to the consumer any more.
Over(q, e) == <<q, e>> \in done \/ e \in dead[q] \/ WornOut(q, e)

Safe(q, e) == Waiting(q, e) \/ InHand(q, e) \/ Over(q, e)

\* A step that takes no copy away and leaves handlers what they have.
LEMMA SafeQuiet ==
  ASSUME NEW q \in Queues, NEW e \in Events, Safe(q, e),
         \A x \in Entries : ready[q][x] > 0 => ready'[q][x] > 0,
         \A c \in Copies : delayed[c] > 0 => delayed'[c] > 0,
         UNCHANGED requeued, done \subseteq done', dead[q] \subseteq dead'[q],
         \A g \in Handlers :
           Held(g) /\ ~At(g, "settle")
             => Held(g)' /\ ~At(g, "settle")' /\ EventOf(g)' = EventOf(g)
  PROVE  Safe(q, e)'
<1>1. Waiting(q, e) => Waiting(q, e)'
  BY DEF Waiting
<1>2. InHand(q, e) => InHand(q, e)'
  BY DEF InHand
<1>3. Over(q, e) => Over(q, e)'
  BY DEF Over, WornOut
<1>4. QED
  BY <1>1, <1>2, <1>3 DEF Safe

\* A handler that goes on with its copy.
LEMMA SafeStep ==
  ASSUME RabbitTypeOK, NEW q \in Queues, NEW e \in Events, Safe(q, e),
         NEW h \in Handlers, job[h] \in BusyJob,
         NEW pc \in {"work", "mark", "release", "fail", "ack"}, Step(h, pc),
         UNCHANGED <<ready, delayed, requeued, dead>>, done \subseteq done'
  PROVE  Safe(q, e)'
<1>1. ASSUME NEW g \in Handlers, Held(g), ~At(g, "settle")
      PROVE  Held(g)' /\ ~At(g, "settle")' /\ EventOf(g)' = EventOf(g)
  BY <1>1, StepMoves DEF Held, Busy, At, EventOf, IdleJob, BusyJob
<1>2. QED
  BY <1>1, SafeQuiet

\* A handler that lets go of a copy that is taken care of otherwise.
LEMMA SafeLetGo ==
  ASSUME RabbitTypeOK, NEW q \in Queues, NEW e \in Events, Safe(q, e),
         NEW h \in Handlers,
         \A x \in Entries : ready[q][x] > 0 => ready'[q][x] > 0,
         \A c \in Copies : delayed[c] > 0 => delayed'[c] > 0,
         UNCHANGED requeued, done \subseteq done', dead[q] \subseteq dead'[q],
         \A g \in Handlers : g # h => job'[g] = job[g],
         QueueOf(h) = q /\ Held(h) /\ ~At(h, "settle") /\ EventOf(h) = e => Safe(q, e)'
  PROVE  Safe(q, e)'
<1>1. CASE InHand(q, e)
  <2>1. PICK g \in Handlers : QueueOf(g) = q /\ Held(g) /\ ~At(g, "settle") /\ EventOf(g) = e
    BY <1>1 DEF InHand
  <2>2. CASE g = h
    BY <2>1, <2>2
  <2>3. CASE g # h
    <3>1. Held(g)' /\ ~At(g, "settle")' /\ EventOf(g)' = e
      BY <2>1, <2>3 DEF Held, Busy, At, EventOf
    <3>2. QED
      BY <2>1, <3>1 DEF Safe, InHand
  <2>4. QED
    BY <2>2, <2>3
<1>2. CASE Waiting(q, e)
  <2>1. Waiting(q, e)'
    BY <1>2 DEF Waiting
  <2>2. QED
    BY <2>1 DEF Safe
<1>3. CASE Over(q, e)
  BY <1>3 DEF Over, WornOut, Safe
<1>4. QED
  BY <1>1, <1>2, <1>3 DEF Safe

\* The broker takes back what p held: it waits again, unless it came back as often
\* as it may, and then it is not owed any more.
LEMMA HeldReturns ==
  ASSUME RabbitTypeOK, ReturnsAreCounted, NEW p \in Procs, TakeBack(p),
         NEW g \in Handlers, ProcOf(g) = p, Held(g),
         NEW q, q = QueueOf(g), NEW e, e = EventOf(g)
  PROVE  Waiting(q, e)' \/ WornOut(q, e)'
<1>1. /\ g = <<p, q, g[3]>> /\ g[3] \in Slots /\ q \in Queues
      /\ job[g].copy \in Copies /\ job[g].returns \in 0..DeliveryLimit
  BY DEF Handlers, ProcOf, QueueOf, RabbitTypeOK, Job, BusyJob, Held, Busy
<1>2. CASE job[g].returns < DeliveryLimit
  <2>1. PICK x \in Entries : x = <<job[g].copy, job[g].returns + 1>>
    <3>1. job[g].returns + 1 \in 0..DeliveryLimit
      BY <1>1, <1>2, RabbitAssumption
    <3>2. QED
      BY <1>1, <3>1, EntryOf
  <2>2. x[2] > 0 /\ x[2] - 1 = job[g].returns /\ x[1] = job[g].copy
    BY <1>1, <2>1
  <2>3. g[3] \in HeldBy(p, q, x[1], x[2] - 1)
    BY <1>1, <2>2 DEF HeldBy
  <2>4. ready'[q][x] > 0
    BY <1>1, <2>2, <2>3, ReturnedType DEF TakeBack
  <2>5. QED
    BY <2>2, <2>4 DEF EventOf, Waiting
<1>3. CASE job[g].returns = DeliveryLimit
  <2>1. <<q, e>> \in Queues \X Events /\ <<q, e>> = TaskOf(g)
    BY <1>1 DEF EventOf, Copies, TaskOf
  <2>2. DeliveryLimit <= requeued[<<q, e>>] /\ Holding(p, <<q, e>>)
    BY <1>3, <2>1 DEF ReturnsAreCounted, Holding, EventOf
  <2>3. requeued'[<<q, e>>] > DeliveryLimit
    BY <2>1, <2>2, TakeBackType, RabbitAssumption
  <2>4. QED
    BY <2>3 DEF WornOut
<1>4. QED
  BY <1>1, <1>2, <1>3, RabbitAssumption

LEMMA SafeReturned ==
  ASSUME RabbitTypeOK, ReturnsAreCounted, NEW q \in Queues, NEW e \in Events, Safe(q, e),
         NEW p \in Procs, TakeBack(p), UNCHANGED <<delayed, dead, done>>,
         \A g \in Handlers : ProcOf(g) # p => job'[g] = job[g]
  PROVE  Safe(q, e)'
<1>a. \A x \in Entries : ready[q][x] > 0 => ready'[q][x] > 0
  <2>1. \A x \in Entries :
          ready[q][x] \in Nat /\ ready'[q][x] \in Nat /\ ready'[q][x] >= ready[q][x]
    BY ReturnedType DEF RabbitTypeOK, TakeBack
  <2>2. QED
    BY <2>1
<1>b. /\ requeued[<<q, e>>] \in Nat /\ requeued'[<<q, e>>] \in Nat
      /\ requeued'[<<q, e>>] >= requeued[<<q, e>>]
  BY TakeBackType
<1>1. CASE Waiting(q, e)
  BY <1>1, <1>a DEF Waiting, Safe
<1>2. CASE InHand(q, e)
  <2>1. PICK g \in Handlers : QueueOf(g) = q /\ Held(g) /\ ~At(g, "settle") /\ EventOf(g) = e
    BY <1>2 DEF InHand
  <2>2. CASE ProcOf(g) # p
    <3>1. Held(g)' /\ ~At(g, "settle")' /\ EventOf(g)' = e
      BY <2>1, <2>2 DEF Held, Busy, At, EventOf
    <3>2. QED
      BY <2>1, <3>1 DEF Safe, InHand
  <2>3. CASE ProcOf(g) = p
    BY <2>1, <2>3, HeldReturns DEF Over, Safe
  <2>4. QED
    BY <2>2, <2>3
<1>3. CASE Over(q, e)
  BY <1>3, <1>b, RabbitAssumption DEF Over, WornOut, Safe
<1>4. QED
  BY <1>1, <1>2, <1>3 DEF Safe

LEMMA SafeHandlerStep ==
  ASSUME EInv, NEW q \in Queues, NEW e \in Events, Safe(q, e),
         NEW h \in Handlers, HandlerStep(h)
  PROVE  Safe(q, e)'
<1>a. RabbitTypeOK /\ ConsumerTypeOK /\ EffectFirst
  BY DEF EInv, TypeOK
<1>b. job[h] \in BusyJob
  BY <1>a, BusyJobs
     DEF HandlerStep, Reject, ClaimInbox, FindProcessed, FindBusy, Work, WorkFails, Mark,
         Release, StatementFails, Ack, Retry, Park, Settle
<1>1. CASE \/ Reject(h) \/ ClaimInbox(h) \/ FindProcessed(h) \/ FindBusy(h)
           \/ Work(h) \/ WorkFails(h) \/ Mark(h) \/ Release(h) \/ StatementFails(h)
  <2>1. \E pc \in {"work", "mark", "release", "fail", "ack"} : Step(h, pc)
    BY <1>1
       DEF Reject, ClaimInbox, FindProcessed, FindBusy, Work, WorkFails, Mark, Release,
           StatementFails
  <2>2. UNCHANGED <<ready, delayed, requeued, dead>> /\ done \subseteq done'
    BY <1>1
       DEF Reject, ClaimInbox, FindProcessed, FindBusy, Work, WorkFails, Mark, Release,
           StatementFails, consumerVars
  <2>3. QED
    BY <1>a, <1>b, <2>1, <2>2, SafeStep
<1>2. ASSUME Ack(h), UNCHANGED consumerVars
      PROVE  Safe(q, e)'
  <2>1. CASE ~job[h].held
    BY <1>2, <2>1, <1>a, <1>b, SafeStep DEF Ack, consumerVars
  <2>2. CASE Free(h)
    <3>1. TaskOf(h) \in done
      BY <1>2, <1>a DEF Ack, At, EffectFirst
    <3>2. QED
      BY <1>2, <2>2, <3>1, <1>a, FreeType, SafeLetGo DEF Ack, consumerVars, TaskOf, Over, Safe
  <2>3. QED
    BY <1>2, <2>1, <2>2 DEF Ack
<1>3. ASSUME Retry(h), UNCHANGED consumerVars
      PROVE  Safe(q, e)'
  <2> DEFINE next == <<job[h].copy[1], job[h].copy[2] + 1>>
  <2>1. next \in Copies /\ job[h].copy[2] + 1 \in 0..Tries
    BY <1>3, <1>b, RabbitAssumption DEF Retry, BusyJob, Copies, Hopeless
  <2>2. delayed' = [delayed EXCEPT ![next] = delayed[next] + 1]
    BY <1>3 DEF Retry
  <2>3. \A c \in Copies : delayed[c] \in Nat
    BY <1>a DEF RabbitTypeOK
  <2> HIDE DEF next
  <2>4. /\ delayed'[next] > 0
        /\ \A c \in Copies : delayed[c] > 0 => delayed'[c] > 0
    BY <2>1, <2>2, <2>3, <1>a DEF RabbitTypeOK
  <2>5. EventOf(h) = e => Safe(q, e)'
    BY <2>1, <2>4 DEF next, EventOf, Waiting, Safe
  <2>6. \A g \in Handlers : g # h => job'[g] = job[g]
    BY <1>3, <1>a, <1>b, StepMoves DEF Retry
  <2>7. QED
    BY <1>3, <1>a, <2>4, <2>5, <2>6, SafeLetGo DEF Retry, consumerVars
<1>4. ASSUME Park(h), UNCHANGED consumerVars
      PROVE  Safe(q, e)'
  <2>1. \A g \in Handlers : g # h => job'[g] = job[g]
    BY <1>4, <1>a, <1>b, StepMoves DEF Park
  <2>2. dead' = [dead EXCEPT ![QueueOf(h)] = dead[QueueOf(h)] \cup {EventOf(h)}]
    BY <1>4 DEF Park, EventOf
  <2>3. dead[q] \subseteq dead'[q] /\ (QueueOf(h) = q /\ EventOf(h) = e => e \in dead'[q])
    BY <2>2, <1>a DEF RabbitTypeOK
  <2>4. QED
    BY <1>4, <1>a, <2>1, <2>3, SafeLetGo DEF Park, consumerVars, Over, Safe
<1>5. ASSUME Settle(h), UNCHANGED consumerVars
      PROVE  Safe(q, e)'
  BY <1>5, <1>a, FreeType, SafeLetGo DEF Settle, consumerVars
<1>6. QED
  BY <1>1, <1>2, <1>3, <1>4, <1>5 DEF HandlerStep

LEMMA SafeRouted ==
  ASSUME RabbitTypeOK, NEW q \in Queues, NEW e \in Events, Safe(q, e),
         NEW c, RouteDomain(c), UNCHANGED <<requeued, dead, job, done>>,
         \A d \in Copies : d # c => delayed'[d] = delayed[d]
  PROVE  Safe(q, e)'
<1>1. \A x \in Entries : ready[q][x] \in Nat
  BY DEF RabbitTypeOK
<1>2. \A x \in Entries : ready[q][x] > 0 => ready'[q][x] > 0
  BY <1>1, RouteType
<1>3. CASE Waiting(q, e)
  <2>1. ASSUME NEW x \in Entries, x[1][1] = e, ready[q][x] > 0
        PROVE  Safe(q, e)'
    BY <2>1, <1>2 DEF Waiting, Safe
  <2>2. ASSUME NEW d \in Copies, d[1] = e, delayed[d] > 0, d # c
        PROVE  Safe(q, e)'
    BY <2>2 DEF Waiting, Safe
  <2>3. ASSUME NEW d \in Copies, d[1] = e, d = c
        PROVE  Safe(q, e)'
    <3>1. PICK x \in Entries : x = <<d, 0>>
      BY EntryOf
    <3>2. ready'[q][x] > 0 /\ x[1][1] = e
      BY <1>1, <2>3, <3>1, RouteType
    <3>3. QED
      BY <3>2 DEF Waiting, Safe
  <2>4. QED
    BY <1>3, <2>1, <2>2, <2>3 DEF Waiting
<1>4. CASE InHand(q, e)
  BY <1>4 DEF InHand, Held, Busy, At, EventOf, Safe
<1>5. CASE Over(q, e)
  BY <1>5 DEF Over, WornOut, Safe
<1>6. QED
  BY <1>3, <1>4, <1>5 DEF Safe

LEMMA SafeDelivered ==
  ASSUME RabbitTypeOK, NEW q \in Queues, NEW e \in Events, Safe(q, e),
         NEW h \in Handlers, NEW x \in Entries, Deliver(h, x), UNCHANGED done
  PROVE  Safe(q, e)'
<1>1. job'[h] = [pc |-> "claim", copy |-> x[1], returns |-> x[2], held |-> TRUE]
      /\ \A g \in Handlers : g # h => job'[g] = job[g]
  BY DEF Deliver, RabbitTypeOK
<1>2. \A y \in Entries : y # x \/ QueueOf(h) # q => ready'[q][y] = ready[q][y]
  BY DEF Deliver, RabbitTypeOK
<1>3. QueueOf(h) = q /\ x[1][1] = e => InHand(q, e)'
  <2>1. Held(h)' /\ ~At(h, "settle")' /\ EventOf(h)' = x[1][1]
    BY <1>1 DEF Held, Busy, At, EventOf, IdleJob
  <2>2. QED
    BY <2>1 DEF InHand
<1>4. \A g \in Handlers :
        Held(g) /\ ~At(g, "settle")
          => Held(g)' /\ ~At(g, "settle")' /\ EventOf(g)' = EventOf(g)
  BY <1>1 DEF Deliver, Held, Busy, At, EventOf
<1>5. CASE Waiting(q, e)
  <2>1. ASSUME NEW c \in Copies, c[1] = e, delayed[c] > 0
        PROVE  Waiting(q, e)'
    BY <2>1 DEF Waiting, Deliver
  <2>2. ASSUME NEW y \in Entries, y[1][1] = e, ready[q][y] > 0
        PROVE  Safe(q, e)'
    BY <2>2, <1>2, <1>3 DEF Waiting, Safe
  <2>3. QED
    BY <1>5, <2>1, <2>2 DEF Waiting, Safe
<1>6. CASE InHand(q, e)
  BY <1>4, <1>6 DEF InHand, Safe
<1>7. CASE Over(q, e)
  BY <1>7 DEF Deliver, Over, WornOut, Safe
<1>8. QED
  BY <1>5, <1>6, <1>7 DEF Safe

\* Whatever happens, a copy of the event stays where the consumer gets it, or
\* the consumer is done with it.
LEMMA SafeKept ==
  ASSUME EInv, ReturnsAreCounted, [Next]_vars, NEW q \in Queues, NEW e \in Events, Safe(q, e)
  PROVE  Safe(q, e)'
<1>a. RabbitTypeOK
  BY DEF EInv, TypeOK
<1>0. ASSUME UNCHANGED <<ready, delayed, requeued, dead, job, done>>
      PROVE  Safe(q, e)'
  BY <1>0 DEF Safe, Waiting, InHand, Over, WornOut, Held, Busy, At, EventOf
<1>1. ASSUME NEW p \in Procs, RelayStep(p)
      PROVE  Safe(q, e)'
  <2>1. CASE Publish(p)
    BY <1>1, <2>1, <1>a, SafeRouted DEF Publish, RelayStep, consumerVars
  <2>2. QED
    BY <1>0, <1>1, <2>1
       DEF RelayStep, Claim, ClaimUnread, PublishRefused, Confirmed, MarkPublished, MarkFails,
           RecordError, Abandon, rabbitVars, consumerVars
<1>2. ASSUME NEW f \in Events, Append(f), UNCHANGED consumerVars
      PROVE  Safe(q, e)'
  BY <1>0, <1>2 DEF Append, rabbitVars, consumerVars
<1>3. ASSUME NEW h \in Handlers, HandlerGivesUp(h)
      PROVE  Safe(q, e)'
  <2>1. ProcOf(h) \in Procs
    BY DEF Handlers, ProcOf
  <2>2. CloseConnection(h)
    BY <1>3 DEF HandlerGivesUp, RetryUnroutable, RetryRefused, SettleClosed
  <2>3. \A g \in Handlers : ProcOf(g) # ProcOf(h) => job'[g] = job[g]
    BY <2>2, <1>a DEF CloseConnection, Orphaned, RabbitTypeOK
  <2>4. QED
    BY <1>3, <1>a, <2>1, <2>2, <2>3, SafeReturned
       DEF CloseConnection, HandlerGivesUp, consumerVars
<1>4. ASSUME NEW r \in Queues, NEW c \in Copies, DeliverTo(r, c)
      PROVE  Safe(q, e)'
  <2>1. PICK h \in Handlers, n \in 0..DeliveryLimit : Deliver(h, <<c, n>>)
    BY <1>4 DEF DeliverTo
  <2>2. <<c, n>> \in Entries
    BY DEF Entries
  <2>3. QED
    BY <1>4, <2>1, <2>2, <1>a, SafeDelivered DEF DeliverTo, consumerVars
<1>5. CASE BrokerStep
  <2>1. ASSUME NEW c \in Copies, Expire(c), UNCHANGED consumerVars
        PROVE  Safe(q, e)'
    <3>1. \A d \in Copies : d # c => delayed'[d] = delayed[d]
      BY <2>1, <1>a DEF Expire, RabbitTypeOK
    <3>2. QED
      BY <2>1, <3>1, <1>a, SafeRouted DEF Expire, consumerVars
  <2>2. QED
    BY <1>0, <1>5, <2>1 DEF BrokerStep, Reconnect, consumerVars
<1>6. CASE LeaseExpires
  BY <1>0, <1>6
     DEF LeaseExpires, RowLeaseExpires, InboxLeaseExpires, consumerVars
<1>7. ASSUME NEW p \in Procs, LoseConnection(p)
      PROVE  Safe(q, e)'
  <2>1. \A g \in Handlers : ProcOf(g) # p => job'[g] = job[g]
    BY <1>7 DEF LoseConnection, Orphaned
  <2>2. QED
    BY <1>7, <2>1, <1>a, SafeReturned DEF LoseConnection, consumerVars
<1>8. ASSUME NEW p \in Procs, Crash(p)
      PROVE  Safe(q, e)'
  <2>1. \A g \in Handlers : ProcOf(g) # p => job'[g] = job[g]
    BY <1>8 DEF Crash
  <2>2. QED
    BY <1>8, <2>1, <1>a, SafeReturned DEF Crash
<1>9. CASE UNCHANGED vars
  BY <1>0, <1>9 DEF vars, rabbitVars, consumerVars
<1>10. QED
  BY <1>1, <1>2, <1>3, <1>4, <1>5, <1>6, <1>7, <1>8, <1>9, SafeHandlerStep DEF Next

\* What the relay is about to mark PUBLISHED has been routed to every queue.
Routed ==
  \A p \in Procs :
    relay[p].pc \in {"confirm", "mark"} /\ Current(p) \in Events
      => \A q \in Queues : Safe(q, Current(p))

PublishedIsSafe ==
  \A e \in Events : row[e].status = "PUBLISHED" => \A q \in Queues : Safe(q, e)

LInv == EInv /\ ReturnsAreCounted /\ Routed /\ PublishedIsSafe

\* An iteration is at a published event after its own Publish only.
LEMMA RelayMoves ==
  ASSUME RelayTypeOK, [Next]_vars, NEW p \in Procs, relay'[p].pc \in {"confirm", "mark"}
  PROVE  /\ relay'[p].batch = relay[p].batch
         /\ relay[p].pc \in {"confirm", "mark"} \/ Publish(p)
<1> DEFINE Good == /\ relay'[p].batch = relay[p].batch
                   /\ relay[p].pc \in {"confirm", "mark"} \/ Publish(p)
<1>a. \A r \in Procs : relay[r] \in Iteration
  BY DEF RelayTypeOK
<1>0. ASSUME UNCHANGED relay
      PROVE  Good
  BY <1>0
<1>1. ASSUME NEW r \in Procs, Goto(r, "error") \/ Goto(r, "hung")
      PROVE  Good
  <2>1. r # p
    BY <1>1 DEF Goto, RelayTypeOK, Iteration
  <2>2. QED
    BY <1>1, <2>1 DEF Goto, RelayTypeOK
<1>2. ASSUME NEW r \in Procs, Unconfirmed(r)
      PROVE  Good
  BY <1>0, <1>1, <1>2 DEF Unconfirmed
<1>3. ASSUME NEW r \in Procs, RelayStep(r)
      PROVE  Good
  <2>1. ASSUME NEW batch \in SUBSET Events, Claim(r, batch)
        PROVE  Good
    BY <2>1 DEF Claim, RelayTypeOK
  <2>2. CASE NextInBatch(r)
    <3>1. r # p
      BY <2>2 DEF NextInBatch, NoIteration, RelayTypeOK
    <3>2. QED
      BY <2>2, <3>1 DEF NextInBatch, RelayTypeOK
  <2>3. CASE Abandon(r)
    BY <2>3 DEF Abandon, NoIteration, RelayTypeOK
  <2>4. CASE Publish(r)
    BY <2>4, <1>a DEF Publish, Goto, RelayTypeOK, Iteration
  <2>5. CASE Confirmed(r)
    BY <2>5, <1>a DEF Confirmed, Goto, RelayTypeOK, Iteration
  <2>6. QED
    BY <1>0, <1>1, <1>3, <2>1, <2>2, <2>3, <2>4, <2>5
       DEF RelayStep, ClaimUnread, PublishRefused, MarkPublished, MarkFails, RecordError
<1>4. ASSUME NEW h \in Handlers, HandlerGivesUp(h)
      PROVE  Good
  <2>1. ProcOf(h) \in Procs
    BY DEF Handlers, ProcOf
  <2>2. QED
    BY <1>0, <1>2, <1>4, <2>1 DEF HandlerGivesUp
<1>5. ASSUME NEW r \in Procs, Crash(r)
      PROVE  Good
  BY <1>5 DEF Crash, NoIteration, RelayTypeOK
<1>6. ASSUME NEW h \in Handlers, HandlerStep(h)
      PROVE  Good
  BY <1>0, <1>6 DEF HandlerStep, relayVars
<1>7. ASSUME NEW r \in Procs, LoseConnection(r)
      PROVE  Good
  BY <1>2, <1>7 DEF LoseConnection
<1>8. CASE \/ \E e \in Events : Append(e)
           \/ \E q \in Queues, c \in Copies : DeliverTo(q, c)
           \/ BrokerStep \/ LeaseExpires \/ UNCHANGED vars
  BY <1>0, <1>8
     DEF Append, DeliverTo, BrokerStep, LeaseExpires, RowLeaseExpires, vars, relayVars
<1>9. QED
  BY <1>3, <1>4, <1>5, <1>6, <1>7, <1>8 DEF Next

LEMMA RoutedInvariant ==
  ASSUME LInv, [Next]_vars
  PROVE  Routed'
<1> SUFFICES ASSUME NEW p \in Procs, relay'[p].pc \in {"confirm", "mark"},
                    NEW e \in Events, e = Current(p)', NEW q \in Queues
             PROVE  Safe(q, e)'
  BY DEF Routed
<1>1. /\ relay'[p].batch = relay[p].batch
      /\ relay[p].pc \in {"confirm", "mark"} \/ Publish(p)
  BY RelayMoves DEF LInv, EInv, TypeOK
<1>2. Current(p) = e
  BY <1>1 DEF Current
<1>3. CASE relay[p].pc \in {"confirm", "mark"}
  <2>1. Safe(q, e)
    BY <1>2, <1>3 DEF LInv, Routed
  <2>2. QED
    BY <2>1, SafeKept DEF LInv
<1>4. CASE Publish(p)
  <2>1. PICK x \in Entries : x = <<<<e, 0>>, 0>>
    BY <1>2, FirstCopy, EntryOf
  <2>2. ready[q][x] \in Nat
    BY DEF LInv, EInv, TypeOK, RabbitTypeOK
  <2>3. RabbitTypeOK /\ RouteDomain(<<e, 0>>)
    BY <1>2, <1>4 DEF Publish, LInv, EInv, TypeOK
  <2>4. ready'[q][x] = ready[q][x] + 1
    BY <2>1, <2>3, RouteType
  <2>5. x[1][1] = e
    BY <2>1
  <2>6. QED
    BY <2>2, <2>4, <2>5 DEF Safe, Waiting
<1>5. QED
  BY <1>1, <1>3, <1>4

\* A row becomes PUBLISHED for the event its relay is at, after the confirm.
LEMMA NewlyPublished ==
  ASSUME RelayTypeOK, [Next]_vars, NEW e \in Events, row'[e].status = "PUBLISHED"
  PROVE  \/ row[e].status = "PUBLISHED"
         \/ \E p \in Procs : relay[p].pc = "mark" /\ Current(p) = e
<1> DEFINE Good == \/ row[e].status = "PUBLISHED"
                   \/ \E p \in Procs : relay[p].pc = "mark" /\ Current(p) = e
<1>a. row \in [Events -> OutboxRow]
  BY DEF RelayTypeOK
<1>0. ASSUME UNCHANGED row
      PROVE  Good
  BY <1>0
<1>1. ASSUME NEW p \in Procs, RelayStep(p)
      PROVE  Good
  <2>1. ASSUME NEW batch \in SUBSET Events, Lease(p, batch)
        PROVE  Good
    BY <2>1, <1>a DEF Lease, OutboxRow
  <2>2. CASE MarkPublished(p)
    BY <2>2, <1>a DEF MarkPublished
  <2>3. CASE RecordError(p)
    BY <2>3, <1>a DEF RecordError, Unpublished
  <2>4. QED
    BY <1>0, <1>1, <2>1, <2>2, <2>3
       DEF RelayStep, Claim, ClaimUnread, Publish, PublishRefused, Confirmed, MarkFails, Abandon
<1>2. ASSUME NEW f \in Events, Append(f)
      PROVE  Good
  BY <1>2, <1>a DEF Append, OutboxRow
<1>3. ASSUME NEW h \in Handlers, HandlerStep(h) \/ HandlerGivesUp(h)
      PROVE  Good
  BY <1>0, <1>3 DEF HandlerStep, HandlerGivesUp, relayVars
<1>4. ASSUME NEW f \in Events, RowLeaseExpires(f)
      PROVE  Good
  BY <1>4, <1>a DEF RowLeaseExpires, OutboxRow
<1>5. ASSUME NEW p \in Procs, Crash(p)
      PROVE  Good
  <2>1. row'[e] = [row[e] EXCEPT !.lockedBy = IF row[e].lockedBy = p THEN Nobody ELSE row[e].lockedBy]
    BY <1>5 DEF Crash
  <2>2. CASE row[e].lockedBy = p
    BY <2>1, <2>2, <1>a DEF OutboxRow
  <2>3. CASE row[e].lockedBy # p
    BY <2>1, <2>3, <1>a DEF OutboxRow
  <2>4. QED
    BY <2>2, <2>3
<1>6. CASE \/ \E q \in Queues, c \in Copies : DeliverTo(q, c)
           \/ BrokerStep \/ UNCHANGED vars
           \/ \E p \in Procs : LoseConnection(p)
           \/ \E x \in Tasks : InboxLeaseExpires(x) /\ UNCHANGED relayVars
  BY <1>0, <1>6 DEF DeliverTo, BrokerStep, LoseConnection, vars, relayVars
<1>7. QED
  BY <1>1, <1>2, <1>3, <1>4, <1>5, <1>6 DEF Next, LeaseExpires

LEMMA LossInvariant == ASSUME LInv, [Next]_vars PROVE LInv'
<1>1. EInv'
  BY EffectInvariant DEF LInv
<1>2. Routed'
  BY RoutedInvariant
<1>3. ASSUME NEW e \in Events, row'[e].status = "PUBLISHED", NEW q \in Queues
      PROVE  Safe(q, e)'
  <2>1. \/ row[e].status = "PUBLISHED"
        \/ \E p \in Procs : relay[p].pc = "mark" /\ Current(p) = e
    BY <1>3, NewlyPublished DEF LInv, EInv, TypeOK
  <2>2. Safe(q, e)
    BY <2>1 DEF LInv, PublishedIsSafe, Routed
  <2>3. QED
    BY <2>2, SafeKept DEF LInv
<1>4. ReturnsAreCounted'
  BY CountInvariant DEF LInv, EInv
<1>5. QED
  BY <1>1, <1>2, <1>3, <1>4 DEF LInv, PublishedIsSafe

LEMMA LossInit == ASSUME Init PROVE LInv
<1>1. Routed /\ PublishedIsSafe
  BY DEF Init, RelayInit, NoIteration, Routed, PublishedIsSafe
<1>2. ReturnsAreCounted
  BY DEF Init, RabbitInit, ReturnsAreCounted, Held, Busy
<1>3. QED
  BY <1>1, <1>2, EffectInit DEF LInv

\* After its row says PUBLISHED nothing but the broker's delivery limit loses an
\* event to a consumer, whatever connections break, processes crash, leases run
\* out and statements fail, for any number of processes, handlers, events and
\* retries and any limit: a copy is under way, or the effect is there, or the
\* event is in the dead letters, or the broker took deliveries of it back more
\* often than the limit.
THEOREM NothingIsLost == Spec => []PublishedIsNotLost
<1>1. Init => LInv
  BY LossInit
<1>2. LInv /\ [Next]_vars => LInv'
  BY LossInvariant
<1>3. LInv => PublishedIsNotLost
  BY DEF LInv, PublishedIsSafe, PublishedIsNotLost, Safe, Waiting, InHand, Over, UnderWay
<1>4. QED
  BY <1>1, <1>2, <1>3, PTL DEF Spec
-----------------------------------------------------------------------------
(* One handler at a time.                                                  *)

\* At work on task x, or on the way from there to the row.
WorksOn(h, x) ==
  QueueOf(h) = x[1] /\ job[h].pc \in {"work", "mark", "release"} /\ EventOf(h) = x[2]

\* As long as no lease of x ran out under its holder, who is at work holds the lease, and
\* there is one.
LeaseHeld ==
  \A x \in Tasks : ~inbox[x].lapsed =>
    /\ \A h \in Handlers : WorksOn(h, x) =>
         /\ inbox[x].status = "PROCESSING" /\ inbox[x].live
         /\ inbox[x].lockedBy = ProcOf(h)
    /\ \A g, h \in Handlers : WorksOn(g, x) /\ WorksOn(h, x) => g = h

OInv == TypeOK /\ LeaseHeld

\* Nobody starts to work, and who still does keeps the row.
LEMMA LeaseKept ==
  ASSUME LeaseHeld,
         \A h \in Handlers : job'[h].pc \in {"work", "mark", "release"} =>
           job[h].pc \in {"work", "mark", "release"} /\ job'[h].copy = job[h].copy,
         \A x \in Tasks : ~inbox'[x].lapsed =>
           /\ ~inbox[x].lapsed
           /\ \A h \in Handlers : WorksOn(h, x)' =>
                inbox'[x] = inbox[x]
  PROVE  LeaseHeld'
<1>1. \A h \in Handlers, x \in Tasks : WorksOn(h, x)' => WorksOn(h, x)
  BY DEF WorksOn, EventOf
<1>2. QED
  BY <1>1 DEF LeaseHeld

LEMMA LeaseKeptByHandler ==
  ASSUME OInv, NEW h \in Handlers, HandlerStep(h)
  PROVE  LeaseHeld'
<1>a. RabbitTypeOK /\ ConsumerTypeOK /\ LeaseHeld
  BY DEF OInv, TypeOK
<1>b. job[h] \in BusyJob
  BY <1>a, BusyJobs
     DEF HandlerStep, Reject, ClaimInbox, FindProcessed, FindBusy, Work, WorkFails, Mark,
         Release, StatementFails, Ack, Retry, Park, Settle
<1>c. TaskOf(h) \in Tasks
  BY <1>a, <1>b, InboxType
<1>1. CASE ClaimInbox(h)
  <2> DEFINE t == TaskOf(h)
  <2>1. /\ Unclaimed(t) /\ Step(h, "work") /\ t \in Tasks
        /\ inbox' = [inbox EXCEPT ![t] =
             [inbox[t] EXCEPT !.status = "PROCESSING", !.lockedBy = ProcOf(h), !.live = TRUE]]
    BY <1>1, <1>c DEF ClaimInbox
  <2>2. /\ inbox'[t].status = "PROCESSING" /\ inbox'[t].live /\ inbox'[t].lockedBy = ProcOf(h)
        /\ inbox'[t].lapsed = inbox[t].lapsed
        /\ \A x \in Tasks : x # t => inbox'[x] = inbox[x]
    BY <1>a, <2>1 DEF ConsumerTypeOK, InboxRow
  <2>3. /\ job'[h].pc = "work" /\ job'[h].copy = job[h].copy
        /\ \A g \in Handlers : g # h => job'[g] = job[g]
    BY <1>a, <1>b, <2>1, StepMoves
  <2>4. \A x \in Tasks : WorksOn(h, x)' => x = t
    BY <2>3 DEF WorksOn, EventOf, TaskOf, Tasks
  <2>5. \A g \in Handlers, x \in Tasks : g # h => (WorksOn(g, x)' <=> WorksOn(g, x))
    BY <2>3 DEF WorksOn, EventOf
  <2>6. ~inbox[t].lapsed => \A g \in Handlers : ~WorksOn(g, t)
    BY <1>a, <2>1 DEF LeaseHeld, Unclaimed
  <2> HIDE DEF t
  <2>7. QED
    BY <1>a, <2>1, <2>2, <2>4, <2>5, <2>6 DEF LeaseHeld
<1>2. CASE \/ Reject(h) \/ FindProcessed(h) \/ FindBusy(h) \/ Work(h) \/ WorkFails(h)
           \/ StatementFails(h)
           \/ (Ack(h) \/ Retry(h) \/ Park(h) \/ Settle(h)) /\ UNCHANGED consumerVars
  <2>1. inbox' = inbox
    BY <1>2 DEF Reject, FindProcessed, FindBusy, Work, WorkFails, StatementFails, consumerVars
  <2>2. \A g \in Handlers : job'[g].pc \in {"work", "mark", "release"} =>
          job[g].pc \in {"work", "mark", "release"} /\ job'[g].copy = job[g].copy
    <3>1. CASE Free(h)
      BY <1>a, <3>1, FreeType DEF IdleJob
    <3>2. ASSUME NEW pc \in {"ack", "fail", "settle"}, Step(h, pc)
          PROVE  \A g \in Handlers : job'[g].pc \in {"work", "mark", "release"} =>
                   job[g].pc \in {"work", "mark", "release"} /\ job'[g].copy = job[g].copy
      BY <1>a, <1>b, <3>2, StepMoves
    <3>3. ASSUME NEW pc \in {"mark", "release"}, Step(h, pc), At(h, "work") \/ At(h, "mark")
          PROVE  \A g \in Handlers : job'[g].pc \in {"work", "mark", "release"} =>
                   job[g].pc \in {"work", "mark", "release"} /\ job'[g].copy = job[g].copy
      BY <1>a, <1>b, <3>3, StepMoves DEF At
    <3>4. QED
      BY <1>2, <3>1, <3>2, <3>3 DEF Reject, FindProcessed, FindBusy, Work, WorkFails,
             StatementFails, Ack, Retry, Park, Settle
  <2>3. QED
    BY <1>a, <2>1, <2>2, LeaseKept
<1>3. CASE Mark(h) \/ Release(h)
  <2>1. PICK pc \in {"ack", "fail"} : Step(h, pc)
    BY <1>3 DEF Mark, Release
  <2>2. PICK x \in Tasks : x = TaskOf(h)
    BY <1>c
  <2>3. /\ job'[h].pc = pc /\ \A g \in Handlers : g # h => job'[g] = job[g]
    BY <1>a, <1>b, <2>1, StepMoves
  <2>4. /\ inbox'[x].lapsed = inbox[x].lapsed
        /\ \A y \in Tasks : y # x => inbox'[y] = inbox[y]
    BY <1>3, <1>a, <2>2 DEF Mark, Release, ConsumerTypeOK, InboxRow
  <2>5. WorksOn(h, x)
    BY <1>3, <2>2 DEF Mark, Release, At, WorksOn, TaskOf
  <2>6. \A g \in Handlers : job'[g].pc \in {"work", "mark", "release"} =>
          job[g].pc \in {"work", "mark", "release"} /\ job'[g].copy = job[g].copy
    BY <2>3
  <2>7. \A g \in Handlers : WorksOn(g, x)' => g # h /\ WorksOn(g, x)
    BY <2>3, <2>6 DEF WorksOn, EventOf
  <2>8. ~inbox[x].lapsed => \A g \in Handlers : ~WorksOn(g, x)'
    BY <1>a, <2>5, <2>7 DEF LeaseHeld
  <2>9. QED
    BY <1>a, <2>4, <2>6, <2>8, LeaseKept
<1>4. QED
  BY <1>1, <1>2, <1>3 DEF HandlerStep

LEMMA LeaseInvariant == ASSUME OInv, [Next]_vars PROVE OInv'
<1>a. TypeOK'
  BY NextType DEF OInv
<1>b. RabbitTypeOK /\ ConsumerTypeOK /\ LeaseHeld
  BY DEF OInv, TypeOK
<1> SUFFICES LeaseHeld'
  BY <1>a DEF OInv
<1>0. ASSUME UNCHANGED job, UNCHANGED inbox
      PROVE  LeaseHeld'
  BY <1>0, <1>b, LeaseKept
<1>1. ASSUME NEW p \in Procs, RelayStep(p)
      PROVE  LeaseHeld'
  BY <1>0, <1>1
     DEF RelayStep, Claim, ClaimUnread, Publish, PublishRefused, Confirmed, MarkPublished,
         MarkFails, RecordError, Abandon, rabbitVars, consumerVars
<1>2. ASSUME NEW e \in Events, Append(e), UNCHANGED consumerVars
      PROVE  LeaseHeld'
  BY <1>0, <1>2 DEF Append, rabbitVars, consumerVars
<1>3. ASSUME NEW h \in Handlers, HandlerGivesUp(h)
      PROVE  LeaseHeld'
  <2>1. CloseConnection(h) /\ UNCHANGED consumerVars
    BY <1>3 DEF HandlerGivesUp, RetryUnroutable, RetryRefused, SettleClosed
  <2>2. \A g \in Handlers : job'[g].pc \in {"work", "mark", "release"} =>
          job[g].pc \in {"work", "mark", "release"} /\ job'[g].copy = job[g].copy
    BY <1>b, <2>1 DEF CloseConnection, Orphaned, Busy, IdleJob, RabbitTypeOK, Job, BusyJob
  <2>3. QED
    BY <1>b, <2>1, <2>2, LeaseKept DEF consumerVars
<1>4. ASSUME NEW q \in Queues, NEW c \in Copies, DeliverTo(q, c)
      PROVE  LeaseHeld'
  BY <1>4, <1>b, LeaseKept DEF DeliverTo, Deliver, RabbitTypeOK, consumerVars
<1>5. CASE BrokerStep
  BY <1>0, <1>5 DEF BrokerStep, Expire, Reconnect, consumerVars
<1>6. CASE LeaseExpires
  <2>1. ASSUME NEW e \in Events, RowLeaseExpires(e), UNCHANGED consumerVars
        PROVE  LeaseHeld'
    BY <2>1, <1>0 DEF RowLeaseExpires, consumerVars
  <2>2. ASSUME NEW x \in Tasks, InboxLeaseExpires(x)
        PROVE  LeaseHeld'
    <3> DEFINE late == inbox[x].lapsed \/ AtWork(x) # {}
    <3>0. inbox' = [inbox EXCEPT ![x] = [inbox[x] EXCEPT !.live = FALSE, !.lapsed = late]]
      BY <2>2, <1>b DEF InboxLeaseExpires, ConsumerTypeOK, InboxRow
    <3>1. job' = job /\ \A y \in Tasks : y # x => inbox'[y] = inbox[y]
      BY <2>2, <1>b, <3>0 DEF InboxLeaseExpires, ConsumerTypeOK
    <3>2. inbox'[x].lapsed = late
      <4> HIDE DEF late
      <4>1. QED
        BY <1>b, <3>0 DEF ConsumerTypeOK, InboxRow
    <3>3. ~inbox'[x].lapsed => ~inbox[x].lapsed /\ AtWork(x) = {}
      BY <3>2, Zenon
    <3>4. ~inbox'[x].lapsed => \A h \in Handlers : ~WorksOn(h, x)
      BY <1>b, <3>3 DEF LeaseHeld, AtWork, WorksOn
    <3>5. \A h \in Handlers, y \in Tasks : WorksOn(h, y)' => WorksOn(h, y)
      BY <3>1 DEF WorksOn, EventOf
    <3>6. QED
      BY <1>b, <3>1, <3>3, <3>4, <3>5, LeaseKept
  <2>3. QED
    BY <1>6, <2>1, <2>2 DEF LeaseExpires
<1>7. ASSUME NEW p \in Procs, LoseConnection(p)
      PROVE  LeaseHeld'
  <2>1. \A g \in Handlers : job'[g].pc = job[g].pc /\ (Busy(g) => job'[g].copy = job[g].copy)
    BY <1>7, <1>b DEF LoseConnection, Orphaned, Busy, IdleJob, RabbitTypeOK, Job, BusyJob
  <2>2. \A g \in Handlers : job[g].pc \in {"work", "mark", "release"} => Busy(g)
    BY DEF Busy, IdleJob
  <2>3. QED
    BY <1>7, <1>b, <2>1, <2>2, LeaseKept DEF LoseConnection, consumerVars
<1>8. ASSUME NEW p \in Procs, Crash(p)
      PROVE  LeaseHeld'
  <2>1. \A x \in Tasks : inbox'[x] =
          [inbox[x] EXCEPT !.lockedBy = IF inbox[x].lockedBy = p THEN Nobody
                                        ELSE inbox[x].lockedBy]
    BY <1>8 DEF Crash
  <2>2. \A x \in Tasks : inbox[x].lockedBy # p => inbox'[x] = inbox[x]
    BY <1>b, <2>1 DEF ConsumerTypeOK, InboxRow
  <2>3. \A x \in Tasks : inbox'[x].lapsed = inbox[x].lapsed
    <3> TAKE x \in Tasks
    <3>1. CASE inbox[x].lockedBy = p
      <4>1. inbox'[x] = [inbox[x] EXCEPT !.lockedBy = Nobody]
        BY <2>1, <3>1
      <4>2. QED
        BY <1>b, <4>1 DEF ConsumerTypeOK, InboxRow
    <3>2. QED
      BY <2>2, <3>1
  <2>4. \A g \in Handlers : job'[g] = IF ProcOf(g) = p THEN IdleJob ELSE job[g]
    BY <1>8 DEF Crash
  <2>5. \A g \in Handlers, x \in Tasks : WorksOn(g, x)' => WorksOn(g, x) /\ ProcOf(g) # p
    BY <2>4 DEF WorksOn, EventOf, IdleJob
  <2>6. \A g \in Handlers : job'[g].pc \in {"work", "mark", "release"} =>
          job[g].pc \in {"work", "mark", "release"} /\ job'[g].copy = job[g].copy
    BY <2>4 DEF IdleJob
  <2>7. \A x \in Tasks : ~inbox'[x].lapsed =>
          /\ ~inbox[x].lapsed
          /\ \A g \in Handlers : WorksOn(g, x)' => inbox'[x] = inbox[x]
    BY <1>b, <2>2, <2>3, <2>5 DEF LeaseHeld
  <2>8. QED
    BY <1>b, <2>6, <2>7, LeaseKept
<1>9. CASE UNCHANGED vars
  BY <1>0, <1>9 DEF vars, rabbitVars, consumerVars
<1>10. QED
  BY <1>1, <1>2, <1>3, <1>4, <1>5, <1>6, <1>7, <1>8, <1>9, LeaseKeptByHandler DEF Next

\* claim of dispatch and project: while no lease runs out under its holder, one handler at
\* a time works on an event for a consumer, whatever copies, processes and crashes there are.
THEOREM WorkedOneAtATime == Spec => []OneAtATime
<1>1. Init => OInv
  BY InitType DEF OInv, LeaseHeld, WorksOn, Init, RabbitInit, IdleJob
<1>2. OInv /\ [Next]_vars => OInv'
  BY LeaseInvariant
<1>3. OInv => OneAtATime
  <2> SUFFICES ASSUME OInv, NEW x \in Tasks, ~inbox[x].lapsed
               PROVE  Cardinality({h \in Handlers :
                        Busy(h) /\ TaskOf(h) = x /\ job[h].pc = "work"}) <= 1
    BY DEF OneAtATime
  <2> DEFINE S == {h \in Handlers : Busy(h) /\ TaskOf(h) = x /\ job[h].pc = "work"}
  <2>1. \A g, h \in S : g = h
    BY DEF OInv, LeaseHeld, WorksOn, TaskOf
  <2>2. CASE S = {}
    BY <2>2, FS_EmptySet
  <2>3. CASE S # {}
    <3>1. PICK h \in S : S = {h}
      BY <2>1, <2>3
    <3> HIDE DEF S
    <3>2. Cardinality(S) = 1
      BY <3>1, FS_Singleton
    <3>3. QED
      BY <3>2 DEF S
  <2>4. QED
    BY <2>2, <2>3
<1>4. QED
  BY <1>1, <1>2, <1>3, PTL DEF Spec
-----------------------------------------------------------------------------
(* The refinement: every step is one of AtLeastOnce, or changes nothing of it. *)

Pub == {e \in Events : row[e].status = "PUBLISHED"}

\* A handler that has a copy, acknowledged or not, or taken back by the broker: the event
\* is taken care of without what it is about to acknowledge.
Covered == \A h \in Handlers : Busy(h) => Safe(QueueOf(h), EventOf(h))

RInv == LInv /\ PublishedIsFree /\ Covered

\* Handlers get a copy from the broker only.
LEMMA BusyStep ==
  ASSUME RabbitTypeOK, [Next]_vars, NEW h \in Handlers, Busy(h)'
  PROVE  \/ Busy(h) /\ EventOf(h)' = EventOf(h)
         \/ \E q \in Queues, c \in Copies : DeliverTo(q, c) /\ Held(h)' /\ ~At(h, "settle")'
<1> DEFINE Same == Busy(h) /\ job'[h].copy = job[h].copy
<1> SUFFICES \/ Same
             \/ \E q \in Queues, c \in Copies : DeliverTo(q, c) /\ Held(h)' /\ ~At(h, "settle")'
  BY DEF EventOf
<1>0. ASSUME job'[h] = job[h]
      PROVE  Same
  BY <1>0 DEF Busy
<1>1. ASSUME NEW p \in Procs, RelayStep(p)
      PROVE  Same
  BY <1>0, <1>1
     DEF RelayStep, Claim, ClaimUnread, Publish, PublishRefused, Confirmed, MarkPublished,
         MarkFails, RecordError, Abandon, rabbitVars
<1>2. ASSUME NEW g \in Handlers, HandlerStep(g)
      PROVE  Same
  <2>1. job[g] \in BusyJob
    BY <1>2, BusyJobs
       DEF HandlerStep, Reject, ClaimInbox, FindProcessed, FindBusy, Work, WorkFails, Mark,
           Release, StatementFails, Ack, Retry, Park, Settle
  <2>2. CASE Free(g)
    BY <2>2, FreeType DEF Busy
  <2>3. ASSUME NEW pc \in {"claim", "work", "mark", "release", "fail", "ack", "settle"},
               Step(g, pc)
        PROVE  Same
    BY <2>1, <2>3, StepMoves DEF Busy, BusyJob, IdleJob
  <2>4. QED
    BY <1>2, <2>2, <2>3
       DEF HandlerStep, Reject, ClaimInbox, FindProcessed, FindBusy, Work, WorkFails, Mark,
           Release, StatementFails, Ack, Retry, Park, Settle
<1>3. ASSUME NEW p \in Procs, job'[h] = Orphaned(p)[h]
      PROVE  Same
  BY <1>3 DEF Orphaned, Busy, RabbitTypeOK, Job, BusyJob, IdleJob
<1>4. ASSUME NEW g \in Handlers, HandlerGivesUp(g)
      PROVE  Same
  <2>1. ProcOf(g) \in Procs /\ job' = [Orphaned(ProcOf(g)) EXCEPT ![g] = IdleJob]
    BY <1>4 DEF HandlerGivesUp, RetryUnroutable, RetryRefused, SettleClosed, CloseConnection,
                Handlers, ProcOf
  <2>2. g # h /\ job'[h] = Orphaned(ProcOf(g))[h]
    BY <2>1 DEF Orphaned, Busy
  <2>3. QED
    BY <1>3, <2>1, <2>2
<1>5. ASSUME NEW q \in Queues, NEW c \in Copies, DeliverTo(q, c)
      PROVE  Same \/ (Held(h)' /\ ~At(h, "settle")')
  <2>1. PICK g \in Handlers, n \in 0..DeliveryLimit : Deliver(g, <<c, n>>)
    BY <1>5 DEF DeliverTo
  <2>2. PICK x : x = <<c, n>>
    OBVIOUS
  <2>3. /\ job'[g] = [pc |-> "claim", copy |-> c, returns |-> n, held |-> TRUE]
        /\ g # h => job'[h] = job[h]
    BY <2>1, <2>2 DEF Deliver, RabbitTypeOK
  <2>4. QED
    BY <1>0, <2>3 DEF Held, Busy, At, IdleJob
<1>6. ASSUME NEW p \in Procs, LoseConnection(p)
      PROVE  Same
  BY <1>3, <1>6 DEF LoseConnection
<1>7. ASSUME NEW p \in Procs, Crash(p)
      PROVE  Same
  BY <1>0, <1>7 DEF Crash, Busy
<1>8. CASE \/ \E e \in Events : Append(e)
           \/ BrokerStep \/ LeaseExpires \/ UNCHANGED vars
  BY <1>0, <1>8
     DEF Append, BrokerStep, Expire, Reconnect, LeaseExpires, RowLeaseExpires,
         InboxLeaseExpires, vars, rabbitVars
<1>9. QED
  BY <1>1, <1>2, <1>4, <1>5, <1>6, <1>7, <1>8 DEF Next

LEMMA CoveredInvariant == ASSUME RInv, [Next]_vars PROVE RInv'
<1>1. LInv' /\ PublishedIsFree'
  BY LossInvariant, RowStep DEF RInv, LInv, EInv, PublishedIsFree
<1>2. EInv /\ RabbitTypeOK /\ Covered /\ RabbitTypeOK'
  BY <1>1 DEF RInv, LInv, EInv, TypeOK
<1>3. ASSUME NEW h \in Handlers, Busy(h)', NEW q, q = QueueOf(h), NEW e, e = EventOf(h)'
      PROVE  Safe(q, e)'
  <2>1. q \in Queues /\ e \in Events
    BY <1>2, <1>3 DEF Handlers, QueueOf, EventOf, RabbitTypeOK, Busy, Job, BusyJob, Copies
  <2>2. CASE Busy(h) /\ EventOf(h)' = EventOf(h)
    <3>1. Safe(q, e)
      BY <1>2, <1>3, <2>2 DEF Covered
    <3>2. QED
      BY <1>2, <2>1, <3>1, SafeKept DEF RInv, LInv
  <2>3. CASE Held(h)' /\ ~At(h, "settle")'
    BY <1>3, <2>3 DEF Safe, InHand
  <2>4. QED
    BY <1>2, <1>3, <2>2, <2>3, BusyStep
<1>4. Covered'
  BY <1>3 DEF Covered
<1>5. QED
  BY <1>1, <1>4 DEF RInv
\* What is under way, by task.
LEMMA QueuedBy ==
  ASSUME NEW q \in Queues, NEW e \in Events
  PROVE  /\ <<q, e>> \in Tasks
         /\ <<q, e>> \in Queued <=> UnderWay(q, e)
         /\ <<q, e>> \in Queued' <=> UnderWay(q, e)'
<1>1. <<q, e>> \in Tasks /\ <<q, e>>[1] = q /\ <<q, e>>[2] = e
  BY DEF Tasks
<1>2. <<q, e>> \in Queued <=> UnderWay(q, e)
  BY <1>1 DEF Queued, UnderWay
<1>3. <<q, e>> \in Queued' <=> UnderWay(q, e)'
  BY <1>1 DEF Queued, UnderWay
<1>4. QED
  BY <1>1, <1>2, <1>3

LEMMA QueuedSame ==
  ASSUME \A q \in Queues, e \in Events : UnderWay(q, e)' <=> UnderWay(q, e)
  PROVE  Queued' = Queued
<1>1. \A q \in Queues, e \in Events : <<q, e>> \in Queued' <=> <<q, e>> \in Queued
  BY QueuedBy
<1>2. Queued \subseteq Tasks /\ Queued' \subseteq Tasks
  BY DEF Queued
<1>3. QED
  BY <1>1, <1>2 DEF Tasks

\* Copies wait where they did, and handlers hold what they held.
LEMMA QueuedQuiet ==
  ASSUME UNCHANGED <<ready, delayed>>,
         \A g \in Handlers : /\ Held(g)' <=> Held(g)
                             /\ Held(g) => EventOf(g)' = EventOf(g)
  PROVE  Queued' = Queued
  BY QueuedSame DEF UnderWay

LEMMA QueuedStep ==
  ASSUME RabbitTypeOK, UNCHANGED <<ready, delayed>>, NEW h \in Handlers, job[h] \in BusyJob,
         NEW pc \in {"claim", "work", "mark", "release", "fail", "ack", "settle"}, Step(h, pc)
  PROVE  Queued' = Queued
<1>1. \A g \in Handlers : /\ Held(g)' <=> Held(g)
                          /\ Held(g) => EventOf(g)' = EventOf(g)
  BY StepMoves DEF Held, Busy, EventOf, BusyJob, IdleJob
<1>2. QED
  BY <1>1, QueuedQuiet

promise == <<Queued, done, Parked, requeued, Pub>>

LEMMA ParkedSame == ASSUME UNCHANGED dead PROVE Parked' = Parked
  BY DEF Parked

LEMMA PubSame == ASSUME UNCHANGED row PROVE Pub' = Pub
  BY DEF Pub

\* What is not owed any more, and what is at all, by task.
LEMMA AnsweredBy ==
  ASSUME NEW q \in Queues, NEW e \in Events
  PROVE  /\ <<q, e>> \in Promise!Tasks
         /\ Over(q, e) <=> <<q, e>> \in Promise!Answered
         /\ Safe(q, e) => <<q, e>> \in Promise!Routed
<1>1. <<q, e>> \in Promise!Tasks /\ <<q, e>> \in Tasks
  BY DEF Promise!Tasks, Tasks
<1>2. <<q, e>> \in Parked <=> e \in dead[q]
  BY <1>1 DEF Parked
<1>3. Over(q, e) <=> <<q, e>> \in Promise!Answered
  BY <1>1, <1>2 DEF Over, WornOut, Promise!Answered
<1>4. Waiting(q, e) \/ InHand(q, e) => <<q, e>> \in Queued
  BY QueuedBy DEF Waiting, InHand, UnderWay
<1>5. QED
  BY <1>1, <1>3, <1>4 DEF Safe, Promise!Routed

\* A copy of e gets under way to every consumer.
LEMMA QueueMaps ==
  ASSUME NEW e \in Events, UNCHANGED <<done, dead, requeued, row>>,
         \A q \in Queues, f \in Events : UnderWay(q, f)' <=> UnderWay(q, f) \/ f = e
  PROVE  Promise!Next
<1>1. \A q \in Queues, f \in Events :
        <<q, f>> \in Queued' <=> <<q, f>> \in Queued \/ f = e
  BY QueuedBy
<1>2. Queued \subseteq Tasks /\ Queued' \subseteq Tasks
  BY DEF Queued
<1>3. Queued' = Queued \cup (Queues \X {e})
  BY <1>1, <1>2 DEF Tasks
<1>4. UNCHANGED <<done, Parked, requeued, Pub>>
  BY ParkedSame, PubSame
<1>5. Promise!Queue(e)
  BY <1>3, <1>4 DEF Promise!Queue, Promise!Routed, Pub
<1>6. QED
  BY <1>5 DEF Promise!Next

\* A handler lets go of a copy whose event is taken care of.
LEMMA LetGoMaps ==
  ASSUME RInv, [Next]_vars, NEW h \in Handlers, job[h] \in BusyJob, Held(h), Free(h),
         UNCHANGED <<ready, delayed, requeued, dead, done, row>>
  PROVE  [Promise!Next]_promise
<1>1. RabbitTypeOK /\ EInv /\ ReturnsAreCounted /\ Covered
  BY DEF RInv, LInv, EInv, TypeOK
<1>2. PICK q \in Queues, e \in Events : q = QueueOf(h) /\ e = EventOf(h)
  BY DEF Handlers, QueueOf, EventOf, BusyJob, Copies
<1>3. \A g \in Handlers : job'[g] = IF g = h THEN IdleJob ELSE job[g]
  BY <1>1, FreeType
<1>4. \A r \in Queues, f \in Events :
        /\ UnderWay(r, f)' => UnderWay(r, f)
        /\ UnderWay(r, f) => UnderWay(r, f)' \/ (r = q /\ f = e)
  BY <1>2, <1>3 DEF UnderWay, Held, Busy, EventOf
<1>5. UnderWay(q, e)
  BY <1>2 DEF UnderWay
<1>6. Queued \subseteq Tasks /\ Queued' \subseteq Tasks
  BY DEF Queued
<1>7. Queued' = Queued \/ Queued' = Queued \ {<<q, e>>}
  <2>1. \A r \in Queues, f \in Events :
          /\ <<r, f>> \in Queued' => <<r, f>> \in Queued
          /\ <<r, f>> \in Queued => <<r, f>> \in Queued' \/ <<r, f>> = <<q, e>>
    BY <1>4, QueuedBy
  <2>2. \A x \in Tasks : /\ x \in Queued' => x \in Queued
                         /\ x \in Queued => x \in Queued' \/ x = <<q, e>>
    BY <2>1 DEF Tasks
  <2>3. Queued' \subseteq Queued /\ Queued \ {<<q, e>>} \subseteq Queued'
    BY <1>6, <2>2
  <2>4. QED
    BY <2>3
<1>8. UNCHANGED <<done, Parked, requeued, Pub>>
  BY ParkedSame, PubSame
<1>9. CASE Queued' = Queued
  BY <1>8, <1>9 DEF promise
<1>10. CASE Queued' = Queued \ {<<q, e>>}
  <2>1. Safe(q, e)
    BY <1>1, <1>2 DEF Covered, Held
  <2>2. Safe(q, e)'
    BY <1>1, <2>1, SafeKept
  <2>3. <<q, e>> \in Tasks /\ <<q, e>> \in Queued /\ ~UnderWay(q, e)'
    BY <1>5, <1>10, QueuedBy
  <2>4. Over(q, e)'
    BY <2>2, <2>3 DEF Safe, Waiting, InHand, UnderWay
  <2>5. Over(q, e)
    BY <2>4 DEF Over, WornOut
  <2>6. Promise!Settle(<<q, e>>)
    BY <1>8, <1>10, <2>3, <2>5, AnsweredBy DEF Promise!Settle, Pub
  <2>7. QED
    BY <2>6, AnsweredBy DEF Promise!Next
<1>11. QED
  BY <1>7, <1>9, <1>10

LEMMA HandlerMaps ==
  ASSUME RInv, [Next]_vars, NEW h \in Handlers, HandlerStep(h)
  PROVE  [Promise!Next]_promise
<1>a. RabbitTypeOK /\ ConsumerTypeOK /\ EInv /\ Covered
  BY DEF RInv, LInv, EInv, TypeOK
<1>b. job[h] \in BusyJob /\ Busy(h)
  BY <1>a, BusyJobs
     DEF HandlerStep, Reject, ClaimInbox, FindProcessed, FindBusy, Work, WorkFails, Mark,
         Release, StatementFails, Ack, Retry, Park, Settle
<1>c. UNCHANGED row /\ Pub' = Pub
  BY PubSame DEF HandlerStep, relayVars
<1>d. PICK q \in Queues, e \in Events :
        q = QueueOf(h) /\ e = EventOf(h) /\ TaskOf(h) = <<q, e>> /\ <<q, e>> \in Tasks
  BY <1>a, <1>b, InboxType DEF TaskOf
<1>e. <<q, e>> \in Promise!Routed /\ <<q, e>> \in Promise!Tasks
  <2>1. Safe(q, e)
    BY <1>a, <1>b, <1>d DEF Covered
  <2>2. QED
    BY <2>1, AnsweredBy
<1>1. CASE \/ Reject(h) \/ ClaimInbox(h) \/ FindProcessed(h) \/ FindBusy(h)
           \/ WorkFails(h) \/ Mark(h) \/ Release(h) \/ StatementFails(h)
           \/ (Ack(h) /\ ~job[h].held /\ UNCHANGED consumerVars)
  <2>1. PICK pc \in {"work", "ack", "release", "fail"} : Step(h, pc)
    BY <1>1 DEF Reject, ClaimInbox, FindProcessed, FindBusy, WorkFails, Mark, Release,
                StatementFails, Ack
  <2>2. UNCHANGED <<ready, delayed, requeued, dead, done>>
    BY <1>1 DEF Reject, ClaimInbox, FindProcessed, FindBusy, WorkFails, Mark, Release,
                StatementFails, Ack, consumerVars
  <2>3. QED
    BY <1>a, <1>b, <1>c, <2>1, <2>2, QueuedStep, ParkedSame DEF promise
<1>2. CASE Work(h)
  <2>1. /\ Queued' = Queued /\ Parked' = Parked /\ requeued' = requeued
        /\ done' = done \cup {<<q, e>>}
    BY <1>a, <1>b, <1>d, <1>2, QueuedStep, ParkedSame DEF Work
  <2>2. Promise!Perform(<<q, e>>)
    BY <1>c, <1>e, <2>1 DEF Promise!Perform, Pub
  <2>3. QED
    BY <1>e, <2>2 DEF Promise!Next
<1>3. CASE Ack(h) /\ job[h].held /\ UNCHANGED consumerVars
  BY <1>b, <1>c, <1>3, LetGoMaps DEF Ack, Held, consumerVars
<1>4. CASE Settle(h) /\ UNCHANGED consumerVars
  BY <1>b, <1>c, <1>4, LetGoMaps DEF Settle, Held, consumerVars
<1>5. CASE Retry(h) /\ UNCHANGED consumerVars
  <2> DEFINE next == <<job[h].copy[1], job[h].copy[2] + 1>>
  <2>1. next \in Copies /\ next[1] = e
    BY <1>5, <1>b, <1>d, RabbitAssumption DEF Retry, BusyJob, Copies, Hopeless, EventOf
  <2>2. delayed' = [delayed EXCEPT ![next] = delayed[next] + 1] /\ ready' = ready
    BY <1>5 DEF Retry
  <2>3. \A c \in Copies : delayed[c] \in Nat
    BY <1>a DEF RabbitTypeOK
  <2> HIDE DEF next
  <2>4. /\ delayed'[next] > 0
        /\ \A c \in Copies : c # next => delayed'[c] = delayed[c]
    BY <2>1, <2>2, <2>3, <1>a DEF RabbitTypeOK
  <2>5. Step(h, "settle")
    BY <1>5 DEF Retry
  <2>6. \A g \in Handlers : /\ Held(g)' <=> Held(g)
                            /\ Held(g) => EventOf(g)' = EventOf(g)
    BY <1>a, <1>b, <2>5, StepMoves DEF Held, Busy, EventOf, BusyJob, IdleJob
  <2>7. \A r \in Queues, f \in Events : UnderWay(r, f)' <=> UnderWay(r, f) \/ f = e
    <3> TAKE r \in Queues, f \in Events
    <3>1. CASE f = e
      BY <2>1, <2>4, <3>1 DEF UnderWay
    <3>2. CASE f # e
      <4>1. \A c \in Copies : c[1] = f => delayed'[c] = delayed[c]
        BY <2>1, <2>4, <3>2
      <4>2. QED
        BY <2>2, <2>6, <3>2, <4>1 DEF UnderWay
    <3>3. QED
      BY <3>1, <3>2
  <2>8. UNCHANGED <<done, dead, requeued, row>>
    BY <1>5, <1>c DEF Retry, consumerVars
  <2>9. QED
    BY <2>7, <2>8, QueueMaps
<1>6. CASE Park(h) /\ UNCHANGED consumerVars
  <2>1. Queued' = Queued /\ requeued' = requeued
    BY <1>a, <1>b, <1>6, QueuedStep DEF Park
  <2>2. dead' = [dead EXCEPT ![q] = dead[q] \cup {e}]
    BY <1>6, <1>d DEF Park, EventOf
  <2>3. Parked' = Parked \cup {<<q, e>>}
    BY <1>a, <1>d, <2>2 DEF RabbitTypeOK, Parked, Tasks
  <2>4. Promise!Park(<<q, e>>)
    BY <1>c, <1>e, <1>6, <2>1, <2>3 DEF Promise!Park, Pub, consumerVars
  <2>5. QED
    BY <1>e, <2>4 DEF Promise!Next
<1>7. QED
  BY <1>b, <1>1, <1>2, <1>3, <1>4, <1>5, <1>6 DEF HandlerStep, BusyJob
LEMMA RelayMaps ==
  ASSUME RInv, NEW p \in Procs, RelayStep(p)
  PROVE  [Promise!Next]_promise
<1>a. RabbitTypeOK /\ row \in [Events -> OutboxRow] /\ PublishedIsFree /\ Routed
  BY DEF RInv, LInv, EInv, TypeOK, RelayTypeOK
<1>b. done' = done
  BY DEF RelayStep, consumerVars
<1>0. ASSUME UNCHANGED <<ready, delayed, requeued, dead, job>>, Pub' = Pub
      PROVE  UNCHANGED promise
  <2>1. Queued' = Queued
    BY <1>0, QueuedQuiet DEF Held, Busy, EventOf
  <2>2. QED
    BY <1>b, <1>0, <2>1, ParkedSame DEF promise
<1>1. ASSUME NEW batch \in SUBSET Events, Claim(p, batch) \/ ClaimUnread(p, batch)
      PROVE  UNCHANGED promise
  <2>1. \A e \in Events : row'[e].status = "PUBLISHED" <=> row[e].status = "PUBLISHED"
    <3> TAKE e \in Events
    <3>1. Lease(p, batch)
      BY <1>1 DEF Claim, ClaimUnread
    <3>2. CASE e \in batch
      <4>1. row'[e] = [row[e] EXCEPT !.status = "PROCESSING", !.lockedBy = p, !.live = TRUE]
        BY <3>1, <3>2 DEF Lease
      <4>2. row'[e].status = "PROCESSING"
        BY <1>a, <4>1 DEF OutboxRow
      <4>3. row[e].status # "PUBLISHED"
        BY <3>1, <3>2 DEF Lease, Due
      <4>4. QED
        BY <4>2, <4>3
    <3>3. CASE e \notin batch
      BY <3>1, <3>3 DEF Lease
    <3>4. QED
      BY <3>2, <3>3
  <2>2. Pub' = Pub
    BY <2>1 DEF Pub
  <2>3. QED
    BY <1>0, <1>1, <2>2 DEF Claim, ClaimUnread, rabbitVars
<1>2. CASE Publish(p)
  <2> DEFINE e == Current(p)
  <2>1. /\ RouteDomain(<<e, 0>>)
        /\ UNCHANGED <<row, delayed, requeued, dead, job>>
    BY <1>2 DEF Publish
  <2>2. \A q \in Queues, x \in Entries :
          /\ ready[q][x] \in Nat
          /\ ready'[q][x] = IF x = <<<<e, 0>>, 0>> THEN ready[q][x] + 1 ELSE ready[q][x]
    BY <1>a, <2>1, RouteType DEF RabbitTypeOK
  <2> HIDE DEF e
  <2>3. ASSUME NEW q \in Queues, NEW f \in Events
        PROVE  /\ f # e => (UnderWay(q, f)' <=> UnderWay(q, f))
               /\ f = e => UnderWay(q, f)'
    <3>1. ASSUME f # e PROVE UnderWay(q, f)' <=> UnderWay(q, f)
      <4>1. \A x \in Entries : x[1][1] = f => ready'[q][x] = ready[q][x]
        BY <2>2, <3>1
      <4>2. QED
        BY <2>1, <4>1 DEF UnderWay, Held, Busy, EventOf
    <3>2. ASSUME f = e PROVE UnderWay(q, f)'
      <4>1. PICK x \in Entries : x = <<<<f, 0>>, 0>>
        BY FirstCopy, EntryOf
      <4>2. ready'[q][x] > 0 /\ x[1][1] = f
        BY <2>2, <3>2, <4>1
      <4>3. QED
        BY <4>2 DEF UnderWay
    <3>3. QED
      BY <3>1, <3>2
  <2>4. CASE e \in Events
    <3>1. PICK f \in Events : f = e
      BY <2>4
    <3>2. \A q \in Queues, g \in Events : UnderWay(q, g)' <=> UnderWay(q, g) \/ g = f
      BY <2>3, <3>1
    <3>3. QED
      BY <1>b, <2>1, <3>2, QueueMaps
  <2>5. CASE e \notin Events
    <3>1. Queued' = Queued
      BY <2>3, <2>5, QueuedSame
    <3>2. QED
      BY <1>b, <2>1, <3>1, ParkedSame, PubSame DEF promise
  <2>6. QED
    BY <2>4, <2>5
<1>3. CASE MarkPublished(p)
  <2>1. UNCHANGED <<ready, delayed, requeued, dead, job>>
    BY <1>3 DEF MarkPublished, rabbitVars
  <2>2. CASE Holds(p, Current(p)) /\ Current(p) \in Events
    <3>1. PICK e \in Events : e = Current(p)
      BY <2>2
    <3>2. row' = [row EXCEPT ![e] = Published(e)] /\ Published(e).status = "PUBLISHED"
      BY <1>a, <1>3, <2>2, <3>1 DEF MarkPublished, Published, OutboxRow
    <3>3. Pub' = Pub \cup {e}
      BY <1>a, <3>2 DEF Pub
    <3>4. \A q \in Queues : Safe(q, e)
      BY <1>a, <1>3, <3>1 DEF MarkPublished, Routed
    <3>5. \A q \in Queues : <<q, e>> \in Promise!Routed
      BY <3>4, AnsweredBy
    <3>6. Queued' = Queued /\ Parked' = Parked
      BY <2>1, QueuedQuiet, ParkedSame DEF Held, Busy, EventOf
    <3>7. Promise!Publish(e)
      BY <1>b, <2>1, <3>3, <3>5, <3>6 DEF Promise!Publish, Pub
    <3>8. QED
      BY <3>7 DEF Promise!Next
  <2>3. CASE ~ (Holds(p, Current(p)) /\ Current(p) \in Events)
    <3>1. row' = row
      BY <1>a, <1>3, <2>3 DEF MarkPublished
    <3>2. QED
      BY <1>0, <2>1, <3>1, PubSame
  <2>4. QED
    BY <2>2, <2>3
<1>4. CASE RecordError(p)
  <2>1. \A e \in Events : row'[e].status = "PUBLISHED" <=> row[e].status = "PUBLISHED"
    <3>1. CASE Holds(p, Current(p)) /\ Current(p) \in Events
      <4>1. row[Current(p)].status # "PUBLISHED"
        BY <1>a, <3>1, RabbitAssumption DEF Holds, PublishedIsFree
      <4>2. /\ row' = [row EXCEPT ![Current(p)] = Unpublished(Current(p))]
            /\ Unpublished(Current(p)).status # "PUBLISHED"
        BY <1>4, <3>1 DEF RecordError, Unpublished
      <4>3. QED
        BY <1>a, <3>1, <4>1, <4>2
    <3>2. CASE ~ (Holds(p, Current(p)) /\ Current(p) \in Events)
      <4>1. row' = row
        BY <1>a, <1>4, <3>2 DEF RecordError
      <4>2. QED
        BY <4>1
    <3>3. QED
      BY <3>1, <3>2
  <2>2. Pub' = Pub
    BY <2>1 DEF Pub
  <2>3. QED
    BY <1>0, <1>4, <2>2 DEF RecordError, rabbitVars
<1>5. CASE \/ PublishRefused(p) \/ Confirmed(p) \/ MarkFails(p) \/ Abandon(p)
  BY <1>0, <1>5, PubSame DEF PublishRefused, Confirmed, MarkFails, Abandon, rabbitVars
<1>6. QED
  BY <1>1, <1>2, <1>3, <1>4, <1>5 DEF RelayStep

\* What p held goes back, and what it held for the last time is dropped.
LEMMA GiveBackMaps ==
  ASSUME RabbitTypeOK, ReturnsAreCounted, NEW p \in Procs, TakeBack(p),
         UNCHANGED <<delayed, dead, done>>, Pub' = Pub,
         \A g \in Handlers : IF ProcOf(g) = p THEN ~Held(g)' ELSE job'[g] = job[g]
  PROVE  Promise!Next
<1> DEFINE xs == {x \in Tasks : Holding(p, x)}
<1>1. \A q \in Queues, x \in Entries :
        /\ ready[q][x] > 0 => ready'[q][x] > 0
        /\ ready'[q][x] > 0 => ready[q][x] > 0 \/ HeldBy(p, q, x[1], x[2] - 1) # {}
  <2>1. \A q \in Queues, x \in Entries :
          ready[q][x] \in Nat /\ ready'[q][x] \in Nat /\ ready'[q][x] >= ready[q][x]
    BY ReturnedType DEF RabbitTypeOK, TakeBack
  <2>2. QED
    BY <2>1, ReturnedType DEF TakeBack
<1>2. ASSUME NEW q \in Queues, NEW e \in Events, UnderWay(q, e)'
      PROVE  UnderWay(q, e)
  <2>1. ASSUME NEW x \in Entries, x[1][1] = e, HeldBy(p, q, x[1], x[2] - 1) # {}
        PROVE  UnderWay(q, e)
    <3>1. PICK s \in Slots : Held(<<p, q, s>>) /\ job[<<p, q, s>>].copy = x[1]
      BY <2>1 DEF HeldBy
    <3>2. /\ <<p, q, s>> \in Handlers /\ QueueOf(<<p, q, s>>) = q
          /\ EventOf(<<p, q, s>>) = e
      BY <2>1, <3>1 DEF Handlers, QueueOf, EventOf
    <3>3. QED
      BY <3>1, <3>2 DEF UnderWay
  <2>2. ASSUME NEW x \in Entries, x[1][1] = e, ready'[q][x] > 0
        PROVE  UnderWay(q, e)
    BY <1>1, <2>1, <2>2 DEF UnderWay
  <2>3. ASSUME NEW g \in Handlers, QueueOf(g) = q, Held(g)', EventOf(g)' = e
        PROVE  UnderWay(q, e)
    BY <2>3 DEF UnderWay, Held, Busy, EventOf
  <2>4. QED
    BY <1>2, <2>2, <2>3 DEF UnderWay
<1>3. ASSUME NEW q \in Queues, NEW e \in Events, UnderWay(q, e), ~UnderWay(q, e)'
      PROVE  Holding(p, <<q, e>>) /\ requeued'[<<q, e>>] > DeliveryLimit
  <2>1. PICK g \in Handlers : QueueOf(g) = q /\ Held(g) /\ EventOf(g) = e
    BY <1>1, <1>3 DEF UnderWay
  <2>2. ProcOf(g) = p
    BY <1>3, <2>1 DEF UnderWay, Held, Busy, EventOf
  <2>3. Waiting(q, e)' \/ WornOut(q, e)'
    BY <2>1, <2>2, HeldReturns
  <2>4. QED
    BY <1>3, <2>1, <2>2, <2>3 DEF Waiting, UnderWay, WornOut, Holding, EventOf
<1>4. xs \subseteq Queued
  BY DEF Holding, Queued, UnderWay, EventOf
<1>5. Queued \subseteq Tasks /\ Queued' \subseteq Queued
  <2>1. Queued \subseteq Tasks /\ Queued' \subseteq Tasks
    BY DEF Queued
  <2>2. QED
    BY <1>2, <2>1, QueuedBy DEF Tasks
<1>6. Queued \ Queued' \subseteq {x \in xs : requeued'[x] > DeliveryLimit}
  BY <1>3, <1>5, QueuedBy DEF Tasks
<1>7. Queued' = Queued \ (Queued \ Queued')
  BY <1>5
<1>8. requeued' = [x \in Promise!Tasks |-> IF x \in xs /\ requeued[x] <= DeliveryLimit
                                          THEN requeued[x] + 1 ELSE requeued[x]]
  BY DEF TakeBack, Tasks, Promise!Tasks
<1> HIDE DEF xs
<1>9. Promise!GiveBack(xs)
  BY <1>4, <1>6, <1>7, <1>8, ParkedSame DEF Promise!GiveBack, Pub
<1>10. xs \in SUBSET Promise!Tasks
  BY <1>4, <1>5 DEF Tasks, Promise!Tasks
<1>11. QED
  BY <1>9, <1>10 DEF Promise!Next

\* A connection that ends gives back what its handlers held.
LEMMA EndingMaps ==
  ASSUME RInv,
         \/ \E h \in Handlers : HandlerGivesUp(h)
         \/ \E p \in Procs : LoseConnection(p) \/ Crash(p)
  PROVE  Promise!Next
<1>a. RabbitTypeOK /\ row \in [Events -> OutboxRow] /\ ReturnsAreCounted
  BY DEF RInv, LInv, EInv, TypeOK, RelayTypeOK
<1>1. ASSUME NEW h \in Handlers, HandlerGivesUp(h)
      PROVE  Promise!Next
  <2>1. ProcOf(h) \in Procs /\ CloseConnection(h) /\ UNCHANGED <<row, consumerVars>>
    BY <1>1 DEF HandlerGivesUp, RetryUnroutable, RetryRefused, SettleClosed, Handlers, ProcOf
  <2>2. /\ TakeBack(ProcOf(h)) /\ UNCHANGED <<delayed, dead>>
        /\ job' = [Orphaned(ProcOf(h)) EXCEPT ![h] = IdleJob]
    BY <2>1 DEF CloseConnection
  <2>3. \A g \in Handlers : IF ProcOf(g) = ProcOf(h) THEN ~Held(g)' ELSE job'[g] = job[g]
    BY <1>a, <2>2 DEF Orphaned, Held, Busy, RabbitTypeOK, Job, BusyJob, IdleJob
  <2>4. QED
    BY <1>a, <2>1, <2>2, <2>3, PubSame, GiveBackMaps DEF consumerVars
<1>2. ASSUME NEW p \in Procs, LoseConnection(p)
      PROVE  Promise!Next
  <2>1. TakeBack(p) /\ UNCHANGED <<delayed, dead, row, done>> /\ job' = Orphaned(p)
    BY <1>2 DEF LoseConnection, consumerVars
  <2>2. \A g \in Handlers : IF ProcOf(g) = p THEN ~Held(g)' ELSE job'[g] = job[g]
    BY <1>a, <2>1 DEF Orphaned, Held, Busy, RabbitTypeOK, Job, BusyJob, IdleJob
  <2>3. QED
    BY <1>a, <2>1, <2>2, PubSame, GiveBackMaps
<1>3. ASSUME NEW p \in Procs, Crash(p)
      PROVE  Promise!Next
  <2>1. /\ TakeBack(p) /\ UNCHANGED <<delayed, dead, done>>
        /\ job' = [g \in Handlers |-> IF ProcOf(g) = p THEN IdleJob ELSE job[g]]
    BY <1>3 DEF Crash
  <2>2. \A g \in Handlers : IF ProcOf(g) = p THEN ~Held(g)' ELSE job'[g] = job[g]
    BY <2>1 DEF Held, Busy
  <2>3. \A e \in Events : row'[e].status = row[e].status
    <3> TAKE e \in Events
    <3>1. row'[e] = [row[e] EXCEPT !.lockedBy = IF row[e].lockedBy = p THEN Nobody
                                                ELSE row[e].lockedBy]
      BY <1>3 DEF Crash
    <3>2. CASE row[e].lockedBy = p
      BY <1>a, <3>1, <3>2 DEF OutboxRow
    <3>3. CASE row[e].lockedBy # p
      BY <1>a, <3>1, <3>3 DEF OutboxRow
    <3>4. QED
      BY <3>2, <3>3
  <2>4. Pub' = Pub
    BY <2>3 DEF Pub
  <2>5. QED
    BY <1>a, <2>1, <2>2, <2>4, GiveBackMaps
<1>4. QED
  BY <1>1, <1>2, <1>3

\* The broker moves copies, connections come back, leases run out: the promise does not
\* see it.
LEMMA EnvironmentMaps ==
  ASSUME RInv,
         \/ \E e \in Events : Append(e) /\ UNCHANGED consumerVars
         \/ \E q \in Queues, c \in Copies : DeliverTo(q, c)
         \/ BrokerStep \/ LeaseExpires
         \/ UNCHANGED vars
  PROVE  UNCHANGED promise
<1>a. RabbitTypeOK /\ row \in [Events -> OutboxRow]
  BY DEF RInv, LInv, EInv, TypeOK, RelayTypeOK
<1>0. ASSUME UNCHANGED <<ready, delayed, requeued, dead, job, done>>, Pub' = Pub
      PROVE  UNCHANGED promise
  <2>1. Queued' = Queued
    BY <1>0, QueuedQuiet DEF Held, Busy, EventOf
  <2>2. QED
    BY <1>0, <2>1, ParkedSame DEF promise
<1>1. ASSUME NEW e \in Events, Append(e), UNCHANGED consumerVars
      PROVE  UNCHANGED promise
  <2>1. Pub' = Pub
    BY <1>a, <1>1 DEF Append, OutboxRow, Pub
  <2>2. QED
    BY <1>0, <1>1, <2>1 DEF Append, rabbitVars, consumerVars
<1>2. ASSUME NEW q \in Queues, NEW c \in Copies, DeliverTo(q, c)
      PROVE  UNCHANGED promise
  <2>1. PICK h \in Handlers, n \in 0..DeliveryLimit : QueueOf(h) = q /\ Deliver(h, <<c, n>>)
    BY <1>2 DEF DeliverTo
  <2>2. PICK x \in Entries : x = <<c, n>>
    BY DEF Entries
  <2>3. /\ job[h] = IdleJob /\ ready[q][x] > 0 /\ UNCHANGED <<delayed, requeued, dead>>
        /\ job' = [job EXCEPT ![h] =
             [pc |-> "claim", copy |-> c, returns |-> n, held |-> TRUE]]
        /\ ready' = [ready EXCEPT ![q] = [ready[q] EXCEPT ![x] = ready[q][x] - 1]]
    BY <2>1, <2>2 DEF Deliver
  <2>4. UNCHANGED <<row, done>>
    BY <1>2 DEF DeliverTo, relayVars, consumerVars
  <2>5. \A r \in Queues, y \in Entries : r # q \/ y # x => ready'[r][y] = ready[r][y]
    BY <1>a, <2>3 DEF RabbitTypeOK
  <2>6. /\ job'[h] = [pc |-> "claim", copy |-> c, returns |-> n, held |-> TRUE]
        /\ \A g \in Handlers : g # h => job'[g] = job[g]
    BY <1>a, <2>3 DEF RabbitTypeOK
  <2>7. PICK e \in Events : e = c[1]
    BY DEF Copies
  <2>8. ~Held(h) /\ Held(h)' /\ EventOf(h)' = e
    BY <2>3, <2>6, <2>7 DEF Held, Busy, EventOf, IdleJob
  <2>9. UnderWay(q, e) /\ UnderWay(q, e)'
    BY <2>1, <2>2, <2>3, <2>7, <2>8 DEF UnderWay
  <2>10. ASSUME NEW r \in Queues, NEW f \in Events, r # q \/ f # e
         PROVE  UnderWay(r, f)' <=> UnderWay(r, f)
    <3>1. \A y \in Entries : y[1][1] = f => ready'[r][y] = ready[r][y]
      BY <2>2, <2>5, <2>7, <2>10
    <3>2. \A g \in Handlers : QueueOf(g) = r /\ Held(g)' /\ EventOf(g)' = f
                          <=> QueueOf(g) = r /\ Held(g) /\ EventOf(g) = f
      BY <2>1, <2>6, <2>8, <2>10 DEF Held, Busy, EventOf
    <3>3. QED
      BY <2>3, <3>1, <3>2 DEF UnderWay
  <2>11. Queued' = Queued
    BY <2>9, <2>10, QueuedSame
  <2>12. QED
    BY <2>3, <2>4, <2>11, ParkedSame, PubSame DEF promise
<1>3. ASSUME NEW c \in Copies, Expire(c), UNCHANGED <<relayVars, consumerVars>>
      PROVE  UNCHANGED promise
  <2>1. /\ delayed[c] > 0 /\ UNCHANGED <<requeued, dead, job, row, done>>
        /\ \A d \in Copies : d # c => delayed'[d] = delayed[d]
    BY <1>a, <1>3 DEF Expire, RabbitTypeOK, relayVars, consumerVars
  <2>2. \A q \in Queues, y \in Entries :
          /\ ready[q][y] \in Nat
          /\ ready'[q][y] = IF y = <<c, 0>> THEN ready[q][y] + 1 ELSE ready[q][y]
    BY <1>a, <1>3, RouteType DEF Expire, RabbitTypeOK
  <2>3. PICK e \in Events, x \in Entries : c[1] = e /\ x = <<c, 0>>
    BY EntryOf DEF Copies
  <2>4. ASSUME NEW q \in Queues
        PROVE  UnderWay(q, e) /\ UnderWay(q, e)'
    <3>1. ready'[q][x] > 0
      BY <2>2, <2>3
    <3>2. QED
      BY <2>1, <2>3, <3>1 DEF UnderWay
  <2>5. ASSUME NEW q \in Queues, NEW f \in Events, f # e
        PROVE  UnderWay(q, f)' <=> UnderWay(q, f)
    <3>1. \A y \in Entries : y[1][1] = f => ready'[q][y] = ready[q][y]
      BY <2>2, <2>3, <2>5
    <3>2. \A d \in Copies : d[1] = f => delayed'[d] = delayed[d]
      BY <2>1, <2>3, <2>5
    <3>3. QED
      BY <2>1, <3>1, <3>2 DEF UnderWay, Held, Busy, EventOf
  <2>6. Queued' = Queued
    BY <2>4, <2>5, QueuedSame
  <2>7. QED
    BY <2>1, <2>6, ParkedSame, PubSame DEF promise
<1>4. ASSUME NEW p \in Procs, Reconnect(p), UNCHANGED <<relayVars, consumerVars>>
      PROVE  UNCHANGED promise
  BY <1>0, <1>4, PubSame DEF Reconnect, relayVars, consumerVars
<1>5. ASSUME NEW e \in Events, RowLeaseExpires(e), UNCHANGED consumerVars
      PROVE  UNCHANGED promise
  <2>1. Pub' = Pub
    BY <1>a, <1>5 DEF RowLeaseExpires, OutboxRow, Pub
  <2>2. QED
    BY <1>0, <1>5, <2>1 DEF RowLeaseExpires, consumerVars
<1>6. ASSUME NEW x \in Tasks, InboxLeaseExpires(x), UNCHANGED relayVars
      PROVE  UNCHANGED promise
  BY <1>0, <1>6, PubSame DEF InboxLeaseExpires, relayVars
<1>7. CASE UNCHANGED vars
  BY <1>0, <1>7, PubSame DEF vars, rabbitVars, relayVars, consumerVars
<1>8. QED
  BY <1>1, <1>2, <1>3, <1>4, <1>5, <1>6, <1>7 DEF BrokerStep, LeaseExpires

\* Relay, broker and consumers implement AtLeastOnce, whatever crashes, connections that
\* break, leases that run out, refused messages and retries there are: a published event is
\* routed to every consumer, and a task leaves its queue after its effect, as a dead
\* letter, or when more deliveries of it were given back than the broker's limit allows.
THEOREM PromiseKept == Spec => ImplementsPromise
<1>1. Init => RInv
  <2> SUFFICES ASSUME Init PROVE RInv
    OBVIOUS
  <2>1. LInv /\ PublishedIsFree
    BY LossInit, FreeInit DEF FInv
  <2>2. Covered
    BY DEF Init, RabbitInit, Covered, Busy
  <2>3. QED
    BY <2>1, <2>2 DEF RInv
<1>2. RInv /\ [Next]_vars => RInv'
  BY CoveredInvariant
<1>3. Init => Promise!Init
  <2> SUFFICES ASSUME Init PROVE Promise!Init
    OBVIOUS
  <2>1. \A q \in Queues, e \in Events : ~UnderWay(q, e)
    <3> TAKE q \in Queues, e \in Events
    <3>1. /\ \A x \in Entries : ~(ready[q][x] > 0)
          /\ \A c \in Copies : ~(delayed[c] > 0)
      BY DEF Init, RabbitInit
    <3>2. \A h \in Handlers : ~Held(h)
      BY DEF Init, RabbitInit, Held, Busy
    <3>3. QED
      BY <3>1, <3>2, Zenon DEF UnderWay
  <2>2. Queued = {} /\ Parked = {} /\ done = {} /\ Pub = {}
    BY <2>1 DEF Init, RabbitInit, RelayInit, ConsumerInit, Queued, Parked, Pub, Tasks
  <2>3. requeued = [x \in Promise!Tasks |-> 0]
    BY DEF Init, RabbitInit, Promise!Tasks
  <2>4. QED
    BY <2>2, <2>3 DEF Promise!Init, Pub
<1>4. promise = Promise!vars
  BY DEF promise, Promise!vars, Pub
<1>5. RInv /\ [Next]_vars => [Promise!Next]_(Promise!vars)
  <2> SUFFICES ASSUME RInv, [Next]_vars PROVE [Promise!Next]_promise
    BY <1>4 DEF promise, Promise!vars, Pub
  <2>1. CASE \E p \in Procs : RelayStep(p)
    BY <2>1, RelayMaps
  <2>2. CASE \E h \in Handlers : HandlerStep(h)
    BY <2>2, HandlerMaps
  <2>3. CASE \/ \E e \in Events : Append(e) /\ UNCHANGED consumerVars
             \/ \E q \in Queues, c \in Copies : DeliverTo(q, c)
             \/ BrokerStep \/ LeaseExpires \/ UNCHANGED vars
    BY <2>3, EnvironmentMaps
  <2>4. CASE \/ \E h \in Handlers : HandlerGivesUp(h)
             \/ \E p \in Procs : LoseConnection(p) \/ Crash(p)
    BY <2>4, EndingMaps
  <2>5. QED
    BY <2>1, <2>2, <2>3, <2>4 DEF Next
<1>6. QED
  BY <1>1, <1>2, <1>3, <1>5, PTL DEF Spec, ImplementsPromise, Promise!Spec
=============================================================================
