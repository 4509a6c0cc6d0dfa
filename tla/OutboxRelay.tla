----------------------------- MODULE OutboxRelay -----------------------------
(***************************************************************************)
(* OutboxRelayService: each process claims due rows of outbox_events with  *)
(* a lease, publishes them one after the other in the order of created_at, *)
(* and records the outcome in the row if it still holds the lease.         *)
(***************************************************************************)
EXTENDS Rabbit

CONSTANTS
  MaxAttempts,  \* outboxMaxAttempts
  BatchSize     \* outboxBatchSize

ASSUME RelayAssumption == MaxAttempts \in Nat \ {0} /\ BatchSize \in Nat \ {0}

VARIABLES
  row,    \* outbox_events rows
  relay   \* the iteration each process is in

relayVars == <<row, relay>>

\* live: locked_until is in the future.
OutboxRow ==
  [status : {"NONE", "PENDING", "PROCESSING", "PUBLISHED", "FAILED"},
   lockedBy : Procs \cup {Nobody}, live : BOOLEAN, attempts : Nat]

\* "hung" waits for a confirm that no longer can come.
Iteration ==
  [pc : {"idle", "publish", "confirm", "mark", "error", "hung"}, batch : SUBSET Events]

NoIteration == [pc |-> "idle", batch |-> {}]

RelayTypeOK == row \in [Events -> OutboxRow] /\ relay \in [Procs -> Iteration]

RelayInit ==
  /\ row = [e \in Events |-> [status |-> "NONE", lockedBy |-> Nobody,
                              live |-> FALSE, attempts |-> 0]]
  /\ relay = [p \in Procs |-> NoIteration]

-----------------------------------------------------------------------------
\* A command commits, and with it the event it appended to the outbox.
Append(e) ==
  /\ row[e].status = "NONE"
  /\ row' = [row EXCEPT ![e].status = "PENDING"]
  /\ UNCHANGED <<relay, rabbitVars>>

\* Mutant: the rows of a crashed relay are left to it.
DueOnce(e) == row[e].status = "PENDING"

Due(e) ==
  \/ row[e].status = "PENDING"
  \/ row[e].status = "PROCESSING" /\ ~row[e].live

\* Some of the rows that are due: available_at may keep back a pending one,
\* and SKIP LOCKED those that another process is claiming at this moment.
Lease(p, batch) ==
  /\ relay[p].pc = "idle" /\ conn[p]
  /\ batch # {} /\ Cardinality(batch) <= BatchSize
  /\ \A e \in batch : Due(e)
  /\ row' = [e \in Events |->
               IF e \in batch
               THEN [row[e] EXCEPT !.status = "PROCESSING", !.lockedBy = p, !.live = TRUE]
               ELSE row[e]]

Claim(p, batch) ==
  /\ Lease(p, batch)
  /\ relay' = [relay EXCEPT ![p] = [pc |-> "publish", batch |-> batch]]
  /\ UNCHANGED rabbitVars

\* The rows are claimed but reading them fails.
ClaimUnread(p, batch) ==
  /\ Lease(p, batch)
  /\ Fault
  /\ UNCHANGED <<relay, conn, ready, delayed, requeued, dead, job>>

\* The event the iteration is at.
Current(p) == CHOOSE e \in relay[p].batch : \A f \in relay[p].batch : e <= f

Holds(p, e) == row[e].lockedBy = p

Goto(p, pc) == relay' = [relay EXCEPT ![p].pc = pc]

NextInBatch(p) ==
  relay' = [relay EXCEPT ![p] =
    IF relay[p].batch = {Current(p)} THEN NoIteration
    ELSE [pc |-> "publish", batch |-> relay[p].batch \ {Current(p)}]]

Publish(p) ==
  /\ relay[p].pc = "publish" /\ conn[p]
  /\ RouteDomain(<<Current(p), 0>>)
  /\ Goto(p, "confirm")
  /\ UNCHANGED <<row, conn, delayed, requeued, dead, job, faults>>

\* There is no confirm channel, or the broker refuses the message.
PublishRefused(p) ==
  /\ relay[p].pc = "publish"
  /\ FaultUnless(~conn[p])
  /\ Goto(p, "error")
  /\ UNCHANGED <<row, conn, ready, delayed, requeued, dead, job>>

Confirmed(p) ==
  /\ relay[p].pc = "confirm"
  /\ Goto(p, "mark")
  /\ UNCHANGED <<row, rabbitVars>>

\* What a lost connection does to a confirm that is outstanding: the callback
\* may be called with an error or not at all.
Unconfirmed(p) ==
  IF relay[p].pc = "confirm" THEN Goto(p, "error") \/ Goto(p, "hung")
  ELSE UNCHANGED relay

Published(e) ==
  [row[e] EXCEPT !.status = "PUBLISHED", !.lockedBy = Nobody, !.live = FALSE]

MarkPublished(p) ==
  /\ relay[p].pc = "mark"
  /\ row' = IF Holds(p, Current(p))
            THEN [row EXCEPT ![Current(p)] = Published(Current(p))] ELSE row
  /\ NextInBatch(p)
  /\ UNCHANGED rabbitVars

\* The update to PUBLISHED fails.
MarkFails(p) ==
  /\ relay[p].pc = "mark"
  /\ Fault
  /\ Goto(p, "error")
  /\ UNCHANGED <<row, conn, ready, delayed, requeued, dead, job>>

\* Mutant: a status that the table does not know.
UnpublishedMisspelt(e) ==
  LET tried == row[e].attempts + 1 IN
  [status |-> IF tried >= MaxAttempts THEN "DEAD" ELSE "PENDING",
   lockedBy |-> Nobody, live |-> FALSE, attempts |-> tried]

Unpublished(e) ==
  LET tried == row[e].attempts + 1 IN
  [status |-> IF tried >= MaxAttempts THEN "FAILED" ELSE "PENDING",
   lockedBy |-> Nobody, live |-> FALSE, attempts |-> tried]

\* Mutant: the row is written whoever holds it.
RecordErrorUnguarded(p) ==
  /\ relay[p].pc = "error"
  /\ row' = [row EXCEPT ![Current(p)] = Unpublished(Current(p))]
  /\ NextInBatch(p)
  /\ UNCHANGED rabbitVars

\* attempts was read with the claim, and is still that while the row is locked
\* by this worker.
RecordError(p) ==
  /\ relay[p].pc = "error"
  /\ row' = IF Holds(p, Current(p))
            THEN [row EXCEPT ![Current(p)] = Unpublished(Current(p))] ELSE row
  /\ NextInBatch(p)
  /\ UNCHANGED rabbitVars

\* Recording the error fails too, and the rest of the batch is dropped.
Abandon(p) ==
  /\ relay[p].pc = "error"
  /\ Fault
  /\ relay' = [relay EXCEPT ![p] = NoIteration]
  /\ UNCHANGED <<row, conn, ready, delayed, requeued, dead, job>>

\* Is somebody still going to record the outcome of row e?
Attended(e) ==
  \E p \in Procs : Holds(p, e) /\ e \in relay[p].batch /\ relay[p].pc # "hung"

\* locked_until passes: a fault of timing if the holder is still at it.
RowLeaseExpires(e) ==
  /\ row[e].status = "PROCESSING" /\ row[e].live
  /\ FaultUnless(~Attended(e))
  /\ row' = [row EXCEPT ![e].live = FALSE]
  /\ UNCHANGED <<relay, conn, ready, delayed, requeued, dead, job>>
=============================================================================
