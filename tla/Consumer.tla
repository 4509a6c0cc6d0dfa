------------------------------- MODULE Consumer -------------------------------
(***************************************************************************)
(* RealtimeDispatchService.dispatch and SyncProjectionService.project, the *)
(* handlers of the two queues. Both claim a consumer_inbox_events row with *)
(* a lease, do their work, and mark the row; they differ in what the work  *)
(* is. The lease is the worker's, so all handlers of one process share it. *)
(***************************************************************************)
EXTENDS Rabbit

CONSTANT Broken   \* queues whose work fails every time

ASSUME ConsumerAssumption == Broken \subseteq Queues

VARIABLES
  inbox,  \* consumer_inbox_events, by consumer and event
  done    \* <<queue, event>> whose work has had its effect

consumerVars == <<inbox, done>>

Tasks == Queues \X Events

\* live: locked_until is in the future. lapsed is history: it did pass while a
\* handler was at work under this lease.
InboxRow ==
  [status : {"NONE", "PROCESSING", "PROCESSED"}, lockedBy : Procs \cup {Nobody},
   live : BOOLEAN, lapsed : BOOLEAN]

ConsumerTypeOK ==
  /\ inbox \in [Tasks -> InboxRow]
  /\ done \subseteq Tasks

ConsumerInit ==
  /\ inbox = [x \in Tasks |-> [status |-> "NONE", lockedBy |-> Nobody,
                               live |-> FALSE, lapsed |-> FALSE]]
  /\ done = {}

EventOf(h) == job[h].copy[1]

\* The key of the inbox row, (consumer_name, event_id).
TaskOf(h) == <<QueueOf(h), EventOf(h)>>

brokerVars == <<conn, ready, delayed, requeued, dead>>

Owns(h) == inbox[TaskOf(h)].lockedBy = ProcOf(h)

-----------------------------------------------------------------------------
\* The payload is not a supported event.
Reject(h) ==
  /\ At(h, "claim") /\ EventOf(h) \in Poison
  /\ Step(h, "fail")
  /\ UNCHANGED <<brokerVars, faults, consumerVars>>

\* Mutant: the lease of the row is not looked at.
UnclaimedOrLeased(x) == inbox[x].status # "PROCESSED"

Unclaimed(x) ==
  \/ inbox[x].status = "NONE"
  \/ inbox[x].status = "PROCESSING" /\ ~inbox[x].live

\* Mutant: the row is PROCESSED before the work is done.
ClaimInboxMarks(h) ==
  /\ At(h, "claim") /\ EventOf(h) \notin Poison
  /\ Unclaimed(TaskOf(h))
  /\ inbox' = [inbox EXCEPT ![TaskOf(h)] =
       [@ EXCEPT !.status = "PROCESSED", !.lockedBy = Nobody, !.live = FALSE]]
  /\ Step(h, "work")
  /\ UNCHANGED <<brokerVars, faults, done>>

ClaimInbox(h) ==
  /\ At(h, "claim") /\ EventOf(h) \notin Poison
  /\ Unclaimed(TaskOf(h))
  /\ inbox' = [inbox EXCEPT ![TaskOf(h)] =
       [@ EXCEPT !.status = "PROCESSING", !.lockedBy = ProcOf(h), !.live = TRUE]]
  /\ Step(h, "work")
  /\ UNCHANGED <<brokerVars, faults, done>>

FindProcessed(h) ==
  /\ At(h, "claim") /\ EventOf(h) \notin Poison
  /\ inbox[TaskOf(h)].status = "PROCESSED"
  /\ Step(h, "ack")
  /\ UNCHANGED <<brokerVars, faults, consumerVars>>

\* Mutant: a task that another handler is busy with is acknowledged.
FindBusyAcks(h) ==
  /\ At(h, "claim") /\ EventOf(h) \notin Poison
  /\ inbox[TaskOf(h)].status = "PROCESSING" /\ inbox[TaskOf(h)].live
  /\ Step(h, "ack")
  /\ UNCHANGED <<brokerVars, faults, consumerVars>>

FindBusy(h) ==
  /\ At(h, "claim") /\ EventOf(h) \notin Poison
  /\ inbox[TaskOf(h)].status = "PROCESSING" /\ inbox[TaskOf(h)].live
  /\ Step(h, "fail")
  /\ UNCHANGED <<brokerVars, faults, consumerVars>>

\* The events go out to the sockets; the feed rows of the audience are
\* committed (rows that are there already are kept).
Work(h) ==
  /\ At(h, "work") /\ QueueOf(h) \notin Broken
  /\ done' = done \cup {TaskOf(h)}
  /\ Step(h, "mark")
  /\ UNCHANGED <<brokerVars, faults, inbox>>

WorkFails(h) ==
  /\ At(h, "work")
  /\ FaultUnless(QueueOf(h) \in Broken)
  /\ Step(h, "release")
  /\ UNCHANGED <<brokerVars, consumerVars>>

Mark(h) ==
  /\ At(h, "mark")
  /\ inbox' = IF Owns(h)
              THEN [inbox EXCEPT ![TaskOf(h)] =
                     [@ EXCEPT !.status = "PROCESSED", !.lockedBy = Nobody, !.live = FALSE]]
              ELSE inbox
  /\ Step(h, "ack")
  /\ UNCHANGED <<brokerVars, faults, done>>

\* After a failure the lease is given up: locked_until = 1970.
Release(h) ==
  /\ At(h, "release")
  /\ inbox' = IF Owns(h) THEN [inbox EXCEPT ![TaskOf(h)].live = FALSE] ELSE inbox
  /\ Step(h, "fail")
  /\ UNCHANGED <<brokerVars, faults, done>>

\* A statement of the handler fails: the claim, the mark, or the release.
StatementFails(h) ==
  /\ Fault
  /\ \/ At(h, "claim") /\ EventOf(h) \notin Poison /\ Step(h, "fail")
     \/ At(h, "mark") /\ Step(h, "release")
     \/ At(h, "release") /\ Step(h, "fail")
  /\ UNCHANGED <<brokerVars, consumerVars>>

\* Handlers whose process holds the lease of task x and that are at it.
AtWork(x) ==
  {h \in Handlers : /\ QueueOf(h) = x[1] /\ ProcOf(h) = inbox[x].lockedBy
                    /\ job[h].pc \in {"work", "mark", "release"} /\ EventOf(h) = x[2]}

\* locked_until passes: a fault of timing if somebody is still at work.
InboxLeaseExpires(x) ==
  /\ inbox[x].status = "PROCESSING" /\ inbox[x].live
  /\ FaultUnless(AtWork(x) = {})
  /\ inbox' = [inbox EXCEPT ![x].live = FALSE, ![x].lapsed = @ \/ AtWork(x) # {}]
  /\ UNCHANGED <<brokerVars, job, done>>
=============================================================================
