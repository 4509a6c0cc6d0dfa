------------------------------ MODULE MCDelivery ------------------------------
(***************************************************************************)
(* Few processes, events and faults for TLC.                               *)
(***************************************************************************)
EXTENDS Delivery, TLC

Workers == Permutations(Procs)

\* The second row is written only where nothing has failed.
SecondRowOrFault == row[2].status = "NONE" \/ faults = 0

\* At most two copies of an event are on their way to or with a consumer.
FewCopies ==
  \A q \in Queues, e \in Events :
    Cardinality({x \in Entries : x[1][1] = e /\ ready[q][x] > 0})
      + Cardinality({c \in Copies : c[1] = e /\ delayed[c] > 0})
      + Cardinality({h \in Handlers : QueueOf(h) = q /\ Busy(h) /\ EventOf(h) = e}) <= 2
=============================================================================
