------------------------------ MODULE MessageLog ------------------------------
(***************************************************************************)
(* What a conversation promises to its clients, with nothing of how it is  *)
(* done: one totally ordered log, in which a clientMessageId of a sender   *)
(* occurs at most once however often it is sent, and answers that name     *)
(* the position of the entry they are about.                               *)
(***************************************************************************)
EXTENDS Integers, Sequences

CONSTANTS Users, ClientIds, Bodies, SystemId, SystemBody

VARIABLES log, acked

Item(u, c, b) == [sender |-> u, cid |-> c, body |-> b]

Init == log = <<>> /\ acked = {}

\* A client's message enters the log the first time only.
Post(u, c, b) ==
  /\ \A i \in DOMAIN log : ~(log[i].sender = u /\ log[i].cid = c)
  /\ log' = Append(log, Item(u, c, b))
  /\ UNCHANGED acked

\* A group command records itself.
Note(u) ==
  /\ log' = Append(log, Item(u, SystemId, SystemBody))
  /\ UNCHANGED acked

\* A client is told where its message is.
Acknowledge(u, c, b) ==
  /\ \E i \in DOMAIN log :
       /\ log[i] = Item(u, c, b)
       /\ acked' = acked \cup {[user |-> u, cid |-> c, body |-> b, seq |-> i]}
  /\ UNCHANGED log

Next ==
  \/ \E u \in Users, c \in ClientIds, b \in Bodies : Post(u, c, b) \/ Acknowledge(u, c, b)
  \/ \E u \in Users : Note(u)

Spec == Init /\ [][Next]_<<log, acked>>
=============================================================================
