--------------------------------- MODULE Chat ---------------------------------
(***************************************************************************)
(* One conversation as a whole: everything clients do to its messages and  *)
(* cursors (Messaging) interleaved with everything that is done to its     *)
(* membership (Group).                                                     *)
(***************************************************************************)
EXTENDS Messaging, Group

Next == MessagingNext \/ GroupNext

Spec == Init /\ [][Next]_vars

-----------------------------------------------------------------------------
(* What the sequence numbers and client message ids promise.               *)

\* The last seq ever given out: disband leaves last_seq one behind it.
HighestSeq == IF conv.status = "ACTIVE" THEN conv.lastSeq ELSE conv.lastSeq + 1

\* The seqs of a conversation are 1, 2, 3, ... without a gap, although
\* transactions that allocated one roll back, and no two messages share one
\* (UPDATE ... RETURNING last_seq, messages_conversation_id_seq_key).
SeqsAreDense ==
  /\ {m.seq : m \in messages} = 1..HighestSeq
  /\ \A m1, m2 \in messages : m1.seq = m2.seq => m1 = m2

\* However its requests race, a clientMessageId of a sender becomes one message
\* (the lookup before the transaction's work and the unique index behind it).
NoDuplicateMessage ==
  \A m1, m2 \in messages :
    m1.sender = m2.sender /\ m1.cid = m2.cid /\ m1.cid # SystemId => m1 = m2

\* MessageAccepted is only said of a committed message with the content that
\* client sent, and always of the same message (INV-MSG-001, AC-MSG-002).
AcceptedIsCommitted ==
  \A a \in accepted :
    [seq |-> a.seq, sender |-> a.user, cid |-> a.cid, body |-> a.body] \in messages

\* All answers a client ever gets for one clientMessageId name one message with
\* one content, over any number of retries and handlers.
AnswersAgree ==
  \A a1, a2 \in accepted : a1.user = a2.user /\ a1.cid = a2.cid => a1 = a2

\* Each message has exactly one message.created event, and no event is about
\* a message that was rolled back (the outbox row is in the transaction).
OneEventPerMessage ==
  LET created == {e \in outbox : e.type = "message.created"} IN
  /\ {e.seq : e \in created} = {m.seq : m \in messages}
  /\ \A e1, e2 \in created : e1.seq = e2.seq => e1 = e2

\* However its requests race and roll back, a clientMessageId becomes one message,
\* and that one event.
MessagesHappenOnce == NoDuplicateMessage /\ OneEventPerMessage

\* A client is told of what is committed, and every time the same: retries that race,
\* the unique index behind them and lost answers included.
AnswersAreTrue == AcceptedIsCommitted /\ AnswersAgree

-----------------------------------------------------------------------------
(* Cursors and counters.                                                   *)

\* read <= delivered <= last_seq, also for somebody who sent, left and joined
\* again in between; the first half is a CHECK of conversation_user_states,
\* which would abort the transaction that broke it.
CursorsInOrder ==
  \A u \in Users :
    /\ state[u].read <= state[u].delivered
    /\ state[u].delivered <= conv.lastSeq
    /\ state[u].clear <= conv.lastSeq

\* The delivered and read cursors of a user never move back, whoever writes
\* them: receipts, the user's own messages, or addMember's upsert on a return.
CursorsOnlyAdvance ==
  [][\A u \in Users : /\ state'[u].delivered >= state[u].delivered
                      /\ state'[u].read >= state[u].read]_vars

\* Until a user clears a history (an event tells), unread_count never understates
\* what the user has not read: the cached counter that sends increment against
\* the count that READ takes, whatever order they come in.
UnreadCoversUnseen ==
  \A u \in Active :
    [type |-> "conversation.updated", user |-> u] \notin outbox
      => state[u].unread >= UnreadAfter(u, state[u].read)

-----------------------------------------------------------------------------
(* Membership.                                                             *)

\* Whoever is an active member can be sent to: the state row is there.
MembersHaveState == \A u \in Active : state[u].exists

\* At most one member is OWNER, and owner_id names that member.
AtMostOneOwner ==
  \A u \in Active : member[u].role = "OWNER" => conv.owner = u

\* Whatever the order of invites, joins, removals and transfers, nobody is a member
\* that no message can be sent to, and nobody an owner that the group does not name.
MembersAreSound == MembersHaveState /\ AtMostOneOwner

\* member_count is never below the number of active members.
CountCoversMembers == conv.memberCount >= Cardinality(Active)

\* Nobody but a joiner of an OPEN group becomes the member that makes the
\* group larger than max_members, whenever the invite or the request was made.
JoinsRespectLimit ==
  [][(\E u \in Users : ~IsActive(u) /\ IsActive(u)') /\ profile.joinMode # "OPEN"
       => Cardinality(Active) < profile.maxMembers]_vars

\* Deleting is final: nothing is posted and nobody is a member afterwards, also
\* not by a sender that had passed its checks before.
DeletedIsFinal ==
  [][conv.status = "DELETED" =>
       UNCHANGED <<conv, messages>> /\ \A u \in Users : ~IsActive(u)']_vars

-----------------------------------------------------------------------------
(* What the invariants above rest on.                                      *)

\* A handler that is about to answer holds the seq of a committed message with
\* its content; one that is about to clear has seen a last_seq of the past.
HandlersAreSound ==
  \A r \in Requests :
    /\ req[r].pc = "answer" =>
         [seq |-> req[r].seq, sender |-> req[r].user, cid |-> req[r].cid,
          body |-> req[r].body] \in messages
    /\ req[r].pc = "clear" => req[r].seq <= conv.lastSeq

\* A deleted group has no members, and only a group is ever deleted.
DeletedIsEmpty == conv.status = "DELETED" => Active = {}

-----------------------------------------------------------------------------
(* Statements of the documents that the code does not keep.                *)

\* spec.md INV-GROUP-001: a removed member loses the right to send at once.
RemovedCannotPost ==
  [][\A m \in messages' \ messages :
       CountsUnread(m) => member[m.sender].status # "REMOVED"]_vars

\* leave: "Owner must transfer ownership before leaving", so a live group always
\* has an active member with the role OWNER.
GroupHasOwner ==
  conv.status = "ACTIVE" /\ ConvType = "GROUP"
    => \E u \in Active : member[u].role = "OWNER"

-----------------------------------------------------------------------------
(* The log that the rows of messages make up, and the abstract machine it  *)
(* implements.                                                             *)

At(seq) == CHOOSE m \in messages : m.seq = seq

Entry(m) == [sender |-> m.sender, cid |-> m.cid, body |-> m.body]

Posts == [s \in 1..HighestSeq |-> Entry(At(s))]

Log == INSTANCE MessageLog WITH log <- Posts, acked <- accepted

\* Whatever the handlers, retries and group commands do to the rows, their
\* clients see one log to which entries are appended once, and answers that
\* name their positions.
ImplementsLog == Log!Spec
=============================================================================
