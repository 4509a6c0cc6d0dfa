------------------------------ MODULE Messaging ------------------------------
(***************************************************************************)
(* Sending a message, advancing the delivered and read cursors, and        *)
(* clearing one's history: MessageCommandService.sendText,                 *)
(* ConversationCommandService.advanceReceipt and                           *)
(* AdvancedMessageCommandService.clearHistory.                             *)
(***************************************************************************)
EXTENDS Conversation

-----------------------------------------------------------------------------
(* sendText *)

\* Here and in the other modules, a definition marked "Mutant" is a faulty variant
\* that shows how a property can fail; nothing refers to it.

Posted(u, c) == {m \in messages : m.sender = u /\ m.cid = c}

\* Mutant: the content is not compared.
AnyPosted(u, c, b) == Posted(u, c)

\* assertDuplicateMatches: the row that already holds this client message id
\* has the same content hash, so the request is answered with it.
Matches(u, c, b) == {m \in Posted(u, c) : m.body = b}

Mentioned(b, u) == u \in Mention[b] \/ b \in MentionAll

\* The cursors and counters of every state row after message seq of sender u.
StateAfterSend(u, b, seq) ==
  [v \in Users |->
     IF ~state[v].exists THEN state[v]
     ELSE IF v = u
          THEN [state[v] EXCEPT !.delivered = Larger(@, seq), !.read = Larger(@, seq)]
          ELSE [state[v] EXCEPT !.unread = @ + 1,
                                !.mention = IF Mentioned(b, v) THEN @ + 1 ELSE @]]

\* The first look for a row with the same client message id finds none.
SendLookup(r, u, c, b) ==
  /\ req[r].pc = "idle"
  /\ Posted(u, c) = {}
  /\ req' = [req EXCEPT ![r] =
       [Idle EXCEPT !.pc = "members", !.user = u, !.cid = c, !.body = b]]
  /\ UNCHANGED <<conv, profile, member, state, messages, outbox, invites,
                 joinRequests, blocked, accepted>>

\* It finds one with the same content: a retry of what was already accepted.
SendRepeat(r, u, c, b) ==
  /\ req[r].pc = "idle"
  /\ \E m \in Matches(u, c, b) :
       req' = [req EXCEPT ![r] =
         [Idle EXCEPT !.pc = "answer", !.user = u, !.cid = c, !.body = b, !.seq = m.seq]]
  /\ UNCHANGED <<conv, profile, member, state, messages, outbox, invites,
                 joinRequests, blocked, accepted>>

\* assertMaySend reads the conversation and its active members, unlocked.
SendReadMembers(r) ==
  LET u == req[r].user IN
  /\ req[r].pc = "members"
  /\ conv.status = "ACTIVE"
  /\ IsActive(u)
  /\ ~(member[u].muted /\ member[u].role = "MEMBER")
  /\ ConvType = "DIRECT" => Cardinality(Active) = 2
  /\ req' = [req EXCEPT ![r].pc = "policy", ![r].audience = Active,
                        ![r].role = member[u].role]
  /\ UNCHANGED <<conv, profile, member, state, messages, outbox, invites,
                 joinRequests, blocked, accepted>>

\* ... and then the blocks table, or the group profile, with the member rows
\* it read before.
SendReadPolicy(r) ==
  LET b == req[r].body IN
  /\ req[r].pc = "policy"
  /\ IF ConvType = "DIRECT"
     THEN Mention[b] = {} /\ b \notin MentionAll /\ ~blocked
     ELSE /\ ~(profile.allMembersMuted /\ req[r].role = "MEMBER")
          /\ Mention[b] \subseteq req[r].audience
  /\ req' = [req EXCEPT ![r].pc = "allocate"]
  /\ UNCHANGED <<conv, profile, member, state, messages, outbox, invites,
                 joinRequests, blocked, accepted>>

\* Mutant: no unique index.
SendCommitWithoutIndex(r) ==
  LET q == req[r] IN
  /\ q.pc = "allocate"
  /\ AppendMessage(conv, q.user, q.cid, q.body, q.audience)
  /\ state' = StateAfterSend(q.user, q.body, conv.lastSeq + 1)
  /\ req' = [req EXCEPT ![r].pc = "answer", ![r].seq = conv.lastSeq + 1]
  /\ UNCHANGED <<profile, member, invites, joinRequests, blocked, accepted>>

\* From UPDATE conversations to COMMIT; the unique index on
\* (sender_id, client_message_id) admits one row.
SendCommit(r) ==
  LET q == req[r] IN
  /\ q.pc = "allocate"
  /\ Posted(q.user, q.cid) = {}
  /\ AppendMessage(conv, q.user, q.cid, q.body, q.audience)
  /\ state' = StateAfterSend(q.user, q.body, conv.lastSeq + 1)
  /\ req' = [req EXCEPT ![r].pc = "answer", ![r].seq = conv.lastSeq + 1]
  /\ UNCHANGED <<profile, member, invites, joinRequests, blocked, accepted>>

\* Mutant: the event survives the rollback.
SendDuplicateKeepsEvent(r) ==
  LET q == req[r] IN
  /\ q.pc = "allocate"
  /\ conv.status = "ACTIVE"
  /\ outbox' = outbox \cup {Created(conv.lastSeq + 1, q.audience)}
  /\ \E m \in Matches(q.user, q.cid, q.body) :
       req' = [req EXCEPT ![r].pc = "answer", ![r].seq = m.seq]
  /\ UNCHANGED <<conv, profile, member, state, messages, invites,
                 joinRequests, blocked, accepted>>

\* The index rejects the row: the transaction rolls back, its seq included,
\* and the row that won is the answer if its content is the same.
SendDuplicate(r) ==
  LET q == req[r] IN
  /\ q.pc = "allocate"
  /\ conv.status = "ACTIVE"
  /\ \E m \in Matches(q.user, q.cid, q.body) :
       req' = [req EXCEPT ![r].pc = "answer", ![r].seq = m.seq]
  /\ UNCHANGED <<conv, profile, member, state, messages, outbox, invites,
                 joinRequests, blocked, accepted>>

\* The client receives MessageAccepted.
SendAnswer(r) ==
  /\ req[r].pc = "answer"
  /\ accepted' = accepted \cup {[user |-> req[r].user, cid |-> req[r].cid,
                                 body |-> req[r].body, seq |-> req[r].seq]}
  /\ Finish(r)
  /\ UNCHANGED <<conv, profile, member, state, messages, outbox, invites,
                 joinRequests, blocked>>

\* A check throws an AppError, the database aborts the transaction, or the
\* process or the connection is lost: a transaction that has not committed
\* leaves nothing, a committed one leaves its rows and no answer.
Abort(r) ==
  /\ req[r].pc # "idle"
  /\ Finish(r)
  /\ UNCHANGED <<conv, profile, member, state, messages, outbox, invites,
                 joinRequests, blocked, accepted>>

-----------------------------------------------------------------------------
(* advanceReceipt: conversations FOR SHARE keeps senders out, the state row *)
(* FOR UPDATE keeps the user's other devices out.                           *)

Receipt(u, deliveredTo, readTo, unreadNow) ==
  /\ conv.status = "ACTIVE" /\ IsActive(u) /\ state[u].exists
  /\ deliveredTo # state[u].delivered \/ readTo # state[u].read
  /\ state' = [state EXCEPT ![u].delivered = deliveredTo, ![u].read = readTo,
                            ![u].unread = unreadNow]
  /\ outbox' = outbox \cup {[type |-> "receipt.updated", user |-> u]}
  /\ UNCHANGED <<conv, profile, member, messages, invites, joinRequests,
                 blocked, req, accepted>>

MarkDelivered(u, seq) ==
  /\ seq <= conv.lastSeq
  /\ Receipt(u, Larger(state[u].delivered, seq), state[u].read, state[u].unread)

\* Mutant: a cursor beyond last_seq is accepted.
MarkReadUnchecked(u, seq) ==
  LET readTo == Larger(state[u].read, seq) IN
  Receipt(u, Larger(Larger(state[u].delivered, seq), readTo), readTo,
          UnreadAfter(u, readTo))

\* Mutant: unread_count is set to zero.
MarkReadZeroes(u, seq) ==
  LET readTo == Larger(state[u].read, seq) IN
  /\ seq <= conv.lastSeq
  /\ Receipt(u, Larger(Larger(state[u].delivered, seq), readTo), readTo, 0)

\* mention_count is left alone.
MarkRead(u, seq) ==
  LET readTo == Larger(state[u].read, seq) IN
  /\ seq <= conv.lastSeq
  /\ Receipt(u, Larger(Larger(state[u].delivered, seq), readTo), readTo,
             UnreadAfter(u, readTo))

-----------------------------------------------------------------------------
(* clearHistory: last_seq is read without a lock, the state row is locked   *)
(* by a later statement.                                                    *)

ClearRead(r, u) ==
  /\ req[r].pc = "idle"
  /\ conv.status = "ACTIVE" /\ IsActive(u)
  /\ req' = [req EXCEPT ![r] =
       [Idle EXCEPT !.pc = "clear", !.user = u, !.seq = conv.lastSeq]]
  /\ UNCHANGED <<conv, profile, member, state, messages, outbox, invites,
                 joinRequests, blocked, accepted>>

ClearWrite(r) ==
  LET u == req[r].user
      upTo == Larger(state[u].clear, req[r].seq)
  IN
  /\ req[r].pc = "clear"
  /\ state[u].exists
  /\ state' = [state EXCEPT ![u].clear = upTo, ![u].unread = 0, ![u].mention = 0]
  /\ outbox' = outbox \cup {[type |-> "conversation.updated", user |-> u]}
  /\ Finish(r)
  /\ UNCHANGED <<conv, profile, member, messages, invites, joinRequests,
                 blocked, accepted>>

-----------------------------------------------------------------------------
\* The contact service adds or deletes a blocks row between the two parties.
SetBlocked ==
  /\ ConvType = "DIRECT"
  /\ blocked' = ~blocked
  /\ UNCHANGED <<conv, profile, member, state, messages, outbox, invites,
                 joinRequests, req, accepted>>

MessagingNext ==
  \/ \E r \in Requests, u \in Users, c \in ClientIds, b \in Bodies :
       SendLookup(r, u, c, b) \/ SendRepeat(r, u, c, b)
  \/ \E r \in Requests :
       \/ SendReadMembers(r) \/ SendReadPolicy(r) \/ SendCommit(r)
       \/ SendDuplicate(r) \/ SendAnswer(r) \/ Abort(r) \/ ClearWrite(r)
  \/ \E r \in Requests, u \in Users : ClearRead(r, u)
  \/ \E u \in Users, seq \in 0..MaxSeq : MarkDelivered(u, seq) \/ MarkRead(u, seq)
  \/ SetBlocked
=============================================================================
