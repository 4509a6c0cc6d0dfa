------------------------------ MODULE ChatProofs ------------------------------
(***************************************************************************)
(* Proofs about the messages of a conversation, for every set of users,    *)
(* requests and ids and for conversations of both types: the log and its   *)
(* seqs, what clients are told, where the cursors stand, and the abstract  *)
(* log that all of it implements.                                          *)
(***************************************************************************)
EXTENDS Chat, FiniteSetTheorems, SequenceTheorems, TLAPS

\* The invariant that is inductive with the type of the rows.
FiniteRows == IsFiniteSet(messages)

LEMMA LargerType == \A a, b \in Nat : Larger(a, b) \in Nat
  BY DEF Larger

LEMMA UnreadType ==
  ASSUME FiniteRows, NEW u, NEW s
  PROVE  UnreadAfter(u, s) \in Nat
<1> DEFINE M == {m \in messages : m.seq > s /\ m.sender # u /\ CountsUnread(m)}
<1>1. IsFiniteSet(M)
  BY FS_Subset DEF FiniteRows
<1>2. QED
  BY <1>1, FS_CardinalityType DEF UnreadAfter

LEMMA InitType == Init => TypeOK /\ FiniteRows
<1> SUFFICES ASSUME Init PROVE TypeOK /\ FiniteRows
  OBVIOUS
<1> USE ConversationAssumption
<1>1. Cardinality(Founders) \in Nat
  BY FS_Subset, FS_CardinalityType
<1>2. IsFiniteSet(messages)
  BY FS_EmptySet DEF Init
<1>3. conv \in ConvRow
  BY <1>1 DEF Init, ConvRow
<1>4. member \in [Users -> MemberRow]
  BY DEF Init, MemberRow, Roles
<1>5. state \in [Users -> StateRow]
  <2> SUFFICES ASSUME NEW u \in Users
               PROVE  [FreshState(0) EXCEPT !.exists = u \in Founders] \in StateRow
    BY DEF Init
  <2>1. (u \in Founders) \in BOOLEAN
    OBVIOUS
  <2>2. \A e \in BOOLEAN : [FreshState(0) EXCEPT !.exists = e] \in StateRow
    BY DEF StateRow, FreshState
  <2>3. QED
    BY <2>1, <2>2, Zenon
<1>6. outbox \subseteq EventRow
  BY DEF Init, EventRow
<1>7. req \in [Requests -> Request]
  BY DEF Init, Request
<1>8. QED
  BY <1>2, <1>3, <1>4, <1>5, <1>6, <1>7 DEF Init, TypeOK, FiniteRows

LEMMA AppendType ==
  ASSUME TypeOK, FiniteRows, NEW c \in ConvRow, NEW s \in Users,
         NEW i \in ClientIds \cup {SystemId}, NEW b \in Bodies \cup {SystemBody},
         NEW a \in SUBSET Users, AppendMessage(c, s, i, b, a)
  PROVE  conv' \in ConvRow /\ messages' \subseteq MessageRow /\ outbox' \subseteq EventRow
         /\ FiniteRows'
<1> USE DEF TypeOK, AppendMessage
<1>1. conv.lastSeq + 1 \in Nat
  BY DEF ConvRow
<1>2. conv' \in ConvRow
  BY <1>1 DEF ConvRow
<1>3. messages' \subseteq MessageRow
  BY <1>1 DEF MessageRow
<1>4. outbox' \subseteq EventRow
  BY <1>1 DEF EventRow, Created
<1>5. FiniteRows'
  BY FS_AddElement DEF FiniteRows
<1>6. QED
  BY <1>2, <1>3, <1>4, <1>5

-----------------------------------------------------------------------------
(* Type correctness, one lemma per kind of step.                           *)

Typed == TypeOK /\ FiniteRows

\* What a handler in the middle of a send holds.
SendRequest == [pc : {"members", "policy", "allocate", "answer"}, user : Users,
                cid : ClientIds, body : Bodies, role : Roles,
                audience : SUBSET Users, seq : Nat]

LEMMA RequestCases ==
  ASSUME TypeOK, NEW r \in Requests
  PROVE  /\ req[r].pc \in {"members", "policy", "allocate", "answer"} => req[r] \in SendRequest
         /\ req[r].pc = "clear" => req[r].user \in Users /\ req[r].seq \in Nat
  BY DEF TypeOK, Request, SendRequest, Idle

LEMMA SendIsRequest == SendRequest \subseteq Request /\ Idle \in Request
  BY DEF SendRequest, Request

\* A step that moves one handler on and leaves the database alone.
LEMMA HandlerType ==
  ASSUME Typed, NEW r \in Requests, NEW q \in Request, req' = [req EXCEPT ![r] = q],
         UNCHANGED <<conv, profile, member, state, messages, outbox, invites,
                     joinRequests, blocked>>,
         accepted' \subseteq [user : Users, cid : ClientIds, body : Bodies, seq : Nat]
  PROVE  Typed'
  BY DEF Typed, TypeOK, FiniteRows

LEMMA SendStartType ==
  ASSUME Typed, NEW r \in Requests, NEW u \in Users, NEW c \in ClientIds, NEW b \in Bodies,
         SendLookup(r, u, c, b) \/ SendRepeat(r, u, c, b)
  PROVE  Typed'
<1>a. accepted \subseteq [user : Users, cid : ClientIds, body : Bodies, seq : Nat]
  BY DEF Typed, TypeOK
<1>b. \A m \in messages : m.seq \in Nat
  BY DEF Typed, TypeOK, MessageRow
<1>1. CASE SendLookup(r, u, c, b)
  <2> DEFINE q == [Idle EXCEPT !.pc = "members", !.user = u, !.cid = c, !.body = b]
  <2>1. q \in Request
    BY DEF Request, Idle, Roles
  <2>2. QED
    BY <1>1, <1>a, <2>1, HandlerType DEF SendLookup
<1>2. CASE SendRepeat(r, u, c, b)
  <2>1. PICK m \in Matches(u, c, b) :
          req' = [req EXCEPT ![r] =
            [Idle EXCEPT !.pc = "answer", !.user = u, !.cid = c, !.body = b, !.seq = m.seq]]
    BY <1>2 DEF SendRepeat
  <2> DEFINE q == [Idle EXCEPT !.pc = "answer", !.user = u, !.cid = c, !.body = b,
                               !.seq = m.seq]
  <2>2. m.seq \in Nat
    BY <1>b DEF Matches, Posted
  <2>3. q \in Request
    BY <2>2 DEF Request, Idle, Roles
  <2>4. QED
    BY <1>2, <1>a, <2>1, <2>3, HandlerType DEF SendRepeat
<1>3. QED
  BY <1>1, <1>2

LEMMA SendStepType ==
  ASSUME Typed, NEW r \in Requests,
         \/ SendReadMembers(r) \/ SendReadPolicy(r) \/ SendDuplicate(r)
         \/ SendAnswer(r) \/ Abort(r)
  PROVE  Typed'
<1>a. accepted \subseteq [user : Users, cid : ClientIds, body : Bodies, seq : Nat]
  BY DEF Typed, TypeOK
<1>b. \A m \in messages : m.seq \in Nat
  BY DEF Typed, TypeOK, MessageRow
<1>c. TypeOK
  BY DEF Typed
<1>3. CASE SendReadMembers(r)
  <2> DEFINE q == [req[r] EXCEPT !.pc = "policy", !.audience = Active,
                                 !.role = member[req[r].user].role]
  <2>1. req[r] \in SendRequest
    BY <1>3, <1>c, RequestCases DEF SendReadMembers
  <2>2. member[req[r].user].role \in Roles
    BY <2>1, <1>c DEF TypeOK, MemberRow, SendRequest
  <2>3. q \in Request
    BY <2>1, <2>2, SendIsRequest DEF SendRequest, Active
  <2>4. req' = [req EXCEPT ![r] = q]
    BY <1>3 DEF SendReadMembers
  <2>5. QED
    BY <1>3, <1>a, <2>3, <2>4, HandlerType DEF SendReadMembers
<1>4. CASE SendReadPolicy(r)
  <2> DEFINE q == [req[r] EXCEPT !.pc = "allocate"]
  <2>1. req[r] \in SendRequest
    BY <1>4, <1>c, RequestCases DEF SendReadPolicy
  <2>2. q \in Request
    BY <2>1, SendIsRequest DEF SendRequest
  <2>3. req' = [req EXCEPT ![r] = q]
    BY <1>4 DEF SendReadPolicy
  <2>4. QED
    BY <1>4, <1>a, <2>2, <2>3, HandlerType DEF SendReadPolicy
<1>5. CASE SendDuplicate(r)
  <2>1. PICK m \in Matches(req[r].user, req[r].cid, req[r].body) :
          req' = [req EXCEPT ![r].pc = "answer", ![r].seq = m.seq]
    BY <1>5 DEF SendDuplicate
  <2> DEFINE q == [req[r] EXCEPT !.pc = "answer", !.seq = m.seq]
  <2>2. m.seq \in Nat
    BY <1>b DEF Matches, Posted
  <2>3. req[r] \in SendRequest
    BY <1>5, <1>c, RequestCases DEF SendDuplicate
  <2>4. q \in Request
    BY <2>2, <2>3, SendIsRequest DEF SendRequest
  <2>5. req' = [req EXCEPT ![r] = q]
    BY <2>1
  <2>6. QED
    BY <1>5, <1>a, <2>4, <2>5, HandlerType DEF SendDuplicate
<1>6. CASE SendAnswer(r)
  <2>1. req[r] \in SendRequest
    BY <1>6, <1>c, RequestCases DEF SendAnswer
  <2>2. accepted' \subseteq [user : Users, cid : ClientIds, body : Bodies, seq : Nat]
    BY <1>6, <1>a, <2>1 DEF SendAnswer, SendRequest
  <2>3. QED
    BY <1>6, <2>2, SendIsRequest, HandlerType DEF SendAnswer, Finish
<1>7. CASE Abort(r)
  BY <1>7, <1>a, SendIsRequest, HandlerType DEF Abort, Finish
<1>8. QED
  BY <1>3, <1>4, <1>5, <1>6, <1>7

LEMMA CommitType ==
  ASSUME Typed, NEW r \in Requests, SendCommit(r)
  PROVE  Typed'
<1> DEFINE q == req[r]
<1> DEFINE next == [q EXCEPT !.pc = "answer", !.seq = conv.lastSeq + 1]
<1>1. TypeOK /\ FiniteRows /\ conv \in ConvRow /\ conv.lastSeq + 1 \in Nat
  BY DEF Typed, TypeOK, ConvRow
<1>2. q \in SendRequest
  BY <1>1, RequestCases DEF SendCommit
<1>3. conv' \in ConvRow /\ messages' \subseteq MessageRow /\ outbox' \subseteq EventRow
      /\ FiniteRows'
  <2>1. q.user \in Users /\ q.cid \in ClientIds \cup {SystemId}
        /\ q.body \in Bodies \cup {SystemBody} /\ q.audience \in SUBSET Users
    BY <1>2 DEF SendRequest
  <2>2. QED
    BY <1>1, <2>1, AppendType DEF SendCommit
<1>4. state' \in [Users -> StateRow]
  <2> SUFFICES ASSUME NEW v \in Users
               PROVE  StateAfterSend(q.user, q.body, conv.lastSeq + 1)[v] \in StateRow
    BY DEF SendCommit, StateAfterSend
  <2>1. state[v] \in StateRow
    BY <1>1 DEF TypeOK
  <2> DEFINE n == conv.lastSeq + 1
  <2>2. [state[v] EXCEPT !.delivered = Larger(@, n), !.read = Larger(@, n)] \in StateRow
    BY <1>1, <2>1, LargerType DEF StateRow
  <2>3. \A j, k \in Nat : [state[v] EXCEPT !.unread = j, !.mention = k] \in StateRow
    BY <2>1 DEF StateRow
  <2>4. /\ state[v].mention \in Nat /\ state[v].mention + 1 \in Nat
        /\ state[v].unread + 1 \in Nat
    BY <2>1 DEF StateRow
  <2>5. \A b : [state[v] EXCEPT !.unread = @ + 1,
                 !.mention = IF Mentioned(b, v) THEN @ + 1 ELSE @] \in StateRow
    BY <2>3, <2>4
  <2>6. QED
    BY <2>1, <2>2, <2>5, Zenon DEF StateAfterSend
<1>5. req' \in [Requests -> Request]
  <2>1. next \in Request
    BY <1>1, <1>2, SendIsRequest DEF SendRequest
  <2>2. req' = [req EXCEPT ![r] = next]
    BY DEF SendCommit
  <2>3. QED
    BY <1>1, <2>1, <2>2 DEF TypeOK
<1>6. QED
  BY <1>1, <1>3, <1>4, <1>5 DEF SendCommit, Typed, TypeOK

LEMMA ReceiptType ==
  ASSUME Typed, NEW u \in Users, NEW seq \in 0..MaxSeq,
         MarkDelivered(u, seq) \/ MarkRead(u, seq)
  PROVE  Typed'
<1>1. TypeOK /\ FiniteRows /\ state[u] \in StateRow /\ seq \in Nat
  BY ConversationAssumption DEF Typed, TypeOK
<1>2. PICK d \in Nat, t \in Nat, n \in Nat : Receipt(u, d, t, n)
  <2>1. CASE MarkDelivered(u, seq)
    BY <1>1, <2>1, LargerType DEF MarkDelivered, StateRow
  <2>2. CASE MarkRead(u, seq)
    <3>1. Larger(state[u].read, seq) \in Nat
          /\ Larger(Larger(state[u].delivered, seq), Larger(state[u].read, seq)) \in Nat
      BY <1>1, LargerType DEF StateRow
    <3>2. UnreadAfter(u, Larger(state[u].read, seq)) \in Nat
      BY <1>1, UnreadType
    <3>3. QED
      BY <2>2, <3>1, <3>2 DEF MarkRead
  <2>3. QED
    BY <2>1, <2>2
<1>3. state' \in [Users -> StateRow]
  BY <1>1, <1>2 DEF Receipt, TypeOK, StateRow
<1>4. outbox' \subseteq EventRow
  BY <1>1, <1>2 DEF Receipt, TypeOK, EventRow
<1>5. QED
  BY <1>1, <1>2, <1>3, <1>4 DEF Receipt, Typed, TypeOK, FiniteRows

LEMMA ClearType ==
  ASSUME Typed, NEW r \in Requests, ClearWrite(r) \/ \E u \in Users : ClearRead(r, u)
  PROVE  Typed'
<1>1. TypeOK /\ FiniteRows /\ conv.lastSeq \in Nat
  BY DEF Typed, TypeOK, ConvRow
<1>2. ASSUME NEW u \in Users, ClearRead(r, u) PROVE Typed'
  <2> DEFINE q == [Idle EXCEPT !.pc = "clear", !.user = u, !.seq = conv.lastSeq]
  <2>1. q \in Request
    BY <1>1 DEF Request, Idle
  <2>2. QED
    BY <1>1, <1>2, <2>1, HandlerType DEF ClearRead, TypeOK
<1>3. CASE ClearWrite(r)
  <2>1. req[r].user \in Users /\ req[r].seq \in Nat
    BY <1>1, <1>3, RequestCases DEF ClearWrite
  <2>2. state[req[r].user] \in StateRow
    BY <1>1, <2>1 DEF TypeOK
  <2>3. Larger(state[req[r].user].clear, req[r].seq) \in Nat
    BY <2>1, <2>2, LargerType DEF StateRow
  <2>4. state' \in [Users -> StateRow]
    BY <1>1, <1>3, <2>1, <2>2, <2>3 DEF ClearWrite, TypeOK, StateRow
  <2>5. outbox' \subseteq EventRow
    BY <1>1, <1>3, <2>1 DEF ClearWrite, TypeOK, EventRow
  <2>6. req' \in [Requests -> Request]
    BY <1>1, <1>3, SendIsRequest DEF ClearWrite, Finish, TypeOK
  <2>7. QED
    BY <1>1, <1>3, <2>4, <2>5, <2>6 DEF ClearWrite, Typed, TypeOK, FiniteRows
<1>4. QED
  BY <1>2, <1>3

LEMMA BlockType == Typed /\ SetBlocked => Typed'
  BY DEF SetBlocked, Typed, TypeOK, FiniteRows

\* A group command that appends a system message.
LEMMA SystemType ==
  ASSUME Typed, NEW c \in ConvRow, NEW a \in Users, NEW w \in SUBSET Users,
         AppendSystem(c, a, w)
  PROVE  conv' \in ConvRow /\ messages' \subseteq MessageRow /\ outbox' \subseteq EventRow
         /\ FiniteRows'
  BY AppendType DEF AppendSystem, Typed

LEMMA AddMemberType ==
  ASSUME Typed, NEW a \in Users, NEW u \in Users, AddMember(a, u)
  PROVE  /\ conv' \in ConvRow /\ messages' \subseteq MessageRow /\ outbox' \subseteq EventRow
         /\ FiniteRows' /\ member' \in [Users -> MemberRow] /\ state' \in [Users -> StateRow]
<1> USE DEF Typed, TypeOK, AddMember
<1>1. [conv EXCEPT !.memberCount = @ + 1] \in ConvRow /\ conv.lastSeq \in Nat
  BY DEF ConvRow
<1>2. (Active \cup {u}) \in SUBSET Users
  BY DEF Active
<1>3. member' \in [Users -> MemberRow]
  BY DEF MemberRow, Roles
<1>4. state' \in [Users -> StateRow]
  BY <1>1 DEF StateRow, FreshState
<1>5. QED
  BY <1>1, <1>2, <1>3, <1>4, SystemType

LEMMA DropMemberType ==
  ASSUME Typed, NEW a \in Users, NEW u \in Users, NEW st \in {"LEFT", "REMOVED"},
         NEW w \in SUBSET Users, DropMember(a, u, st, w)
  PROVE  /\ conv' \in ConvRow /\ messages' \subseteq MessageRow /\ outbox' \subseteq EventRow
         /\ FiniteRows' /\ member' \in [Users -> MemberRow] /\ state' \in [Users -> StateRow]
<1> USE DEF Typed, TypeOK, DropMember
<1>1. [conv EXCEPT !.memberCount = @ - 1] \in ConvRow
  BY DEF ConvRow
<1>2. member' \in [Users -> MemberRow]
  BY DEF MemberRow
<1>3. QED
  BY <1>1, <1>2, SystemType

LEMMA DisbandType ==
  ASSUME Typed, NEW a \in Users, Disband(a)
  PROVE  Typed'
<1> USE DEF Typed, TypeOK, Disband
<1>1. conv.lastSeq + 1 \in Nat /\ conv' \in ConvRow
  BY DEF ConvRow
<1>2. messages' \subseteq MessageRow
  BY <1>1 DEF MessageRow
<1>3. outbox' \subseteq EventRow
  BY <1>1 DEF EventRow, Created, Active
<1>4. member' \in [Users -> MemberRow]
  <2> SUFFICES ASSUME NEW u \in Users
               PROVE  (IF IsActive(u) THEN [member[u] EXCEPT !.status = "REMOVED"]
                       ELSE member[u]) \in MemberRow
    OBVIOUS
  <2>1. QED
    BY DEF MemberRow
<1>5. FiniteRows'
  BY FS_AddElement DEF FiniteRows
<1>6. QED
  BY <1>1, <1>2, <1>3, <1>4, <1>5

LEMMA GroupType == Typed /\ GroupNext => Typed'
<1> SUFFICES ASSUME Typed, GroupNext PROVE Typed'
  OBVIOUS
<1> USE DEF Typed
<1>a. Active \in SUBSET Users /\ conv \in ConvRow
  BY DEF Active, TypeOK
<1>1. ASSUME NEW a \in Users, NEW p \in Profiles, UpdateProfile(a, p) PROVE Typed'
  BY <1>1, <1>a, ConversationAssumption, SystemType DEF UpdateProfile, TypeOK
<1>2. ASSUME NEW a \in Users, NEW u \in Users, Invite(a, u) PROVE Typed'
  BY <1>2 DEF Invite, TypeOK, FiniteRows
<1>3. ASSUME NEW a \in Users, NEW u \in Users, ApproveJoin(a, u) PROVE Typed'
  BY <1>3, AddMemberType DEF ApproveJoin, TypeOK
<1>4. ASSUME NEW a \in Users, NEW u \in Users, RejectJoin(a, u) PROVE Typed'
  BY <1>4 DEF RejectJoin, TypeOK, FiniteRows
<1>5. ASSUME NEW a \in Users, NEW u \in Users, Remove(a, u) PROVE Typed'
  BY <1>5, <1>a, DropMemberType DEF Remove, TypeOK
<1>6. ASSUME NEW a \in Users, NEW u \in Users, TransferOwner(a, u) PROVE Typed'
  <2>1. [conv EXCEPT !.owner = u] \in ConvRow
    <3> HIDE DEF Typed
    <3>1. conv \in ConvRow
      BY <1>a
    <3>2. QED
      BY <3>1 DEF ConvRow
  <2>2. member' \in [Users -> MemberRow]
    <3>1. member \in [Users -> MemberRow]
      BY DEF TypeOK
    <3> HIDE DEF Typed
    <3>2. [member[a] EXCEPT !.role = "ADMIN"] \in MemberRow
      BY <3>1 DEF MemberRow, Roles
    <3> DEFINE once == [member EXCEPT ![a] = [member[a] EXCEPT !.role = "ADMIN"]]
    <3>3. once \in [Users -> MemberRow]
      BY <3>1, <3>2
    <3>4. member' = [once EXCEPT ![u] = [once[u] EXCEPT !.role = "OWNER"]]
      BY <1>6, Zenon DEF TransferOwner
    <3> HIDE DEF once
    <3>5. [once[u] EXCEPT !.role = "OWNER"] \in MemberRow
      BY <3>3 DEF MemberRow, Roles
    <3>6. QED
      BY <3>3, <3>4, <3>5
  <2>3. QED
    BY <1>6, <1>a, <2>1, <2>2, SystemType DEF TransferOwner, TypeOK
<1>7. ASSUME NEW u \in Users, AcceptInvite(u) PROVE Typed'
  BY <1>7, AddMemberType DEF AcceptInvite, TypeOK
<1>8. ASSUME NEW u \in Users, RejectInvite(u) PROVE Typed'
  BY <1>8 DEF RejectInvite, TypeOK, FiniteRows
<1>9. ASSUME NEW u \in Users, JoinOpen(u) PROVE Typed'
  BY <1>9, AddMemberType DEF JoinOpen, TypeOK
<1>10. ASSUME NEW u \in Users, RequestJoin(u) PROVE Typed'
  BY <1>10 DEF RequestJoin, TypeOK, FiniteRows
<1>11. ASSUME NEW u \in Users, Leave(u) PROVE Typed'
  <2>1. Active \ {u} \in SUBSET Users
    BY <1>a
  <2>2. QED
    BY <1>11, <2>1, DropMemberType DEF Leave, TypeOK
<1>12. ASSUME NEW u \in Users, MuteExpires(u) PROVE Typed'
  <2>1. member' \in [Users -> MemberRow]
    BY <1>12 DEF MuteExpires, TypeOK, MemberRow
  <2>2. QED
    BY <1>12, <2>1 DEF MuteExpires, TypeOK, FiniteRows
<1>13. ASSUME NEW a \in Users, NEW u \in Users, NEW role \in RoleInputs,
              NEW mute \in MuteInputs, UpdateMember(a, u, role, mute)
       PROVE  Typed'
  <2>1. role # "KEEP" => role \in Roles
    BY ConversationAssumption DEF Roles
  <2>2. (mute = "MUTE") \in BOOLEAN
    OBVIOUS
  <2>3. \A e \in BOOLEAN, f \in Roles :
          [member EXCEPT ![u].role = f, ![u].muted = e] \in [Users -> MemberRow]
    BY DEF TypeOK, MemberRow
  <2>4. member[u].muted \in BOOLEAN /\ member[u].role \in Roles
    BY DEF TypeOK, MemberRow
  <2> DEFINE f == IF role = "KEEP" THEN member[u].role ELSE role
  <2> DEFINE e == IF mute = "KEEP" THEN member[u].muted ELSE mute = "MUTE"
  <2>5. f \in Roles
    BY <2>1, <2>4
  <2>6. e \in BOOLEAN
    BY <2>2, <2>4, Zenon
  <2>7. member' = [member EXCEPT ![u].role = f, ![u].muted = e]
    BY <1>13, Zenon DEF UpdateMember
  <2> HIDE DEF e, f
  <2>8. member' \in [Users -> MemberRow]
    BY <2>3, <2>5, <2>6, <2>7
  <2>9. QED
    BY <1>13, <1>a, <2>8, SystemType DEF UpdateMember, TypeOK
<1>14. CASE \E a \in Users, p \in Profiles : UpdateProfile(a, p)
  BY <1>14, <1>1
<1>15. CASE \E a, u \in Users : \/ Invite(a, u) \/ ApproveJoin(a, u) \/ RejectJoin(a, u)
                                \/ Remove(a, u) \/ TransferOwner(a, u)
  BY <1>15, <1>2, <1>3, <1>4, <1>5, <1>6, Zenon
<1>16. CASE \E u \in Users : \/ AcceptInvite(u) \/ RejectInvite(u) \/ JoinOpen(u)
                             \/ RequestJoin(u) \/ Leave(u) \/ Disband(u) \/ MuteExpires(u)
  <2> HIDE DEF Typed
  <2>1. QED
    BY <1>16, <1>7, <1>8, <1>9, <1>10, <1>11, <1>12, DisbandType, Zenon
<1>17. CASE \E a, u \in Users, role \in RoleInputs, mute \in MuteInputs :
              UpdateMember(a, u, role, mute)
  BY <1>17, <1>13
<1>18. QED
  BY <1>14, <1>15, <1>16, <1>17 DEF GroupNext

LEMMA NextType == Typed /\ [Next]_vars => Typed'
<1> SUFFICES ASSUME Typed, [Next]_vars PROVE Typed'
  OBVIOUS
<1>1. CASE MessagingNext
  <2> HIDE DEF Typed
  <2>1. QED
    BY <1>1, SendStartType, SendStepType, CommitType, ReceiptType, ClearType, BlockType, Zenon
    DEF MessagingNext
<1>2. CASE GroupNext
  BY <1>2, GroupType
<1>3. CASE UNCHANGED vars
  BY <1>3 DEF vars, Typed, TypeOK, FiniteRows
<1>4. QED
  BY <1>1, <1>2, <1>3 DEF Next

\* Every row keeps its type: statuses, roles and counters stay in the sets the
\* columns and their CHECKs allow, whatever the users, ids and requests are.
THEOREM TypeCorrect == Spec => []TypeOK
<1>1. Init => Typed
  BY InitType DEF Typed
<1>2. Typed => TypeOK
  BY DEF Typed
<1>3. QED
  BY <1>1, <1>2, NextType, PTL DEF Spec

-----------------------------------------------------------------------------
(***************************************************************************)
(* The log of a conversation: what a step may write, and from it the       *)
(* sequence numbers, the idempotency of clientMessageId, the outbox and    *)
(* the answers.                                                            *)
(***************************************************************************)

CreatedEvents == {e \in outbox : e.type = "message.created"}

\* A step that leaves the log alone.
WritesNothing ==
  /\ conv' = conv
  /\ messages' = messages
  /\ CreatedEvents' = CreatedEvents

\* A row that may be added: a system message, or the first under its client id.
Fresh(s, c, b) ==
  \/ c = SystemId /\ b = SystemBody
  \/ c \in ClientIds /\ b \in Bodies /\ Posted(s, c) = {}

\* A step that appends one message and its event to a live conversation; last_seq
\* follows, unless the step is disband.
Writes(s, c, b, a) ==
  /\ conv.status = "ACTIVE"
  /\ conv'.lastSeq \in {conv.lastSeq, conv.lastSeq + 1}
  /\ Fresh(s, c, b)
  /\ HighestSeq' = HighestSeq + 1
  /\ messages' = messages \cup {[seq |-> HighestSeq + 1, sender |-> s, cid |-> c, body |-> b]}
  /\ outbox' = outbox \cup {Created(HighestSeq + 1, a)}

WritesOne ==
  \E s \in Users, c \in ClientIds \cup {SystemId}, b \in Bodies \cup {SystemBody},
     a \in SUBSET Users : Writes(s, c, b, a)

LEMMA AppendWrites ==
  ASSUME Typed, NEW s \in Users, NEW c \in ClientIds \cup {SystemId},
         NEW b \in Bodies \cup {SystemBody}, NEW a \in SUBSET Users, NEW row,
         row.status = conv.status, row \in ConvRow,
         AppendMessage(row, s, c, b, a), Fresh(s, c, b)
  PROVE  WritesOne
<1>1. conv.status = "ACTIVE" /\ conv'.status = "ACTIVE" /\ conv'.lastSeq = conv.lastSeq + 1
  BY DEF AppendMessage, ConvRow
<1>2. HighestSeq = conv.lastSeq /\ HighestSeq' = conv.lastSeq + 1
  BY <1>1 DEF HighestSeq
<1>3. Writes(s, c, b, a)
  BY <1>1, <1>2 DEF Writes, AppendMessage
<1>4. QED
  BY <1>3 DEF WritesOne

LEMMA HandlerWrites ==
  ASSUME UNCHANGED <<conv, messages, outbox>>
  PROVE  WritesNothing
  BY DEF WritesNothing, HighestSeq, CreatedEvents

LEMMA MessagingWrites == Typed /\ MessagingNext => WritesNothing \/ WritesOne
<1> SUFFICES ASSUME Typed, MessagingNext PROVE WritesNothing \/ WritesOne
  OBVIOUS
<1>1. ASSUME NEW r \in Requests, NEW u \in Users, NEW c \in ClientIds, NEW b \in Bodies,
             SendLookup(r, u, c, b) \/ SendRepeat(r, u, c, b)
      PROVE  WritesNothing
  BY <1>1, HandlerWrites DEF SendLookup, SendRepeat
<1>2. ASSUME NEW r \in Requests,
             \/ SendReadMembers(r) \/ SendReadPolicy(r) \/ SendDuplicate(r)
             \/ SendAnswer(r) \/ Abort(r)
      PROVE  WritesNothing
  BY <1>2, HandlerWrites
     DEF SendReadMembers, SendReadPolicy, SendDuplicate, SendAnswer, Abort
<1>3. ASSUME NEW r \in Requests, SendCommit(r) PROVE WritesOne
  <2>1. req[r] \in SendRequest
    BY <1>3, RequestCases DEF SendCommit, Typed
  <2>2. conv \in ConvRow
    BY DEF Typed, TypeOK
  <2>3. AppendMessage(conv, req[r].user, req[r].cid, req[r].body, req[r].audience)
        /\ Posted(req[r].user, req[r].cid) = {}
    BY <1>3 DEF SendCommit
  <2>4. QED
    BY <2>1, <2>2, <2>3, AppendWrites DEF SendRequest, Fresh
<1>4. ASSUME NEW r \in Requests, ClearWrite(r) PROVE WritesNothing
  BY <1>4 DEF ClearWrite, WritesNothing, HighestSeq, CreatedEvents
<1>5. ASSUME NEW r \in Requests, NEW u \in Users, ClearRead(r, u) PROVE WritesNothing
  BY <1>5, HandlerWrites DEF ClearRead
<1>6. ASSUME NEW u \in Users, NEW seq \in 0..MaxSeq, MarkDelivered(u, seq) \/ MarkRead(u, seq)
      PROVE  WritesNothing
  BY <1>6 DEF MarkDelivered, MarkRead, Receipt, WritesNothing, HighestSeq, CreatedEvents
<1>7. ASSUME SetBlocked PROVE WritesNothing
  BY <1>7, HandlerWrites DEF SetBlocked
<1>8. QED
  BY <1>1, <1>2, <1>3, <1>4, <1>5, <1>6, <1>7, Zenon DEF MessagingNext

LEMMA SystemWrites ==
  ASSUME Typed, NEW row \in ConvRow, row.status = conv.status, NEW a \in Users,
         NEW w \in SUBSET Users, AppendSystem(row, a, w)
  PROVE  WritesOne
  BY AppendWrites DEF AppendSystem, Fresh

LEMMA GroupWrites == Typed /\ GroupNext => WritesNothing \/ WritesOne
<1> SUFFICES ASSUME Typed, GroupNext PROVE WritesNothing \/ WritesOne
  OBVIOUS
<1>a. conv \in ConvRow /\ Active \in SUBSET Users
  BY DEF Typed, TypeOK, Active
<1>b. \A i \in Int : [conv EXCEPT !.memberCount = i] \in ConvRow
                     /\ [conv EXCEPT !.memberCount = i].status = conv.status
  BY <1>a DEF ConvRow
<1>c. conv.memberCount + 1 \in Int /\ conv.memberCount - 1 \in Int
  BY <1>a DEF ConvRow
<1>d. ASSUME NEW a \in Users, NEW u \in Users, AddMember(a, u) PROVE WritesOne
  <2>1. Active \cup {u} \in SUBSET Users
    BY <1>a
  <2>2. QED
    BY <1>b, <1>c, <1>d, <2>1, SystemWrites DEF AddMember
<1>e. ASSUME NEW a \in Users, NEW u, NEW st, NEW w \in SUBSET Users, DropMember(a, u, st, w)
      PROVE  WritesOne
  BY <1>b, <1>c, <1>e, SystemWrites DEF DropMember
<1>1. ASSUME NEW a \in Users, NEW p \in Profiles, UpdateProfile(a, p) PROVE WritesOne
  BY <1>1, <1>a, SystemWrites DEF UpdateProfile
<1>2. ASSUME NEW a \in Users, NEW u \in Users, Invite(a, u) \/ RejectJoin(a, u)
      PROVE  WritesNothing
  BY <1>2, HandlerWrites DEF Invite, RejectJoin
<1>3. ASSUME NEW a \in Users, NEW u \in Users, ApproveJoin(a, u) PROVE WritesOne
  BY <1>3, <1>d DEF ApproveJoin
<1>4. ASSUME NEW a \in Users, NEW u \in Users, Remove(a, u) PROVE WritesOne
  BY <1>4, <1>a, <1>e DEF Remove
<1>5. ASSUME NEW a \in Users, NEW u \in Users, TransferOwner(a, u) PROVE WritesOne
  <2>1. [conv EXCEPT !.owner = u] \in ConvRow /\ [conv EXCEPT !.owner = u].status = conv.status
    BY <1>a DEF ConvRow
  <2>2. QED
    BY <1>5, <1>a, <2>1, SystemWrites DEF TransferOwner
<1>6. ASSUME NEW u \in Users, AcceptInvite(u) \/ JoinOpen(u) PROVE WritesOne
  BY <1>6, <1>d DEF AcceptInvite, JoinOpen
<1>7. ASSUME NEW u \in Users, RejectInvite(u) \/ RequestJoin(u) \/ MuteExpires(u)
      PROVE  WritesNothing
  BY <1>7, HandlerWrites DEF RejectInvite, RequestJoin, MuteExpires
<1>8. ASSUME NEW u \in Users, Leave(u) PROVE WritesOne
  <2>1. Active \ {u} \in SUBSET Users
    BY <1>a
  <2>2. QED
    BY <1>8, <2>1, <1>e DEF Leave
<1>9. ASSUME NEW u \in Users, Disband(u) PROVE WritesOne
  <2>1. HighestSeq = conv.lastSeq /\ HighestSeq' = conv.lastSeq + 1
    BY <1>9, <1>a DEF Disband, LockGroup, HighestSeq, ConvRow
  <2>2. Writes(u, SystemId, SystemBody, Active)
    BY <1>9, <1>a, <2>1 DEF Disband, LockGroup, Writes, Fresh, ConvRow
  <2>3. QED
    BY <1>a, <2>2 DEF WritesOne
<1>10. ASSUME NEW a \in Users, NEW u \in Users, NEW role \in RoleInputs,
              NEW mute \in MuteInputs, UpdateMember(a, u, role, mute)
       PROVE  WritesOne
  BY <1>10, <1>a, SystemWrites DEF UpdateMember
<1>11. CASE \E a \in Users, p \in Profiles : UpdateProfile(a, p)
  BY <1>11, <1>1
<1>12. CASE \E a, u \in Users : \/ Invite(a, u) \/ ApproveJoin(a, u) \/ RejectJoin(a, u)
                                \/ Remove(a, u) \/ TransferOwner(a, u)
  BY <1>12, <1>2, <1>3, <1>4, <1>5, Zenon
<1>13. CASE \E u \in Users : \/ AcceptInvite(u) \/ RejectInvite(u) \/ JoinOpen(u)
                             \/ RequestJoin(u) \/ Leave(u) \/ Disband(u) \/ MuteExpires(u)
  BY <1>13, <1>6, <1>7, <1>8, <1>9, Zenon
<1>14. CASE \E a, u \in Users, role \in RoleInputs, mute \in MuteInputs :
              UpdateMember(a, u, role, mute)
  BY <1>14, <1>10
<1>15. QED
  BY <1>11, <1>12, <1>13, <1>14 DEF GroupNext

\* Every step of the system appends one message with its event, under a client
\* message id that its sender has not used, or leaves the log alone.
LEMMA StepWrites == Typed /\ [Next]_vars => WritesNothing \/ WritesOne
  BY MessagingWrites, GroupWrites, HandlerWrites DEF Next, vars

-----------------------------------------------------------------------------
(* The invariant: the seqs in use are exactly 1..HighestSeq, so the next one is *)
(* new; a new row's client message id is new; events and messages go in pairs. *)

LogInv == Typed /\ SeqsAreDense /\ NoDuplicateMessage /\ OneEventPerMessage

LEMMA InitLog == Init => LogInv
<1> SUFFICES ASSUME Init PROVE LogInv
  OBVIOUS
<1>1. Typed
  BY InitType DEF Typed
<1>2. messages = {} /\ CreatedEvents = {} /\ HighestSeq = 0
  BY DEF Init, CreatedEvents, HighestSeq
<1>3. QED
  BY <1>1, <1>2 DEF LogInv, SeqsAreDense, NoDuplicateMessage, OneEventPerMessage, CreatedEvents

LEMMA QuietLog ==
  ASSUME LogInv, WritesNothing
  PROVE  SeqsAreDense' /\ NoDuplicateMessage' /\ OneEventPerMessage'
  BY DEF LogInv, WritesNothing, SeqsAreDense, NoDuplicateMessage, OneEventPerMessage,
         CreatedEvents, HighestSeq

LEMMA AppendLog ==
  ASSUME LogInv, NEW s \in Users, NEW c \in ClientIds \cup {SystemId},
         NEW b \in Bodies \cup {SystemBody}, NEW a \in SUBSET Users, Writes(s, c, b, a)
  PROVE  SeqsAreDense' /\ NoDuplicateMessage' /\ OneEventPerMessage'
<1> DEFINE new == [seq |-> HighestSeq + 1, sender |-> s, cid |-> c, body |-> b]
<1> DEFINE event == Created(HighestSeq + 1, a)
<1>1. HighestSeq \in Nat /\ HighestSeq' = HighestSeq + 1
  BY DEF LogInv, Typed, TypeOK, ConvRow, HighestSeq, Writes
<1>2. messages' = messages \cup {new}
  BY DEF Writes
<1>3. {m.seq : m \in messages} = 1..HighestSeq
  BY DEF LogInv, SeqsAreDense
<1>4. \A m \in messages : m.seq # new.seq
  BY <1>1, <1>3
<1>5. SeqsAreDense'
  <2>1. {m.seq : m \in messages'} = 1..HighestSeq \cup {HighestSeq + 1}
    <3>1. new.seq = HighestSeq + 1
      OBVIOUS
    <3> HIDE DEF new
    <3>2. {m.seq : m \in messages'} = {m.seq : m \in messages} \cup {new.seq}
      BY <1>2
    <3>3. QED
      BY <3>1, <3>2, <1>3
  <2>2. 1..HighestSeq \cup {HighestSeq + 1} = 1..HighestSeq'
    BY <1>1
  <2>3. \A m1, m2 \in messages' : m1.seq = m2.seq => m1 = m2
    BY <1>2, <1>4 DEF LogInv, SeqsAreDense
  <2>4. QED
    BY <2>1, <2>2, <2>3 DEF SeqsAreDense
<1>6. NoDuplicateMessage'
  <2>1. \A m \in messages : m.sender = s /\ m.cid = c => c = SystemId
    BY DEF Writes, Fresh, Posted
  <2>2. QED
    BY <1>2, <2>1 DEF LogInv, NoDuplicateMessage
<1>7. OneEventPerMessage'
  <2>1. CreatedEvents' = CreatedEvents \cup {event}
    BY DEF CreatedEvents, Writes, Created
  <2>2. {e.seq : e \in CreatedEvents} = {m.seq : m \in messages}
        /\ \A e1, e2 \in CreatedEvents : e1.seq = e2.seq => e1 = e2
    BY DEF LogInv, OneEventPerMessage, CreatedEvents
  <2>3. event.seq = new.seq
    BY DEF Created
  <2>4. \A e \in CreatedEvents : e.seq # event.seq
    BY <2>2, <2>3, <1>4
  <2> HIDE DEF event, new
  <2>5. {e.seq : e \in CreatedEvents'} = {m.seq : m \in messages'}
    BY <2>1, <2>2, <2>3, <1>2
  <2>6. \A e1, e2 \in CreatedEvents' : e1.seq = e2.seq => e1 = e2
    BY <2>1, <2>2, <2>4
  <2>7. QED
    BY <2>5, <2>6 DEF OneEventPerMessage, CreatedEvents
<1>8. QED
  BY <1>5, <1>6, <1>7

LEMMA NextLog == LogInv /\ [Next]_vars => LogInv'
<1> SUFFICES ASSUME LogInv, [Next]_vars PROVE LogInv'
  OBVIOUS
<1>1. Typed /\ Typed'
  BY NextType DEF LogInv
<1>2. WritesNothing \/ WritesOne
  BY <1>1, StepWrites
<1>3. SeqsAreDense' /\ NoDuplicateMessage' /\ OneEventPerMessage'
  BY <1>2, QuietLog, AppendLog DEF WritesOne
<1>4. QED
  BY <1>1, <1>3 DEF LogInv

\* The seqs of a conversation are 1, 2, 3, ... without gap or reuse, for any
\* number of concurrent senders and group commands (sendText, append).
THEOREM SeqsCorrect == Spec => []SeqsAreDense
<1>1. LogInv => SeqsAreDense
  BY DEF LogInv
<1>2. QED
  BY <1>1, InitLog, NextLog, PTL DEF Spec

\* A sender's clientMessageId becomes at most one message, however many handlers
\* run its retries at once.
THEOREM DuplicatesCorrect == Spec => []NoDuplicateMessage
<1>1. LogInv => NoDuplicateMessage
  BY DEF LogInv
<1>2. QED
  BY <1>1, InitLog, NextLog, PTL DEF Spec

\* Messages and message.created events of the outbox match one to one.
THEOREM EventsCorrect == Spec => []OneEventPerMessage
<1>1. LogInv => OneEventPerMessage
  BY DEF LogInv
<1>2. QED
  BY <1>1, InitLog, NextLog, PTL DEF Spec

\* What a client sends once happens once, as a row and as an event, whatever is
\* retried or rolled back (sendText and its unique index).
THEOREM HappenOnce == Spec => []MessagesHappenOnce
<1>1. NoDuplicateMessage /\ OneEventPerMessage => MessagesHappenOnce
  BY DEF MessagesHappenOnce
<1>2. QED
  BY <1>1, DuplicatesCorrect, EventsCorrect, PTL

-----------------------------------------------------------------------------
(* What a client is told and where the cursors stand.                      *)

Row(q) == [seq |-> q.seq, sender |-> q.user, cid |-> q.cid, body |-> q.body]

\* What StepWrites says of the messages and of last_seq.
LEMMA StepGrows ==
  ASSUME Typed, [Next]_vars
  PROVE  /\ messages \subseteq messages'
         /\ conv.lastSeq \in Nat /\ conv'.lastSeq \in Nat
         /\ conv'.lastSeq >= conv.lastSeq
<1>1. Typed'
  BY NextType
<1>2. conv.lastSeq \in Nat /\ conv'.lastSeq \in Nat
  BY <1>1 DEF Typed, TypeOK, ConvRow
<1>3. CASE WritesNothing
  BY <1>2, <1>3 DEF WritesNothing
<1>4. CASE WritesOne
  BY <1>2, <1>4 DEF WritesOne, Writes
<1>5. QED
  BY <1>2, <1>3, <1>4, StepWrites

-----------------------------------------------------------------------------
(* Answers.                                                                *)

AnswerInv == Typed /\ HandlersAreSound /\ AcceptedIsCommitted

\* A step that moves handler r on to q leaves the others sound.
LEMMA OneHandler ==
  ASSUME Typed, HandlersAreSound, [Next]_vars, NEW r \in Requests, NEW q,
         req' = [req EXCEPT ![r] = q],
         q.pc = "answer" => Row(q) \in messages',
         q.pc = "clear" => q.seq <= conv'.lastSeq
  PROVE  HandlersAreSound'
<1>1. \A s \in Requests : req'[s] = IF s = r THEN q ELSE req[s]
  BY DEF Typed, TypeOK
<1>2. \A s \in Requests : req[s].pc = "clear" => req[s].seq \in Nat
  BY RequestCases DEF Typed
<1>3. QED
  BY <1>1, <1>2, StepGrows DEF HandlersAreSound, Row

\* A step of somebody else leaves all handlers sound.
LEMMA NoHandler ==
  ASSUME AnswerInv, [Next]_vars, UNCHANGED <<req, accepted>>
  PROVE  HandlersAreSound' /\ AcceptedIsCommitted'
<1>1. \A s \in Requests : req[s].pc = "clear" => req[s].seq \in Nat
  BY RequestCases DEF AnswerInv, Typed
<1>2. QED
  BY <1>1, StepGrows DEF AnswerInv, HandlersAreSound, AcceptedIsCommitted

\* A receipt or a block touches neither a handler nor an answer.
LEMMA ReceiptHandlers ==
  ASSUME \/ \E u \in Users, seq \in 0..MaxSeq : MarkDelivered(u, seq) \/ MarkRead(u, seq)
         \/ SetBlocked
  PROVE  UNCHANGED <<req, accepted>>
<1>1. ASSUME NEW u, NEW d, NEW r, NEW n, Receipt(u, d, r, n) PROVE UNCHANGED <<req, accepted>>
  BY <1>1 DEF Receipt
<1>2. ASSUME NEW u \in Users, NEW seq \in 0..MaxSeq, MarkDelivered(u, seq) \/ MarkRead(u, seq)
      PROVE  UNCHANGED <<req, accepted>>
  BY <1>1, <1>2, Zenon DEF MarkDelivered, MarkRead
<1>3. SetBlocked => UNCHANGED <<req, accepted>>
  BY DEF SetBlocked
<1>4. QED
  BY <1>2, <1>3, Zenon

LEMMA KeptAnswers ==
  ASSUME AnswerInv, [Next]_vars, UNCHANGED accepted
  PROVE  AcceptedIsCommitted'
  BY StepGrows DEF AnswerInv, AcceptedIsCommitted

LEMMA MessagingAnswers ==
  ASSUME AnswerInv, MessagingNext
  PROVE  HandlersAreSound' /\ AcceptedIsCommitted'
<1>a. [Next]_vars /\ Typed /\ HandlersAreSound /\ AcceptedIsCommitted
  BY DEF Next, AnswerInv
<1>b. \A r \in Requests : req[r] \in Request
  BY <1>a DEF Typed, TypeOK
<1>1. ASSUME NEW r \in Requests, NEW u \in Users, NEW c \in ClientIds, NEW b \in Bodies,
             SendLookup(r, u, c, b)
      PROVE  HandlersAreSound' /\ AcceptedIsCommitted'
  BY <1>1, <1>a, OneHandler, KeptAnswers DEF SendLookup, Idle
<1>2. ASSUME NEW r \in Requests, NEW u \in Users, NEW c \in ClientIds, NEW b \in Bodies,
             SendRepeat(r, u, c, b)
      PROVE  HandlersAreSound' /\ AcceptedIsCommitted'
  <2>1. PICK m \in Matches(u, c, b) :
          req' = [req EXCEPT ![r] =
            [Idle EXCEPT !.pc = "answer", !.user = u, !.cid = c, !.body = b, !.seq = m.seq]]
    BY <1>2 DEF SendRepeat
  <2> DEFINE q == [Idle EXCEPT !.pc = "answer", !.user = u, !.cid = c, !.body = b,
                               !.seq = m.seq]
  <2>2. Row(q) = m /\ m \in messages
    BY <1>a DEF Row, Matches, Posted, Idle, Typed, TypeOK, MessageRow
  <2>3. Row(q) \in messages' /\ q.pc = "answer"
    BY <2>2, <1>2 DEF SendRepeat, Idle
  <2> HIDE DEF q
  <2>4. req' = [req EXCEPT ![r] = q]
    BY <2>1 DEF q
  <2>5. QED
    BY <1>2, <1>a, <2>3, <2>4, OneHandler, KeptAnswers DEF SendRepeat
<1>3. ASSUME NEW r \in Requests, SendReadMembers(r)
      PROVE  HandlersAreSound' /\ AcceptedIsCommitted'
  <2> DEFINE q == [req[r] EXCEPT !.pc = "policy", !.audience = Active,
                                 !.role = member[req[r].user].role]
  <2>1. q.pc = "policy" /\ req' = [req EXCEPT ![r] = q]
    <3>1. req[r] \in SendRequest
      BY <1>3, <1>a, RequestCases DEF SendReadMembers, Typed
    <3>2. QED
      BY <3>1, <1>3 DEF SendReadMembers, SendRequest
  <2> HIDE DEF q
  <2>2. QED
    BY <1>3, <1>a, <2>1, OneHandler, KeptAnswers DEF SendReadMembers
<1>4. ASSUME NEW r \in Requests, SendReadPolicy(r)
      PROVE  HandlersAreSound' /\ AcceptedIsCommitted'
  <2> DEFINE q == [req[r] EXCEPT !.pc = "allocate"]
  <2>1. q.pc = "allocate" /\ req' = [req EXCEPT ![r] = q]
    <3>1. req[r] \in SendRequest
      BY <1>4, <1>a, RequestCases DEF SendReadPolicy, Typed
    <3>2. QED
      BY <3>1, <1>4 DEF SendReadPolicy, SendRequest
  <2> HIDE DEF q
  <2>2. QED
    BY <1>4, <1>a, <2>1, OneHandler, KeptAnswers DEF SendReadPolicy
<1>5. ASSUME NEW r \in Requests, SendCommit(r)
      PROVE  HandlersAreSound' /\ AcceptedIsCommitted'
  <2> DEFINE q == [req[r] EXCEPT !.pc = "answer", !.seq = conv.lastSeq + 1]
  <2>1. req[r] \in SendRequest
    BY <1>5, <1>a, RequestCases DEF SendCommit, Typed
  <2>2. q.pc = "answer" /\ req' = [req EXCEPT ![r] = q]
    BY <2>1, <1>5 DEF SendCommit, SendRequest
  <2>3. Row(q) = [seq |-> conv.lastSeq + 1, sender |-> req[r].user, cid |-> req[r].cid,
                  body |-> req[r].body]
    BY <2>1 DEF Row, SendRequest
  <2>4. Row(q) \in messages'
    BY <2>3, <1>5 DEF SendCommit, AppendMessage
  <2> HIDE DEF q
  <2>5. QED
    BY <1>5, <1>a, <2>2, <2>4, OneHandler, KeptAnswers DEF SendCommit
<1>6. ASSUME NEW r \in Requests, SendDuplicate(r)
      PROVE  HandlersAreSound' /\ AcceptedIsCommitted'
  <2>1. PICK m \in Matches(req[r].user, req[r].cid, req[r].body) :
          req' = [req EXCEPT ![r].pc = "answer", ![r].seq = m.seq]
    BY <1>6 DEF SendDuplicate
  <2> DEFINE q == [req[r] EXCEPT !.pc = "answer", !.seq = m.seq]
  <2>2. req[r] \in SendRequest
    BY <1>6, <1>a, RequestCases DEF SendDuplicate, Typed
  <2>3. q.pc = "answer" /\ req' = [req EXCEPT ![r] = q]
    BY <2>1, <2>2 DEF SendRequest
  <2>4. Row(q) = m /\ m \in messages
    BY <1>a, <2>2 DEF Row, Matches, Posted, SendRequest, Typed, TypeOK, MessageRow
  <2>5. Row(q) \in messages'
    BY <1>6, <2>4 DEF SendDuplicate
  <2> HIDE DEF q
  <2>6. QED
    BY <1>6, <1>a, <2>3, <2>5, OneHandler, KeptAnswers DEF SendDuplicate
<1>7. ASSUME NEW r \in Requests, SendAnswer(r)
      PROVE  HandlersAreSound' /\ AcceptedIsCommitted'
  <2>1. Row(req[r]) \in messages
    BY <1>7, <1>a DEF SendAnswer, HandlersAreSound, Row
  <2>2. AcceptedIsCommitted'
    <3> DEFINE new == [user |-> req[r].user, cid |-> req[r].cid, body |-> req[r].body,
                       seq |-> req[r].seq]
    <3>1. accepted' = accepted \cup {new} /\ messages' = messages
      BY <1>7 DEF SendAnswer
    <3>2. [seq |-> new.seq, sender |-> new.user, cid |-> new.cid, body |-> new.body] \in messages
      BY <2>1 DEF Row
    <3> HIDE DEF new
    <3>3. QED
      BY <1>a, <3>1, <3>2 DEF AcceptedIsCommitted
  <2>3. HandlersAreSound'
    BY <1>7, <1>a, OneHandler DEF SendAnswer, Finish, Idle
  <2>4. QED
    BY <2>2, <2>3
<1>8. ASSUME NEW r \in Requests, Abort(r) \/ ClearWrite(r)
      PROVE  HandlersAreSound' /\ AcceptedIsCommitted'
  BY <1>8, <1>a, OneHandler, KeptAnswers DEF Abort, ClearWrite, Finish, Idle
<1>9. ASSUME NEW r \in Requests, NEW u \in Users, ClearRead(r, u)
      PROVE  HandlersAreSound' /\ AcceptedIsCommitted'
  <2> DEFINE q == [Idle EXCEPT !.pc = "clear", !.user = u, !.seq = conv.lastSeq]
  <2>1. q.pc = "clear" /\ q.seq <= conv'.lastSeq
    BY <1>9, <1>a, StepGrows DEF ClearRead, Idle
  <2>2. req' = [req EXCEPT ![r] = q]
    BY <1>9 DEF ClearRead
  <2> HIDE DEF q
  <2>3. QED
    BY <1>9, <1>a, <2>1, <2>2, OneHandler, KeptAnswers DEF ClearRead
<1>10. ASSUME \/ \E u \in Users, seq \in 0..MaxSeq : MarkDelivered(u, seq) \/ MarkRead(u, seq)
              \/ SetBlocked
       PROVE  HandlersAreSound' /\ AcceptedIsCommitted'
  BY <1>10, <1>a, ReceiptHandlers, NoHandler DEF AnswerInv
<1>11. ASSUME NEW r \in Requests,
              \/ SendReadMembers(r) \/ SendReadPolicy(r) \/ SendCommit(r)
              \/ SendDuplicate(r) \/ SendAnswer(r) \/ Abort(r) \/ ClearWrite(r)
       PROVE  HandlersAreSound' /\ AcceptedIsCommitted'
  BY <1>3, <1>4, <1>5, <1>6, <1>7, <1>8, <1>11, Zenon
<1>12. QED
  BY <1>1, <1>2, <1>9, <1>10, <1>11, Zenon DEF MessagingNext

\* No group command touches a handler or an answer.
LEMMA GroupHandlers == GroupNext => UNCHANGED <<req, accepted>>
<1>1. ASSUME NEW a \in Users, NEW p \in Profiles, UpdateProfile(a, p)
      PROVE  UNCHANGED <<req, accepted>>
  BY <1>1 DEF UpdateProfile
<1>2. ASSUME NEW a \in Users, NEW u \in Users,
             \/ Invite(a, u) \/ ApproveJoin(a, u) \/ RejectJoin(a, u)
             \/ Remove(a, u) \/ TransferOwner(a, u)
      PROVE  UNCHANGED <<req, accepted>>
  BY <1>2 DEF Invite, ApproveJoin, RejectJoin, Remove, TransferOwner
<1>3. ASSUME NEW u \in Users,
             \/ AcceptInvite(u) \/ RejectInvite(u) \/ JoinOpen(u)
             \/ RequestJoin(u) \/ Leave(u) \/ Disband(u) \/ MuteExpires(u)
      PROVE  UNCHANGED <<req, accepted>>
  BY <1>3
     DEF AcceptInvite, RejectInvite, JoinOpen, RequestJoin, Leave, Disband, MuteExpires
<1>4. ASSUME NEW a \in Users, NEW u \in Users, NEW role \in RoleInputs,
             NEW mute \in MuteInputs, UpdateMember(a, u, role, mute)
      PROVE  UNCHANGED <<req, accepted>>
  BY <1>4 DEF UpdateMember
<1>5. QED
  BY <1>1, <1>2, <1>3, <1>4, Zenon DEF GroupNext

LEMMA NextAnswers == AnswerInv /\ [Next]_vars => AnswerInv'
<1> SUFFICES ASSUME AnswerInv, [Next]_vars PROVE AnswerInv'
  OBVIOUS
<1>1. Typed'
  BY NextType DEF AnswerInv
<1>2. HandlersAreSound' /\ AcceptedIsCommitted'
  BY MessagingAnswers, GroupHandlers, NoHandler DEF Next, vars
<1>3. QED
  BY <1>1, <1>2 DEF AnswerInv

LEMMA InitAnswers == Init => AnswerInv
  BY InitType DEF AnswerInv, Typed, Init, HandlersAreSound, AcceptedIsCommitted, Idle

\* MessageAccepted is only ever said of a committed message with the content the
\* client sent, whatever races and retries there were (sendText and its catch).
THEOREM AnswersCorrect == Spec => []AcceptedIsCommitted
<1>1. AnswerInv => AcceptedIsCommitted
  BY DEF AnswerInv
<1>2. QED
  BY <1>1, InitAnswers, NextAnswers, PTL DEF Spec

LEMMA AgreeFromLog ==
  ASSUME Typed, NoDuplicateMessage, AcceptedIsCommitted
  PROVE  AnswersAgree
<1> SUFFICES ASSUME NEW a1 \in accepted, NEW a2 \in accepted,
                    a1.user = a2.user, a1.cid = a2.cid
             PROVE  a1 = a2
  BY DEF AnswersAgree
<1> DEFINE m(a) == [seq |-> a.seq, sender |-> a.user, cid |-> a.cid, body |-> a.body]
<1>1. \A a \in accepted : a \in [user : Users, cid : ClientIds, body : Bodies, seq : Nat]
  BY DEF Typed, TypeOK
<1>2. m(a1) \in messages /\ m(a2) \in messages
  BY DEF AcceptedIsCommitted
<1>3. m(a1).cid # SystemId
  BY <1>1, ConversationAssumption
<1>4. m(a1) = m(a2)
  BY <1>2, <1>3 DEF NoDuplicateMessage
<1>5. a1.seq = a2.seq /\ a1.body = a2.body
  BY <1>4
<1>6. QED
  BY <1>1, <1>5

\* Every answer for one clientMessageId names one message and one content.
THEOREM AgreementCorrect == Spec => []AnswersAgree
<1>1. AnswerInv /\ LogInv => AnswersAgree
  BY AgreeFromLog DEF AnswerInv, LogInv
<1>2. QED
  BY <1>1, InitAnswers, NextAnswers, InitLog, NextLog, PTL DEF Spec

\* Clients are told of what is committed, and always the same.
THEOREM AnswersTrue == Spec => []AnswersAreTrue
<1>1. AcceptedIsCommitted /\ AnswersAgree => AnswersAreTrue
  BY DEF AnswersAreTrue
<1>2. QED
  BY <1>1, AnswersCorrect, AgreementCorrect, PTL

-----------------------------------------------------------------------------
(* Cursors.                                                                *)

CursorInv == AnswerInv /\ CursorsInOrder

\* What a step does to the state rows.
CursorsMove ==
  /\ CursorsInOrder'
  /\ \A u \in Users : /\ state'[u].delivered >= state[u].delivered
                      /\ state'[u].read >= state[u].read

LEMMA StateTypes ==
  ASSUME Typed
  PROVE  /\ state \in [Users -> StateRow] /\ conv.lastSeq \in Nat
         /\ \A u \in Users : /\ state[u].delivered \in Nat /\ state[u].read \in Nat
                             /\ state[u].clear \in Nat
  BY DEF Typed, TypeOK, StateRow, ConvRow

LEMMA SameState ==
  ASSUME CursorInv, [Next]_vars, state' = state
  PROVE  CursorsMove
<1>1. Typed
  BY DEF CursorInv, AnswerInv
<1>2. conv'.lastSeq >= conv.lastSeq /\ conv'.lastSeq \in Nat
  BY <1>1, StepGrows
<1>3. QED
  BY <1>1, <1>2, StateTypes DEF CursorInv, CursorsInOrder, CursorsMove

\* A step that rewrites the state row of one user.
LEMMA OneState ==
  ASSUME CursorInv, [Next]_vars, NEW u \in Users, NEW row,
         state' = [state EXCEPT ![u] = row],
         row.delivered >= state[u].delivered, row.read >= state[u].read,
         row.read <= row.delivered, row.delivered <= conv'.lastSeq, row.clear <= conv'.lastSeq
  PROVE  CursorsMove
<1>1. Typed
  BY DEF CursorInv, AnswerInv
<1>2. conv'.lastSeq >= conv.lastSeq /\ conv'.lastSeq \in Nat
  BY <1>1, StepGrows
<1>3. \A v \in Users : state'[v] = IF v = u THEN row ELSE state[v]
  BY <1>1, StateTypes
<1>4. QED
  BY <1>1, <1>2, <1>3, StateTypes DEF CursorInv, CursorsInOrder, CursorsMove

LEMMA SendMoves ==
  ASSUME CursorInv, [Next]_vars, NEW r \in Requests, SendCommit(r)
  PROVE  CursorsMove
<1>1. Typed
  BY DEF CursorInv, AnswerInv
<1>2. conv'.lastSeq = conv.lastSeq + 1 /\ conv.lastSeq \in Nat
  BY <1>1 DEF SendCommit, AppendMessage, Typed, TypeOK, ConvRow
<1> DEFINE n == conv.lastSeq + 1
<1>3. ASSUME NEW v \in Users
      PROVE  /\ \/ /\ state'[v].read = state[v].read
                   /\ state'[v].delivered = state[v].delivered
                \/ /\ state'[v].read = Larger(state[v].read, n)
                   /\ state'[v].delivered = Larger(state[v].delivered, n)
             /\ state'[v].clear = state[v].clear
  <2>1. state[v] \in StateRow
    BY <1>1, StateTypes
  <2>2. state'[v] = IF ~state[v].exists THEN state[v]
                    ELSE IF v = req[r].user
                    THEN [state[v] EXCEPT !.delivered = Larger(state[v].delivered, n),
                                          !.read = Larger(state[v].read, n)]
                    ELSE [state[v] EXCEPT !.unread = state[v].unread + 1,
                            !.mention = IF Mentioned(req[r].body, v) THEN state[v].mention + 1
                                        ELSE state[v].mention]
    BY DEF SendCommit, StateAfterSend
  <2>3. CASE ~state[v].exists
    BY <2>2, <2>3
  <2>4. CASE state[v].exists /\ v = req[r].user
    BY <2>1, <2>2, <2>4 DEF StateRow
  <2>5. CASE state[v].exists /\ v # req[r].user
    BY <2>1, <2>2, <2>5 DEF StateRow
  <2>6. QED
    BY <2>3, <2>4, <2>5
<1>4. ASSUME NEW v \in Users
      PROVE  /\ Larger(state[v].delivered, n) = n /\ Larger(state[v].read, n) = n
             /\ state[v].read <= state[v].delivered /\ state[v].delivered <= conv.lastSeq
             /\ state[v].clear <= conv.lastSeq
  BY <1>1, <1>2, StateTypes DEF Larger, CursorInv, CursorsInOrder
<1>5. QED
  BY <1>1, <1>2, <1>3, <1>4, StateTypes DEF CursorsInOrder, CursorsMove

LEMMA ReceiptMoves ==
  ASSUME CursorInv, [Next]_vars, NEW u \in Users, NEW seq \in 0..MaxSeq,
         MarkDelivered(u, seq) \/ MarkRead(u, seq)
  PROVE  CursorsMove
<1>1. Typed
  BY DEF CursorInv, AnswerInv
<1>2. seq \in Nat /\ seq <= conv.lastSeq /\ conv' = conv
  BY ConversationAssumption DEF MarkDelivered, MarkRead, Receipt
<1>3. /\ state[u] \in StateRow
      /\ state[u].delivered \in Nat /\ state[u].read \in Nat /\ conv.lastSeq \in Nat
      /\ state[u].read <= state[u].delivered /\ state[u].delivered <= conv.lastSeq
      /\ state[u].clear <= conv.lastSeq
  BY <1>1, StateTypes DEF CursorInv, CursorsInOrder
<1>4. CASE MarkDelivered(u, seq)
  <2> DEFINE row == [state[u] EXCEPT !.delivered = Larger(state[u].delivered, seq),
                                     !.read = state[u].read, !.unread = state[u].unread]
  <2>1. state' = [state EXCEPT ![u] = row]
    BY <1>4 DEF MarkDelivered, Receipt
  <2>2. row.delivered = Larger(state[u].delivered, seq) /\ row.read = state[u].read
        /\ row.clear = state[u].clear
    BY <1>3 DEF StateRow
  <2> HIDE DEF row
  <2>3. /\ row.delivered >= state[u].delivered /\ row.read >= state[u].read
       /\ row.read <= row.delivered /\ row.delivered <= conv'.lastSeq
       /\ row.clear <= conv'.lastSeq
    BY <1>2, <1>3, <2>2 DEF Larger
  <2>4. QED
    BY <2>1, <2>3, OneState
<1>5. CASE MarkRead(u, seq)
  <2> DEFINE readTo == Larger(state[u].read, seq)
             row == [state[u] EXCEPT
                       !.delivered = Larger(Larger(state[u].delivered, seq), readTo),
                       !.read = readTo, !.unread = UnreadAfter(u, readTo)]
  <2>1. state' = [state EXCEPT ![u] = row]
    BY <1>5 DEF MarkRead, Receipt
  <2>2. /\ row.delivered = Larger(Larger(state[u].delivered, seq), Larger(state[u].read, seq))
        /\ row.read = Larger(state[u].read, seq) /\ row.clear = state[u].clear
    BY <1>3 DEF StateRow
  <2> HIDE DEF row
  <2>3. /\ row.delivered >= state[u].delivered /\ row.read >= state[u].read
       /\ row.read <= row.delivered /\ row.delivered <= conv'.lastSeq
       /\ row.clear <= conv'.lastSeq
    BY <1>2, <1>3, <2>2 DEF Larger
  <2>4. QED
    BY <2>1, <2>3, OneState
<1>6. QED
  BY <1>4, <1>5

LEMMA ClearMoves ==
  ASSUME CursorInv, [Next]_vars, NEW r \in Requests, ClearWrite(r)
  PROVE  CursorsMove
<1> DEFINE u == req[r].user
           row == [state[u] EXCEPT !.clear = Larger(state[u].clear, req[r].seq),
                                   !.unread = 0, !.mention = 0]
<1>1. Typed
  BY DEF CursorInv, AnswerInv
<1>2. u \in Users /\ req[r].seq \in Nat /\ req[r].seq <= conv.lastSeq
  BY <1>1, RequestCases DEF Typed, ClearWrite, CursorInv, AnswerInv, HandlersAreSound
<1>3. /\ state[u] \in StateRow
      /\ state[u].delivered \in Nat /\ state[u].read \in Nat /\ conv.lastSeq \in Nat
      /\ state[u].read <= state[u].delivered /\ state[u].delivered <= conv.lastSeq
      /\ state[u].clear <= conv.lastSeq
  BY <1>1, <1>2, StateTypes DEF CursorInv, CursorsInOrder
<1>4. state' = [state EXCEPT ![u] = row] /\ conv' = conv
  BY DEF ClearWrite
<1>5. row.delivered = state[u].delivered /\ row.read = state[u].read
      /\ row.clear = Larger(state[u].clear, req[r].seq)
  BY <1>3 DEF StateRow
<1> HIDE DEF row, u
<1>6. /\ row.delivered >= state[u].delivered /\ row.read >= state[u].read
     /\ row.read <= row.delivered /\ row.delivered <= conv'.lastSeq
     /\ row.clear <= conv'.lastSeq
  BY <1>2, <1>3, <1>4, <1>5 DEF Larger
<1>7. QED
  BY <1>2, <1>4, <1>6, OneState

\* addMember's upsert sets the cursors of a member who was there before to
\* last_seq, which is not behind them.
LEMMA AddMemberMoves ==
  ASSUME CursorInv, [Next]_vars, NEW a \in Users, NEW u \in Users, AddMember(a, u)
  PROVE  CursorsMove
<1> DEFINE row == FreshState(conv.lastSeq)
<1>1. Typed
  BY DEF CursorInv, AnswerInv
<1>2. conv'.lastSeq = conv.lastSeq + 1 /\ conv.lastSeq \in Nat
  BY <1>1 DEF AddMember, AppendSystem, AppendMessage, Typed, TypeOK, ConvRow
<1>3. /\ state[u].delivered \in Nat /\ state[u].read \in Nat
      /\ state[u].read <= state[u].delivered /\ state[u].delivered <= conv.lastSeq
  BY <1>1, StateTypes DEF CursorInv, CursorsInOrder
<1>4. state' = [state EXCEPT ![u] = row]
  BY DEF AddMember
<1>5. row.delivered = conv.lastSeq /\ row.read = conv.lastSeq /\ row.clear = 0
  BY DEF FreshState
<1> HIDE DEF row
<1>6. /\ row.delivered >= state[u].delivered /\ row.read >= state[u].read
     /\ row.read <= row.delivered /\ row.delivered <= conv'.lastSeq
     /\ row.clear <= conv'.lastSeq
  BY <1>2, <1>3, <1>4, <1>5
<1>7. QED
  BY <1>4, <1>6, OneState

LEMMA StepMoves == CursorInv /\ [Next]_vars => CursorsMove
<1> SUFFICES ASSUME CursorInv, [Next]_vars PROVE CursorsMove
  OBVIOUS
<1>1. CASE MessagingNext
  <2>1. ASSUME NEW r \in Requests,
               \/ \E u \in Users, c \in ClientIds, b \in Bodies :
                    SendLookup(r, u, c, b) \/ SendRepeat(r, u, c, b)
               \/ SendReadMembers(r) \/ SendReadPolicy(r) \/ SendDuplicate(r)
               \/ SendAnswer(r) \/ Abort(r) \/ \E u \in Users : ClearRead(r, u)
        PROVE  state' = state
    BY <2>1 DEF SendLookup, SendRepeat, SendReadMembers, SendReadPolicy, SendDuplicate,
                SendAnswer, Abort, ClearRead
  <2>2. SetBlocked => state' = state
    BY DEF SetBlocked
  <2>3. QED
    BY <1>1, <2>1, <2>2, SameState, SendMoves, ReceiptMoves, ClearMoves, Zenon
       DEF MessagingNext
<1>2. CASE GroupNext
  <2>1. \/ state' = state
        \/ \E a, u \in Users : AddMember(a, u)
    <3>1. ASSUME NEW a \in Users, NEW u \in Users,
                 \/ Invite(a, u) \/ RejectJoin(a, u) \/ Remove(a, u) \/ TransferOwner(a, u)
                 \/ RejectInvite(u) \/ RequestJoin(u) \/ Leave(u) \/ Disband(u) \/ MuteExpires(u)
                 \/ \E p \in Profiles : UpdateProfile(a, p)
                 \/ \E role \in RoleInputs, mute \in MuteInputs : UpdateMember(a, u, role, mute)
          PROVE  state' = state
      BY <3>1 DEF Invite, RejectJoin, Remove, TransferOwner, RejectInvite, RequestJoin, Leave,
                  Disband, MuteExpires, UpdateProfile, UpdateMember, DropMember
    <3>2. ASSUME NEW a \in Users, NEW u \in Users,
                 ApproveJoin(a, u) \/ AcceptInvite(u) \/ JoinOpen(u)
          PROVE  \E b, v \in Users : AddMember(b, v)
      BY <3>2 DEF ApproveJoin, AcceptInvite, JoinOpen
    <3>3. QED
      BY <1>2, <3>1, <3>2, Zenon DEF GroupNext
  <2>2. QED
    BY <2>1, SameState, AddMemberMoves
<1>3. CASE UNCHANGED vars
  BY <1>3, SameState DEF vars
<1>4. QED
  BY <1>1, <1>2, <1>3 DEF Next

LEMMA InitCursors == Init => CursorInv
<1> SUFFICES ASSUME Init PROVE CursorInv
  OBVIOUS
<1>1. ASSUME NEW u \in Users
      PROVE  state[u].delivered = 0 /\ state[u].read = 0 /\ state[u].clear = 0
  BY DEF Init, FreshState
<1>2. conv.lastSeq = 0
  BY DEF Init
<1>3. QED
  BY <1>1, <1>2, InitAnswers DEF CursorInv, CursorsInOrder

LEMMA NextCursors == CursorInv /\ [Next]_vars => CursorInv'
  BY NextAnswers, StepMoves DEF CursorInv, CursorsMove

\* read <= delivered <= last_seq and clear <= last_seq for every user, through
\* sends, receipts, clears, and leaving and joining again.
THEOREM CursorsCorrect == Spec => []CursorsInOrder
<1>1. CursorInv => CursorsInOrder
  BY DEF CursorInv
<1>2. QED
  BY <1>1, InitCursors, NextCursors, PTL DEF Spec

\* No step moves anybody's delivered or read cursor back (advanceReceipt's max,
\* sendText's GREATEST, addMember's upsert to last_seq).
THEOREM CursorsAdvance == Spec => CursorsOnlyAdvance
<1>1. CursorInv /\ [Next]_vars
        => [\A u \in Users : /\ state'[u].delivered >= state[u].delivered
                             /\ state'[u].read >= state[u].read]_vars
  BY StepMoves DEF CursorsMove
<1>2. QED
  BY <1>1, InitCursors, NextCursors, PTL DEF Spec, CursorsOnlyAdvance

-----------------------------------------------------------------------------
(***************************************************************************)
(* A conversation implements MessageLog.                                   *)
(***************************************************************************)

Entries == [sender : Users, cid : ClientIds \cup {SystemId}, body : Bodies \cup {SystemBody}]

RefInv == AnswerInv /\ LogInv

LEMMA InitRef == Init => RefInv
  BY InitAnswers, InitLog DEF RefInv

LEMMA NextRef == RefInv /\ [Next]_vars => RefInv'
  BY NextAnswers, NextLog DEF RefInv

\* The row at a position is the one with that seq.
PostsMatch ==
  /\ HighestSeq \in Nat
  /\ Posts \in Seq(Entries) /\ Len(Posts) = HighestSeq
  /\ DOMAIN Posts = 1..HighestSeq
  /\ \A m \in messages : m.seq \in 1..HighestSeq /\ Posts[m.seq] = Entry(m)
  /\ \A s \in 1..HighestSeq : \E m \in messages : m.seq = s

LEMMA PostsAt == RefInv => PostsMatch
<1> SUFFICES ASSUME RefInv PROVE PostsMatch
  OBVIOUS
<1>1. HighestSeq \in Nat
  BY DEF RefInv, LogInv, Typed, TypeOK, ConvRow, HighestSeq
<1>2. /\ {m.seq : m \in messages} = 1..HighestSeq
      /\ \A m1, m2 \in messages : m1.seq = m2.seq => m1 = m2
  BY DEF RefInv, LogInv, SeqsAreDense
<1>3. \A s \in 1..HighestSeq : \E m \in messages : m.seq = s
  BY <1>2
<1>4. \A s \in 1..HighestSeq : At(s) \in messages /\ At(s).seq = s
  BY <1>3 DEF At
<1>5. \A m \in messages : m \in MessageRow
  BY DEF RefInv, LogInv, Typed, TypeOK
<1>6. \A s \in 1..HighestSeq : Entry(At(s)) \in Entries
  BY <1>4, <1>5 DEF Entry, Entries, MessageRow
<1>7. Posts \in [1..HighestSeq -> Entries]
  BY <1>6 DEF Posts
<1>8. \A m \in messages : m.seq \in 1..HighestSeq /\ Posts[m.seq] = Entry(m)
  <2> SUFFICES ASSUME NEW m \in messages
               PROVE  m.seq \in 1..HighestSeq /\ Posts[m.seq] = Entry(m)
    OBVIOUS
  <2>1. m.seq \in 1..HighestSeq
    BY <1>2
  <2>2. At(m.seq) = m
    BY <2>1, <1>2, <1>4
  <2>3. QED
    BY <2>1, <2>2 DEF Posts
<1>9. Posts \in Seq(Entries) /\ Len(Posts) = HighestSeq
  BY <1>1, <1>7
<1>10. QED
  BY <1>1, <1>3, <1>7, <1>8, <1>9 DEF PostsMatch

\* Appending a row appends its entry.
LEMMA PostsAppend ==
  ASSUME RefInv, RefInv', NEW s \in Users, NEW c \in ClientIds \cup {SystemId},
         NEW b \in Bodies \cup {SystemBody}, NEW a, Writes(s, c, b, a)
  PROVE  Posts' = Append(Posts, [sender |-> s, cid |-> c, body |-> b])
<1> DEFINE new == [seq |-> HighestSeq + 1, sender |-> s, cid |-> c, body |-> b]
           e == [sender |-> s, cid |-> c, body |-> b]
<1>1. HighestSeq' = HighestSeq + 1 /\ messages' = messages \cup {new}
  BY DEF Writes
<1>2. e \in Entries /\ Entry(new) = e /\ new.seq = HighestSeq + 1
  BY DEF Entries, Entry
<1>3. /\ HighestSeq \in Nat /\ Posts \in Seq(Entries) /\ Len(Posts) = HighestSeq
      /\ \A m \in messages : Posts[m.seq] = Entry(m)
      /\ \A i \in 1..HighestSeq : \E m \in messages : m.seq = i
  BY PostsAt DEF PostsMatch
<1>4. /\ Posts' \in Seq(Entries) /\ Len(Posts') = HighestSeq'
      /\ \A m \in messages' : Posts'[m.seq] = Entry(m)
  <2>1. RefInv' => PostsMatch'
    BY PostsAt, PTL
  <2>2. QED
    BY <2>1 DEF PostsMatch, Entries, Entry
<1> HIDE DEF new, e
<1>5. Posts'[HighestSeq + 1] = e
  BY <1>1, <1>2, <1>4
<1>6. \A i \in 1..HighestSeq : Posts'[i] = Posts[i]
  BY <1>1, <1>3, <1>4
<1>7. /\ Append(Posts, e) \in Seq(Entries) /\ Len(Append(Posts, e)) = HighestSeq + 1
      /\ \A i \in 1..HighestSeq : Append(Posts, e)[i] = Posts[i]
      /\ Append(Posts, e)[HighestSeq + 1] = e
  BY <1>2, <1>3
<1>8. \A i \in 1..HighestSeq + 1 : Posts'[i] = Append(Posts, e)[i]
  <2> SUFFICES ASSUME NEW i \in 1..HighestSeq + 1 PROVE Posts'[i] = Append(Posts, e)[i]
    OBVIOUS
  <2>1. i = HighestSeq + 1 \/ i \in 1..HighestSeq
    BY <1>3
  <2>2. QED
    BY <2>1, <1>5, <1>6, <1>7
<1>9. Posts' = Append(Posts, e)
  BY <1>1, <1>4, <1>7, <1>8, SeqEqual
<1>10. QED
  BY <1>9 DEF e

LEMMA PostsKept == WritesNothing => Posts' = Posts
  BY DEF WritesNothing, Posts, HighestSeq, At, Entry

\* Only the answer itself changes what clients have been told.
LEMMA StepAccepts == [Next]_vars => accepted' = accepted \/ \E r \in Requests : SendAnswer(r)
<1>1. MessagingNext => accepted' = accepted \/ \E r \in Requests : SendAnswer(r)
  <2>1. ASSUME NEW r \in Requests,
               \/ SendReadMembers(r) \/ SendReadPolicy(r) \/ SendCommit(r)
               \/ SendDuplicate(r) \/ Abort(r) \/ ClearWrite(r)
        PROVE  accepted' = accepted
    BY <2>1 DEF SendReadMembers, SendReadPolicy, SendCommit, SendDuplicate, Abort, ClearWrite
  <2>2. ASSUME NEW r \in Requests, NEW u \in Users,
               \/ \E c \in ClientIds, b \in Bodies :
                    SendLookup(r, u, c, b) \/ SendRepeat(r, u, c, b)
               \/ ClearRead(r, u)
        PROVE  accepted' = accepted
    BY <2>2 DEF SendLookup, SendRepeat, ClearRead
  <2>3. ASSUME \/ \E u \in Users, seq \in 0..MaxSeq : MarkDelivered(u, seq) \/ MarkRead(u, seq)
               \/ SetBlocked
        PROVE  accepted' = accepted
    BY <2>3, ReceiptHandlers
  <2>4. QED
    BY <2>1, <2>2, <2>3, Zenon DEF MessagingNext
<1>2. QED
  BY <1>1, GroupHandlers DEF Next, vars

LEMMA WriteRefines ==
  ASSUME RefInv, RefInv', accepted' = accepted, WritesOne
  PROVE  Log!Next
<1>1. PICK s \in Users, c \in ClientIds \cup {SystemId}, b \in Bodies \cup {SystemBody},
           a \in SUBSET Users : Writes(s, c, b, a)
  BY DEF WritesOne
<1>2. Posts' = Append(Posts, [sender |-> s, cid |-> c, body |-> b])
  BY <1>1, PostsAppend
<1>3. Fresh(s, c, b)
  BY <1>1 DEF Writes
<1>4. CASE c = SystemId /\ b = SystemBody
  BY <1>2, <1>4 DEF Log!Next, Log!Note, Log!Item
<1>5. CASE c \in ClientIds /\ b \in Bodies /\ Posted(s, c) = {}
  <2>1. \A i \in DOMAIN Posts : ~(Posts[i].sender = s /\ Posts[i].cid = c)
    <3> SUFFICES ASSUME NEW i \in DOMAIN Posts, Posts[i].sender = s, Posts[i].cid = c
                 PROVE  FALSE
      OBVIOUS
    <3>1. PICK m \in messages : m.seq = i
      BY PostsAt DEF PostsMatch
    <3>2. Posts[i] = Entry(m)
      BY <3>1, PostsAt DEF PostsMatch
    <3>3. m \in Posted(s, c)
      BY <3>2 DEF Entry, Posted
    <3>4. QED
      BY <3>3, <1>5
  <2>2. Log!Post(s, c, b)
    BY <1>2, <2>1 DEF Log!Post, Log!Item
  <2>3. QED
    BY <1>5, <2>2 DEF Log!Next
<1>6. QED
  BY <1>3, <1>4, <1>5 DEF Fresh

LEMMA AnswerRefines ==
  ASSUME RefInv, NEW r \in Requests, SendAnswer(r)
  PROVE  Log!Next
<1> DEFINE q == req[r]
<1>1. q \in SendRequest
  BY RequestCases DEF SendAnswer, RefInv, AnswerInv, Typed
<1>2. Row(q) \in messages
  BY DEF SendAnswer, RefInv, AnswerInv, HandlersAreSound, Row
<1>3. Row(q).seq = q.seq /\ Entry(Row(q)) = [sender |-> q.user, cid |-> q.cid, body |-> q.body]
  BY DEF Row, Entry
<1>4. q.seq \in DOMAIN Posts /\ Posts[q.seq] = Log!Item(q.user, q.cid, q.body)
  BY <1>2, <1>3, PostsAt DEF PostsMatch, Log!Item
<1>5. Posts' = Posts
  BY DEF SendAnswer, Posts, HighestSeq, At, Entry
<1>6. accepted' = accepted \cup {[user |-> q.user, cid |-> q.cid, body |-> q.body, seq |-> q.seq]}
  BY DEF SendAnswer
<1>7. Log!Acknowledge(q.user, q.cid, q.body)
  BY <1>4, <1>5, <1>6 DEF Log!Acknowledge
<1>8. QED
  BY <1>1, <1>7 DEF SendRequest, Log!Next

\* The rows, handlers and retries of a conversation implement the log that
\* MessageLog describes: initial states map to the empty log, and every step to
\* Post, Note, Acknowledge or a stutter.
THEOREM LogRefined == Spec => ImplementsLog
<1>1. Init => Log!Init
  <2> SUFFICES ASSUME Init PROVE Log!Init
    OBVIOUS
  <2>1. HighestSeq = 0 /\ accepted = {}
    BY DEF Init, HighestSeq
  <2>2. Posts = <<>>
    BY <2>1 DEF Posts
  <2>3. QED
    BY <2>1, <2>2 DEF Log!Init
<1>2. RefInv /\ RefInv' /\ [Next]_vars => [Log!Next]_<<Posts, accepted>>
  <2> SUFFICES ASSUME RefInv, RefInv', [Next]_vars PROVE [Log!Next]_<<Posts, accepted>>
    OBVIOUS
  <2>1. WritesNothing \/ WritesOne
    BY StepWrites DEF RefInv, LogInv
  <2>2. CASE \E r \in Requests : SendAnswer(r)
    BY <2>2, AnswerRefines
  <2>3. CASE accepted' = accepted
    BY <2>1, <2>3, PostsKept, WriteRefines
  <2>4. QED
    BY <2>2, <2>3, StepAccepts
<1>3. QED
  BY <1>1, <1>2, InitRef, NextRef, PTL DEF Spec, ImplementsLog, Log!Spec
=============================================================================
