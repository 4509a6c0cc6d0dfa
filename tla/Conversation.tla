---------------------------- MODULE Conversation ----------------------------
(***************************************************************************)
(* The rows of one conversation in PostgreSQL, and the API request         *)
(* handlers that are in the middle of a transaction on them.               *)
(*                                                                         *)
(* Every variable but req and accepted is COMMITTED database state.  A     *)
(* handler's statements up to the first row lock that serialises it are    *)
(* steps of their own, because READ COMMITTED gives each statement a new   *)
(* snapshot; from that lock to COMMIT nobody can see or change the rows    *)
(* it works on, so that part is one step.                                  *)
(***************************************************************************)
EXTENDS Integers, FiniteSets

CONSTANTS
  Users,        \* users that may have rows in this conversation
  Requests,     \* API request handlers running at the same time
  ClientIds,    \* clientMessageId values chosen by the clients
  Bodies,       \* message contents, equal iff their content hashes are
  Mention,      \* Mention[b]: the users the text b mentions by name
  MentionAll,   \* the bodies that set mentionAll
  ConvType,     \* "DIRECT" or "GROUP"
  Creator,      \* who created the conversation
  Founders,     \* the members it was created with
  Profiles,     \* group profiles that create and updateProfile may write
  RoleInputs,   \* role fields of updateMember requests, "KEEP" for an absent one
  MuteInputs,   \* muteUntil fields: "MUTE" in the future, "UNMUTE" null or past
  SystemId,     \* stands for the fresh clientMessageId of a system message
  SystemBody,   \* stands for the payload of a system message
  NoOne,        \* a NULL owner_id
  MaxSeq        \* bound on last_seq

Roles == {"OWNER", "ADMIN", "MEMBER"}

Profile == [maxMembers : Nat, joinMode : {"INVITE_ONLY", "REQUEST", "OPEN"},
            allowMemberInvites : BOOLEAN, allMembersMuted : BOOLEAN]

ASSUME ConversationAssumption ==
  /\ ConvType \in {"DIRECT", "GROUP"}
  /\ IsFiniteSet(Users)
  /\ Founders \subseteq Users /\ Creator \in Founders
  /\ ConvType = "DIRECT" => Cardinality(Founders) = 2
  /\ ConvType = "GROUP" => Founders = {Creator}
  /\ Mention \in [Bodies -> SUBSET Users]
  /\ MentionAll \subseteq Bodies
  /\ SystemId \notin ClientIds /\ SystemBody \notin Bodies /\ NoOne \notin Users
  /\ Profiles \subseteq Profile
  /\ RoleInputs \subseteq {"KEEP", "ADMIN", "MEMBER"}
  /\ MuteInputs \subseteq {"KEEP", "MUTE", "UNMUTE"}
  /\ MaxSeq \in Nat

VARIABLES
  conv,         \* the conversations row
  profile,      \* the group_profiles row
  member,       \* conversation_members, one row per user ("NONE": no row)
  state,        \* conversation_user_states, one row per user
  messages,     \* messages rows
  outbox,       \* outbox_events rows: for a message its seq and audience, for
                \* a cursor or view change whose it was
  invites,      \* invitees of PENDING group_invites rows
  joinRequests, \* users of PENDING group_join_requests rows
  blocked,      \* a blocks row joins the two parties of a DIRECT conversation
  req,          \* what each request handler is doing
  accepted      \* MessageAccepted answers that have reached their clients

vars == <<conv, profile, member, state, messages, outbox, invites,
          joinRequests, blocked, req, accepted>>

-----------------------------------------------------------------------------
ConvRow == [status : {"ACTIVE", "DELETED"}, lastSeq : Nat,
            memberCount : Int, owner : Users \cup {NoOne}]

MemberRow == [status : {"NONE", "ACTIVE", "LEFT", "REMOVED"}, role : Roles,
              muted : BOOLEAN]

StateRow == [exists : BOOLEAN, delivered : Nat, read : Nat, clear : Nat,
             unread : Nat, mention : Nat]

\* countsUnread is TRUE for a user's message and FALSE for a system message.
MessageRow == [seq : Nat, sender : Users, cid : ClientIds \cup {SystemId},
               body : Bodies \cup {SystemBody}]

EventRow ==
  [type : {"conversation.created"}, audience : SUBSET Users]
    \cup [type : {"message.created"}, seq : Nat, audience : SUBSET Users]
    \cup [type : {"receipt.updated", "conversation.updated"}, user : Users]

Idle == [pc |-> "idle", user |-> NoOne, cid |-> SystemId, body |-> SystemBody,
         role |-> "MEMBER", audience |-> {}, seq |-> 0]

Request ==
  {Idle}
    \cup [pc : {"members", "policy", "allocate", "answer"}, user : Users,
          cid : ClientIds, body : Bodies, role : Roles,
          audience : SUBSET Users, seq : Nat]
    \cup [pc : {"clear"}, user : Users, cid : {SystemId}, body : {SystemBody},
          role : {"MEMBER"}, audience : {{}}, seq : Nat]

TypeOK ==
  /\ conv \in ConvRow
  /\ profile \in Profile
  /\ member \in [Users -> MemberRow]
  /\ state \in [Users -> StateRow]
  /\ messages \subseteq MessageRow
  /\ outbox \subseteq EventRow
  /\ invites \subseteq Users
  /\ joinRequests \subseteq Users
  /\ blocked \in BOOLEAN
  /\ req \in [Requests -> Request]
  /\ accepted \subseteq [user : Users, cid : ClientIds, body : Bodies, seq : Nat]

-----------------------------------------------------------------------------
Larger(a, b) == IF a > b THEN a ELSE b

IsActive(u) == member[u].status = "ACTIVE"

Active == {u \in Users : IsActive(u)}

CountsUnread(m) == m.cid # SystemId

\* The count that READ stores: what others wrote beyond the read cursor.
UnreadAfter(u, seq) ==
  Cardinality({m \in messages : m.seq > seq /\ m.sender # u /\ CountsUnread(m)})

\* Mutant: a returning member starts from zero.
FreshStateFromZero(seq) ==
  [exists |-> TRUE, delivered |-> 0, read |-> 0, clear |-> 0, unread |-> 0,
   mention |-> 0]

FreshState(seq) == [exists |-> TRUE, delivered |-> seq, read |-> seq,
                    clear |-> 0, unread |-> 0, mention |-> 0]

Created(seq, audience) ==
  [type |-> "message.created", seq |-> seq, audience |-> audience]

Finish(r) == req' = [req EXCEPT ![r] = Idle]

\* Mutant: ACTIVE is not checked again under the row lock.
AppendToAnyConversation(c, sender, cid, body, audience) ==
  /\ conv.lastSeq < MaxSeq
  /\ conv' = [c EXCEPT !.lastSeq = conv.lastSeq + 1]
  /\ messages' = messages \cup {[seq |-> conv.lastSeq + 1, sender |-> sender,
                                 cid |-> cid, body |-> body]}
  /\ outbox' = outbox \cup {Created(conv.lastSeq + 1, audience)}

\* The transaction of a command that allocates a seq: UPDATE conversations
\* takes the row lock and re-checks ACTIVE, then the message and the outbox
\* event are written (last_message_id always follows last_seq and is left out).
\* c is the conversations row as the command has left it so far.
AppendMessage(c, sender, cid, body, audience) ==
  /\ conv.status = "ACTIVE"
  /\ conv.lastSeq < MaxSeq
  /\ conv' = [c EXCEPT !.lastSeq = conv.lastSeq + 1]
  /\ messages' = messages \cup {[seq |-> conv.lastSeq + 1, sender |-> sender,
                                 cid |-> cid, body |-> body]}
  /\ outbox' = outbox \cup {Created(conv.lastSeq + 1, audience)}

\* A new conversation: createDirect with both parties, or create with the
\* creator as OWNER; in both no message yet.
Init ==
  /\ conv = [status |-> "ACTIVE", lastSeq |-> 0,
             memberCount |-> Cardinality(Founders),
             owner |-> IF ConvType = "GROUP" THEN Creator ELSE NoOne]
  /\ profile \in Profiles
  /\ member = [u \in Users |->
       [status |-> IF u \in Founders THEN "ACTIVE" ELSE "NONE",
        role |-> IF ConvType = "GROUP" /\ u = Creator THEN "OWNER" ELSE "MEMBER",
        muted |-> FALSE]]
  /\ state = [u \in Users |-> [FreshState(0) EXCEPT !.exists = u \in Founders]]
  /\ outbox = {[type |-> "conversation.created", audience |-> Founders]}
  /\ messages = {} /\ invites = {} /\ joinRequests = {}
  /\ blocked = FALSE
  /\ req = [r \in Requests |-> Idle]
  /\ accepted = {}
=============================================================================
