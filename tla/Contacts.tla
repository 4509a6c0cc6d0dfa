-------------------------------- MODULE Contacts --------------------------------
(***************************************************************************)
(* What two users are to each other: ContactService (friend requests,      *)
(* contacts, blocks), what UserService.deleteCurrent removes of it, and    *)
(* ConversationCommandService.createDirect, which asks for it.             *)
(*                                                                         *)
(* Under READ COMMITTED the checks of a transaction are one step and its   *)
(* writes, which become visible at the commit, another. Only a decision    *)
(* locks a row: the friend request.                                        *)
(* The guard that lets a deleted account's requests in no more belongs to  *)
(* the checks.                                                             *)
(***************************************************************************)
EXTENDS Integers, Sequences, FiniteSets, SequencesExt

CONSTANTS
  Pair,         \* the two users
  Handlers,     \* requests that can be in flight at once
  MaxRequests   \* bound of the model: friend requests ever made

ASSUME ContactsAssumption == Cardinality(Pair) = 2 /\ MaxRequests \in Nat

VARIABLES
  present,   \* users whose status is ACTIVE
  friend,    \* friendships rows
  blocks,    \* blocks rows
  request,   \* friend_requests of the pair, in the order of creation
  direct,    \* the DIRECT conversations of the pair
  handler,   \* requests under way
  crossed    \* history: relations written after what had been checked changed

contactsVars == <<present, friend, blocks, request, direct, handler, crossed>>

Other(u) == CHOOSE v \in Pair : v # u
Both == {<<u, Other(u)>> : u \in Pair}

Steps ==
  {"free", "asking", "accepting", "rejecting", "checked", "blocking", "unfriending", "opening"}

FriendRequest == [from : Pair, status : {"PENDING", "ACCEPTED", "REJECTED", "CANCELLED", "GONE"}]

ContactsTypeOK ==
  /\ present \subseteq Pair /\ friend \subseteq Both /\ blocks \subseteq Both
  /\ request \in Seq(FriendRequest) /\ direct \in Nat
  /\ handler \in [Handlers -> [pc : Steps, user : Pair, row : Nat, found : SUBSET Both,
                               overtaken : BOOLEAN]]
  /\ crossed \subseteq {"friend", "request", "block", "direct"}

Free == [pc |-> "free", user |-> CHOOSE u \in Pair : TRUE, row |-> 0, found |-> {},
         overtaken |-> FALSE]

ContactsInit ==
  /\ present = Pair /\ friend = {} /\ blocks = {} /\ request = <<>> /\ direct = 0
  /\ handler = [h \in Handlers |-> Free] /\ crossed = {}

Pending == {i \in DOMAIN request : request[i].status = "PENDING"}

\* The requests that are S go to a status.
Turn(S, status) ==
  request' = [i \in DOMAIN request |->
                IF i \in S THEN [request[i] EXCEPT !.status = status] ELSE request[i]]

Goto(h, pc, u) == handler' = [handler EXCEPT ![h] = [Free EXCEPT !.pc = pc, !.user = u]]

Finish(h) == handler' = [handler EXCEPT ![h] = Free]

\* The other handlers have checked what is no longer so.
FinishOvertaking(h) ==
  handler' = [g \in Handlers |->
                IF g = h THEN Free
                ELSE [handler[g] EXCEPT !.overtaken = (handler[g].pc # "free")]]

\* A relation is written by h, and it says whether its checks were overtaken.
Writes(h, relation) ==
  crossed' = IF handler[h].overtaken THEN crossed \cup {relation} ELSE crossed \ {relation}

-----------------------------------------------------------------------------
(* Friend requests *)

\* createFriendRequest: an ACTIVE recipient, no block, not a contact, none PENDING.
\* What the recipient's privacy setting says is left open.
AskCheck(h, u) ==
  /\ handler[h] = Free /\ present = Pair
  /\ blocks = {} /\ <<u, Other(u)>> \notin friend /\ Pending = {}
  /\ Goto(h, "asking", u)
  /\ UNCHANGED <<present, friend, blocks, request, direct, crossed>>

\* A partial unique index has one PENDING request of a pair.
AskCommit(h) ==
  /\ handler[h].pc = "asking" /\ Pending = {} /\ Len(request) < MaxRequests
  /\ request' = Append(request, [from |-> handler[h].user, status |-> "PENDING"])
  /\ Writes(h, "request") /\ Finish(h)
  /\ UNCHANGED <<present, friend, blocks, direct>>

Deciding == {h \in Handlers : handler[h].pc \in {"accepting", "rejecting"}}

\* Mutant: the request is read without FOR UPDATE.
RequestUnlocked(i) == TRUE

RequestFree(i) == \A h \in Deciding : handler[h].row # i

\* decideFriendRequest: the row is locked, then the block looked for. A request
\* that has been decided is answered or refused.
DecideLock(h, i, pc) ==
  /\ handler[h] = Free /\ RequestFree(i)
  /\ request[i].status = "PENDING" /\ blocks = {} /\ Other(request[i].from) \in present
  /\ handler' = [handler EXCEPT ![h] = [Free EXCEPT !.pc = pc, !.row = i]]
  /\ UNCHANGED <<present, friend, blocks, request, direct, crossed>>

RejectCommit(h) ==
  /\ handler[h].pc = "rejecting"
  /\ Turn({handler[h].row}, "REJECTED") /\ Finish(h)
  /\ UNCHANGED <<present, friend, blocks, direct, crossed>>

\* Friendships that a transaction has found and is about to delete are locked.
FriendshipFree == \A h \in Handlers : handler[h].found = {}

AcceptCommit(h) ==
  /\ handler[h].pc = "accepting" /\ FriendshipFree
  /\ Turn({handler[h].row}, "ACCEPTED")
  /\ friend' = friend \cup Both
  /\ crossed' = IF present # Pair \/ \E g \in Handlers : handler[g].pc = "blocking"
                  THEN crossed \cup {"friend"} ELSE crossed \ {"friend"}
  /\ Finish(h)
  /\ UNCHANGED <<present, blocks, direct>>

-----------------------------------------------------------------------------
(* Contacts and blocks *)

\* deleteContact finds the rows and deletes them.
DeleteStart(h, u) ==
  /\ handler[h] = Free /\ u \in present /\ <<u, Other(u)>> \in friend /\ FriendshipFree
  /\ handler' = [handler EXCEPT ![h] = [Free EXCEPT !.pc = "unfriending", !.found = friend]]
  /\ UNCHANGED <<present, friend, blocks, request, direct, crossed>>

DeleteCommit(h) ==
  /\ handler[h].pc = "unfriending"
  /\ friend' = friend \ handler[h].found
  /\ Finish(h)
  /\ UNCHANGED <<present, blocks, request, direct, crossed>>

BlockCheck(h, u) ==
  /\ handler[h] = Free /\ present = Pair
  /\ Goto(h, "checked", u)
  /\ UNCHANGED <<present, friend, blocks, request, direct, crossed>>

\* The blocks row is written, which nobody sees yet, and the friendships are found.
BlockStart(h) ==
  /\ handler[h].pc = "checked" /\ FriendshipFree
  /\ handler' = [handler EXCEPT ![h].pc = "blocking", ![h].found = friend]
  /\ UNCHANGED <<present, friend, blocks, request, direct, crossed>>

\* Mutant: PENDING requests stay.
BlockKeepsRequests(h) ==
  /\ handler[h].pc = "blocking" /\ Deciding = {}
  /\ blocks' = blocks \cup {<<handler[h].user, Other(handler[h].user)>>}
  /\ friend' = friend \ handler[h].found
  /\ Writes(h, "block") /\ FinishOvertaking(h)
  /\ UNCHANGED <<present, request, direct>>

\* The update of PENDING requests waits for a decision that holds one.
BlockCommit(h) ==
  /\ handler[h].pc = "blocking" /\ Deciding = {}
  /\ blocks' = blocks \cup {<<handler[h].user, Other(handler[h].user)>>}
  /\ friend' = friend \ handler[h].found
  /\ Turn(Pending, "CANCELLED")
  /\ Writes(h, "block") /\ FinishOvertaking(h)
  /\ UNCHANGED <<present, direct>>

Unblock(u) ==
  /\ u \in present /\ <<u, Other(u)>> \in blocks
  /\ blocks' = blocks \ {<<u, Other(u)>>}
  /\ UNCHANGED <<present, friend, request, direct, handler, crossed>>

Writing == {"accepting", "rejecting", "blocking", "unfriending"}

\* deleteCurrent locks the user row and so waits for the transactions that have
\* written rows that refer to it; those that have only read go on.
DeleteUser(u) ==
  /\ u \in present /\ present' = present \ {u}
  /\ \A h \in Handlers : handler[h].pc \notin Writing
  /\ friend' = {} /\ blocks' = {}
  /\ Turn(DOMAIN request, "GONE")
  /\ handler' = [h \in Handlers |-> [handler[h] EXCEPT !.overtaken = (handler[h].pc # "free")]]
  /\ UNCHANGED <<direct, crossed>>

\* A failed statement, a deadlock or a duplicate key rolls back.
RollsBack(h) ==
  /\ handler[h] # Free /\ Finish(h)
  /\ UNCHANGED <<present, friend, blocks, request, direct, crossed>>

-----------------------------------------------------------------------------
(* createDirect *)

\* Between contacts or, if the other allows it, strangers; an existing one is returned.
OpenCheck(h, u) ==
  /\ handler[h] = Free /\ direct = 0 /\ present = Pair /\ blocks = {}
  /\ Goto(h, "opening", u)
  /\ UNCHANGED <<present, friend, blocks, request, direct, crossed>>

\* Mutant: no unique index on direct_key.
OpenWithoutIndex(h) ==
  /\ handler[h].pc = "opening" /\ direct' = direct + 1
  /\ Writes(h, "direct") /\ Finish(h)
  /\ UNCHANGED <<present, friend, blocks, request>>

\* The unique index on direct_key refuses a second one; the first is returned.
OpenCommit(h) ==
  /\ handler[h].pc = "opening" /\ direct' = 1
  /\ IF direct = 0 THEN Writes(h, "direct") ELSE UNCHANGED crossed
  /\ Finish(h)
  /\ UNCHANGED <<present, friend, blocks, request>>

ContactsNext ==
  \/ \E h \in Handlers :
       \/ \E u \in Pair : AskCheck(h, u) \/ DeleteStart(h, u) \/ BlockCheck(h, u) \/ OpenCheck(h, u)
       \/ \E i \in DOMAIN request : \E pc \in {"accepting", "rejecting"} : DecideLock(h, i, pc)
       \/ AskCommit(h) \/ RejectCommit(h) \/ AcceptCommit(h) \/ DeleteCommit(h)
       \/ BlockStart(h) \/ BlockCommit(h) \/ RollsBack(h) \/ OpenCommit(h)
  \/ \E u \in Pair : Unblock(u) \/ DeleteUser(u)

ContactsSpec == ContactsInit /\ [][ContactsNext]_contactsVars

-----------------------------------------------------------------------------
(* Properties *)

\* Between users one of whom blocks the other there is no friendship and no PENDING
\* request, unless one was written by a transaction that had passed its own check
\* before the block committed.
BlockEndsContact ==
  blocks # {} => /\ friend = {} \/ "friend" \in crossed
                 /\ Pending = {} \/ "request" \in crossed

\* A deleted account leaves no relation behind, of either direction, but those that
\* a transaction writes that had looked at the account before.
AccountsLeaveNothing ==
  present # Pair => /\ friend = {} \/ "friend" \in crossed
                    /\ blocks = {} \/ "block" \in crossed
                    /\ \/ \A i \in DOMAIN request : request[i].status = "GONE"
                       \/ "request" \in crossed

\* Whatever ends a relation - a block, a deleted account - ends all of it, and what
\* runs across it is the only exception.
RelationsEnd == BlockEndsContact /\ AccountsLeaveNothing

\* A request is decided once: what is accepted, rejected or cancelled stays so,
\* whoever decides it again and whoever blocks whom meanwhile.
DecisionsAreFinal ==
  [][\A i \in DOMAIN request : request[i].status # "PENDING" =>
       request'[i].status \in {request[i].status, "GONE"}]_contactsVars

\* Two users who open their conversation at once open one, and none is opened while
\* one blocks the other, unless the block committed after it had been looked for.
OpenedOnceUnblocked ==
  [][direct' # direct =>
       direct = 0 /\ (blocks = {} \/ "direct" \in crossed')]_contactsVars
=============================================================================
