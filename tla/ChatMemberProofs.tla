-------------------------- MODULE ChatMemberProofs --------------------------
(***************************************************************************)
(* The membership of a group of any size: active members have their state  *)
(* row, one of them at most is OWNER, and a disbanded group stays as it is *)
(* although senders that passed their checks before are still running;     *)
(* member_count and unread_count, which the code caches, never fall behind *)
(* what they count.                                                        *)
(***************************************************************************)
EXTENDS ChatProofs

MemberInv == Typed /\ DeletedIsEmpty /\ MembersHaveState /\ AtMostOneOwner

\* What a step leaves.
MembersSound ==
  /\ DeletedIsEmpty' /\ MembersHaveState' /\ AtMostOneOwner'
  /\ conv.status = "DELETED" => \A u \in Users : ~(IsActive(u)')

LEMMA MemberTypes ==
  ASSUME Typed
  PROVE  /\ member \in [Users -> MemberRow] /\ state \in [Users -> StateRow]
         /\ conv \in ConvRow
  BY DEF Typed, TypeOK

LEMMA KeptMembers ==
  ASSUME MemberInv, member' = member, conv'.owner = conv.owner, conv'.status = conv.status,
         \A u \in Users : state[u].exists => state'[u].exists
  PROVE  MembersSound
  BY DEF MemberInv, MembersSound, DeletedIsEmpty, MembersHaveState, AtMostOneOwner, Active,
         IsActive

\* A step that neither makes anybody an active member nor an OWNER.
LEMMA FewerMembers ==
  ASSUME MemberInv, conv'.owner = conv.owner, conv'.status = conv.status, state' = state,
         \A u \in Users : /\ IsActive(u)' => IsActive(u)
                          /\ member'[u].role = "OWNER" => member[u].role = "OWNER"
  PROVE  MembersSound
  BY DEF MemberInv, MembersSound, DeletedIsEmpty, MembersHaveState, AtMostOneOwner, Active,
         IsActive

LEMMA AddedMember ==
  ASSUME MemberInv, NEW a \in Users, NEW u \in Users, AddMember(a, u)
  PROVE  MembersSound
<1>1. conv.status = "ACTIVE" /\ conv'.status = "ACTIVE" /\ conv'.owner = conv.owner
  BY MemberTypes DEF MemberInv, AddMember, AppendSystem, AppendMessage, ConvRow
<1>2. \A v \in Users :
        /\ IsActive(v)' => v = u \/ IsActive(v)
        /\ member'[v].role = IF v = u THEN "MEMBER" ELSE member[v].role
        /\ state'[v].exists = IF v = u THEN TRUE ELSE state[v].exists
  BY MemberTypes DEF MemberInv, AddMember, IsActive, FreshState
<1>3. QED
  BY <1>1, <1>2 DEF MemberInv, MembersSound, DeletedIsEmpty, MembersHaveState, AtMostOneOwner,
                    Active

LEMMA DroppedMember ==
  ASSUME MemberInv, NEW a \in Users, NEW u \in Users, NEW st \in {"LEFT", "REMOVED"}, NEW w,
         DropMember(a, u, st, w)
  PROVE  MembersSound
<1>1. conv'.status = conv.status /\ conv'.owner = conv.owner /\ state' = state
  BY MemberTypes DEF MemberInv, DropMember, AppendSystem, AppendMessage, ConvRow
<1>2. \A v \in Users : /\ IsActive(v)' => IsActive(v)
                       /\ member'[v].role = "OWNER" => member[v].role = "OWNER"
  BY MemberTypes DEF MemberInv, DropMember, IsActive, MemberRow
<1>3. QED
  BY <1>1, <1>2, FewerMembers

LEMMA MessagingMembers == MemberInv /\ MessagingNext => MembersSound
<1> SUFFICES ASSUME MemberInv, MessagingNext PROVE MembersSound
  OBVIOUS
<1>1. ASSUME NEW r \in Requests,
             \/ \E u \in Users, c \in ClientIds, b \in Bodies :
                  SendLookup(r, u, c, b) \/ SendRepeat(r, u, c, b)
             \/ SendReadMembers(r) \/ SendReadPolicy(r) \/ SendDuplicate(r)
             \/ SendAnswer(r) \/ Abort(r) \/ \E u \in Users : ClearRead(r, u)
      PROVE  MembersSound
  BY <1>1, KeptMembers
     DEF SendLookup, SendRepeat, SendReadMembers, SendReadPolicy, SendDuplicate,
         SendAnswer, Abort, ClearRead
<1>2. ASSUME NEW r \in Requests, SendCommit(r) PROVE MembersSound
  <2>1. conv'.owner = conv.owner /\ conv'.status = conv.status /\ member' = member
    BY <1>2, MemberTypes DEF MemberInv, SendCommit, AppendMessage, ConvRow
  <2>2. ASSUME NEW v \in Users, state[v].exists PROVE state'[v].exists
    <3>1. state[v] \in StateRow
      BY MemberTypes DEF MemberInv
    <3>2. state'[v] = IF v = req[r].user
                      THEN [state[v] EXCEPT
                              !.delivered = Larger(state[v].delivered, conv.lastSeq + 1),
                              !.read = Larger(state[v].read, conv.lastSeq + 1)]
                      ELSE [state[v] EXCEPT !.unread = state[v].unread + 1,
                              !.mention = IF Mentioned(req[r].body, v) THEN state[v].mention + 1
                                          ELSE state[v].mention]
      BY <1>2, <2>2 DEF SendCommit, StateAfterSend
    <3>3. CASE v = req[r].user
      BY <2>2, <3>1, <3>2, <3>3 DEF StateRow
    <3>4. CASE v # req[r].user
      BY <2>2, <3>1, <3>2, <3>4 DEF StateRow
    <3>5. QED
      BY <3>3, <3>4
  <2>3. QED
    BY <2>1, <2>2, KeptMembers
<1>3. ASSUME NEW u \in Users, NEW seq \in 0..MaxSeq, MarkDelivered(u, seq) \/ MarkRead(u, seq)
      PROVE  MembersSound
  <2>1. \A v \in Users : state[v].exists => state'[v].exists
    BY <1>3, MemberTypes DEF MemberInv, MarkDelivered, MarkRead, Receipt, StateRow
  <2>2. QED
    BY <1>3, <2>1, KeptMembers DEF MarkDelivered, MarkRead, Receipt
<1>4. ASSUME NEW r \in Requests, ClearWrite(r) PROVE MembersSound
  <2>1. \A v \in Users : state[v].exists => state'[v].exists
    BY <1>4, MemberTypes DEF MemberInv, ClearWrite, StateRow
  <2>2. QED
    BY <1>4, <2>1, KeptMembers DEF ClearWrite
<1>5. ASSUME SetBlocked PROVE MembersSound
  BY <1>5, KeptMembers DEF SetBlocked
<1>6. QED
  BY <1>1, <1>2, <1>3, <1>4, <1>5, Zenon DEF MessagingNext

LEMMA GroupMembers == MemberInv /\ GroupNext => MembersSound
<1> SUFFICES ASSUME MemberInv, GroupNext PROVE MembersSound
  OBVIOUS
<1>a. conv \in ConvRow /\ member \in [Users -> MemberRow]
  BY MemberTypes DEF MemberInv
<1>1. ASSUME NEW a \in Users, NEW p \in Profiles, UpdateProfile(a, p) PROVE MembersSound
  <2>1. conv'.owner = conv.owner /\ conv'.status = conv.status
    BY <1>1, <1>a DEF UpdateProfile, AppendSystem, AppendMessage, ConvRow
  <2>2. QED
    BY <1>1, <2>1, KeptMembers DEF UpdateProfile
<1>2. ASSUME NEW a \in Users, NEW u \in Users,
             Invite(a, u) \/ RejectJoin(a, u) \/ RejectInvite(u) \/ RequestJoin(u)
      PROVE  MembersSound
  BY <1>2, KeptMembers DEF Invite, RejectJoin, RejectInvite, RequestJoin
<1>3. ASSUME NEW a \in Users, NEW u \in Users,
             ApproveJoin(a, u) \/ AcceptInvite(u) \/ JoinOpen(u)
      PROVE  MembersSound
  BY <1>3, AddedMember DEF ApproveJoin, AcceptInvite, JoinOpen
<1>4. ASSUME NEW a \in Users, NEW u \in Users, Remove(a, u) \/ Leave(u) PROVE MembersSound
  BY <1>4, DroppedMember DEF Remove, Leave
<1>5. ASSUME NEW a \in Users, NEW u \in Users, TransferOwner(a, u) PROVE MembersSound
  <2>1. conv'.owner = u /\ conv'.status = conv.status /\ state' = state /\ conv.owner = a
        /\ u # a /\ conv.status = "ACTIVE"
    BY <1>5, <1>a DEF TransferOwner, AppendSystem, AppendMessage, ConvRow, MemberInv,
                      AtMostOneOwner, LockGroup, Active
  <2>2. \A v \in Users :
          /\ IsActive(v)' = IsActive(v)
          /\ member'[v].role = IF v = u THEN "OWNER" ELSE IF v = a THEN "ADMIN"
                               ELSE member[v].role
    BY <1>5, <1>a DEF TransferOwner, IsActive, MemberRow
  <2>3. QED
    BY <2>1, <2>2 DEF MemberInv, MembersSound, DeletedIsEmpty, MembersHaveState,
                      AtMostOneOwner, Active
<1>6. ASSUME NEW u \in Users, Disband(u) PROVE MembersSound
  <2>1. \A v \in Users : ~(IsActive(v)')
    BY <1>6, <1>a DEF Disband, IsActive, MemberRow
  <2>2. QED
    BY <2>1 DEF MembersSound, DeletedIsEmpty, MembersHaveState, AtMostOneOwner, Active
<1>7. ASSUME NEW a \in Users, NEW u \in Users, NEW role \in RoleInputs, NEW mute \in MuteInputs,
             UpdateMember(a, u, role, mute)
      PROVE  MembersSound
  <2>1. conv'.owner = conv.owner /\ conv'.status = conv.status /\ state' = state
    BY <1>7, <1>a DEF UpdateMember, AppendSystem, AppendMessage, ConvRow
  <2>2. role = "KEEP" \/ role \in {"ADMIN", "MEMBER"}
    BY ConversationAssumption
  <2>3. \A v \in Users : /\ member'[v].status = member[v].status
                         /\ member'[v].role = IF v = u /\ role # "KEEP" THEN role
                                              ELSE member[v].role
    <3> DEFINE f == IF role = "KEEP" THEN member[u].role ELSE role
               e == IF mute = "KEEP" THEN member[u].muted ELSE mute = "MUTE"
    <3>1. member' = [member EXCEPT ![u].role = f, ![u].muted = e]
      BY <1>7, Zenon DEF UpdateMember
    <3> HIDE DEF e, f
    <3>2. \A v \in Users : /\ member'[v].status = member[v].status
                           /\ member'[v].role = IF v = u THEN f ELSE member[v].role
      BY <1>a, <3>1 DEF MemberRow
    <3>3. QED
      BY <3>2 DEF f
  <2>4. QED
    BY <2>1, <2>2, <2>3, FewerMembers DEF IsActive
<1>8. ASSUME NEW u \in Users, MuteExpires(u) PROVE MembersSound
  <2>1. \A v \in Users : member'[v].status = member[v].status
                         /\ member'[v].role = member[v].role
    BY <1>8, <1>a DEF MuteExpires, MemberRow
  <2>2. QED
    BY <1>8, <2>1, FewerMembers DEF MuteExpires, IsActive
<1>9. QED
  <2>1. CASE \E a \in Users, p \in Profiles : UpdateProfile(a, p)
    BY <2>1, <1>1
  <2>2. CASE \E a, u \in Users : \/ Invite(a, u) \/ ApproveJoin(a, u) \/ RejectJoin(a, u)
                                 \/ Remove(a, u) \/ TransferOwner(a, u)
    BY <2>2, <1>2, <1>3, <1>4, <1>5, Zenon
  <2>3. CASE \E u \in Users : \/ AcceptInvite(u) \/ RejectInvite(u) \/ JoinOpen(u)
                              \/ RequestJoin(u) \/ Leave(u) \/ Disband(u) \/ MuteExpires(u)
    BY <2>3, <1>2, <1>3, <1>4, <1>6, <1>8, Zenon
  <2>4. CASE \E a, u \in Users, role \in RoleInputs, mute \in MuteInputs :
               UpdateMember(a, u, role, mute)
    BY <2>4, <1>7
  <2>5. QED
    BY <2>1, <2>2, <2>3, <2>4 DEF GroupNext

LEMMA StepMembers == MemberInv /\ [Next]_vars => MembersSound
  BY MessagingMembers, GroupMembers, KeptMembers DEF Next, vars

LEMMA InitMembers == Init => MemberInv
<1> SUFFICES ASSUME Init PROVE MemberInv
  OBVIOUS
<1>1. Typed /\ conv.status = "ACTIVE"
  BY InitType DEF Typed, Init
<1>2. \A u \in Users : /\ state[u].exists = (u \in Founders)
                       /\ IsActive(u) <=> u \in Founders
                       /\ member[u].role = "OWNER" => ConvType = "GROUP" /\ u = Creator
  BY DEF Init, IsActive, FreshState
<1>3. ConvType = "GROUP" => conv.owner = Creator
  BY DEF Init
<1>4. QED
  BY <1>1, <1>2, <1>3 DEF MemberInv, DeletedIsEmpty, MembersHaveState, AtMostOneOwner, Active

LEMMA NextMembers == MemberInv /\ [Next]_vars => MemberInv'
  BY StepMembers, NextType DEF MemberInv, MembersSound

\* Whoever is an active member has a conversation_user_states row, so sends,
\* receipts and clears find it (addMember, create, createDirect).
THEOREM StateRowsCorrect == Spec => []MembersHaveState
<1>1. MemberInv => MembersHaveState
  BY DEF MemberInv
<1>2. QED
  BY <1>1, InitMembers, NextMembers, PTL DEF Spec

\* At most one active member is OWNER, the one owner_id names (transferOwner).
THEOREM OwnerCorrect == Spec => []AtMostOneOwner
<1>1. MemberInv => AtMostOneOwner
  BY DEF MemberInv
<1>2. QED
  BY <1>1, InitMembers, NextMembers, PTL DEF Spec

\* Members can be sent to, and the owner is the one that owner_id names.
THEOREM MembersSoundAlways == Spec => []MembersAreSound
<1>1. MembersHaveState /\ AtMostOneOwner => MembersAreSound
  BY DEF MembersAreSound
<1>2. QED
  BY <1>1, StateRowsCorrect, OwnerCorrect, PTL

\* After a disband nothing is posted and nobody is a member again, also not by a
\* send, an invite or a join request that was under way.
THEOREM DeletedCorrect == Spec => DeletedIsFinal
<1>1. MemberInv /\ [Next]_vars
        => [conv.status = "DELETED" =>
              UNCHANGED <<conv, messages>> /\ \A u \in Users : ~(IsActive(u)')]_vars
  <2> SUFFICES ASSUME MemberInv, [Next]_vars, conv.status = "DELETED"
               PROVE  UNCHANGED <<conv, messages>> /\ \A u \in Users : ~(IsActive(u)')
    OBVIOUS
  <2>1. WritesNothing
    BY StepWrites DEF MemberInv, WritesOne, Writes
  <2>2. QED
    BY <2>1, StepMembers DEF WritesNothing, MembersSound
<1>2. QED
  BY <1>1, InitMembers, NextMembers, PTL DEF Spec, DeletedIsFinal

-----------------------------------------------------------------------------
(* The limit and the count: what a step does to the set of active members, *)
(* to member_count, and what it had to look at before.                     *)

Stays == Active' = Active /\ conv'.memberCount = conv.memberCount

Joins(u) ==
  /\ \E a \in Users : AddMember(a, u)
  /\ Active' = Active \cup {u} /\ conv'.memberCount = conv.memberCount + 1
  /\ HasRoom \/ profile.joinMode = "OPEN"

Drops(u) ==
  /\ u \in Active
  /\ Active' = Active \ {u} /\ conv'.memberCount = conv.memberCount - 1

Empties == Active' = {} /\ conv'.memberCount = conv.memberCount

MembershipMoves == Stays \/ (\E u \in Users : Joins(u) \/ Drops(u)) \/ Empties

LEMMA SameMembers ==
  ASSUME UNCHANGED <<conv, member>>
  PROVE  Stays
  BY DEF Stays, Active, IsActive

LEMMA SystemCount ==
  ASSUME Typed, NEW i \in Int, NEW a, NEW w,
         AppendSystem([conv EXCEPT !.memberCount = i], a, w)
  PROVE  conv'.memberCount = i
  BY MemberTypes DEF AppendSystem, AppendMessage, ConvRow

LEMMA JoinMoves ==
  ASSUME Typed, NEW a \in Users, NEW u \in Users,
         ApproveJoin(a, u) \/ AcceptInvite(u) \/ JoinOpen(u)
  PROVE  Joins(u)
<1>1. PICK b \in Users : AddMember(b, u)
  BY DEF ApproveJoin, AcceptInvite, JoinOpen
<1>2. conv'.memberCount = conv.memberCount + 1
  BY <1>1, MemberTypes, SystemCount DEF AddMember, ConvRow
<1>3. \A v \in Users : IsActive(v)' <=> v = u \/ IsActive(v)
  BY <1>1, MemberTypes DEF AddMember, IsActive
<1>4. HasRoom \/ profile.joinMode = "OPEN"
  BY DEF ApproveJoin, AcceptInvite, JoinOpen
<1>5. Active' = Active \cup {u}
  BY <1>3 DEF Active
<1>6. QED
  BY <1>1, <1>2, <1>4, <1>5, Zenon DEF Joins

LEMMA DropMoves ==
  ASSUME Typed, NEW a \in Users, NEW u \in Users, Remove(a, u) \/ Leave(u)
  PROVE  Drops(u)
<1>1. PICK b \in Users, st \in {"LEFT", "REMOVED"}, w \in SUBSET Users : DropMember(b, u, st, w)
  BY DEF Remove, Leave, Active
<1>2. conv'.memberCount = conv.memberCount - 1
  BY <1>1, MemberTypes, SystemCount DEF DropMember, ConvRow
<1>3. \A v \in Users : IsActive(v)' <=> v # u /\ IsActive(v)
  BY <1>1, MemberTypes DEF DropMember, IsActive, MemberRow
<1>4. IsActive(u)
  BY DEF Remove, Leave, LockGroup
<1>5. QED
  BY <1>2, <1>3, <1>4 DEF Drops, Active

LEMMA GroupMoves == Typed /\ GroupNext => MembershipMoves
<1> SUFFICES ASSUME Typed, GroupNext PROVE MembershipMoves
  OBVIOUS
<1>a. conv \in ConvRow /\ member \in [Users -> MemberRow]
  BY MemberTypes
<1>1. ASSUME NEW a \in Users, NEW p \in Profiles, UpdateProfile(a, p) PROVE Stays
  BY <1>1, <1>a DEF UpdateProfile, AppendSystem, AppendMessage, ConvRow, Stays, Active, IsActive
<1>2. ASSUME NEW a \in Users, NEW u \in Users,
             Invite(a, u) \/ RejectJoin(a, u) \/ RejectInvite(u) \/ RequestJoin(u)
      PROVE  Stays
  BY <1>2, SameMembers DEF Invite, RejectJoin, RejectInvite, RequestJoin
<1>3. ASSUME NEW a \in Users, NEW u \in Users, TransferOwner(a, u) PROVE Stays
  <2>1. conv'.memberCount = conv.memberCount
    BY <1>3, <1>a DEF TransferOwner, AppendSystem, AppendMessage, ConvRow
  <2>2. \A v \in Users : IsActive(v)' = IsActive(v)
    BY <1>3, <1>a DEF TransferOwner, IsActive, MemberRow
  <2>3. QED
    BY <2>1, <2>2 DEF Stays, Active
<1>4. ASSUME NEW u \in Users, Disband(u) PROVE Empties
  <2>1. \A v \in Users : ~(IsActive(v)')
    BY <1>4, <1>a DEF Disband, IsActive, MemberRow
  <2>2. QED
    BY <1>4, <1>a, <2>1 DEF Disband, Empties, Active, ConvRow
<1>5. ASSUME NEW a \in Users, NEW u \in Users, NEW role \in RoleInputs, NEW mute \in MuteInputs,
             UpdateMember(a, u, role, mute)
      PROVE  Stays
  <2> DEFINE f == IF role = "KEEP" THEN member[u].role ELSE role
             e == IF mute = "KEEP" THEN member[u].muted ELSE mute = "MUTE"
  <2>1. conv'.memberCount = conv.memberCount
    BY <1>5, <1>a DEF UpdateMember, AppendSystem, AppendMessage, ConvRow
  <2>2. member' = [member EXCEPT ![u].role = f, ![u].muted = e]
    BY <1>5, Zenon DEF UpdateMember
  <2> HIDE DEF e, f
  <2>3. \A v \in Users : IsActive(v)' = IsActive(v)
    BY <1>a, <2>2 DEF MemberRow, IsActive
  <2>4. QED
    BY <2>1, <2>3 DEF Stays, Active
<1>6. ASSUME NEW u \in Users, MuteExpires(u) PROVE Stays
  <2>1. \A v \in Users : IsActive(v)' = IsActive(v)
    BY <1>6, <1>a DEF MuteExpires, MemberRow, IsActive
  <2>2. QED
    BY <1>6, <2>1 DEF MuteExpires, Stays, Active
<1>7. QED
  <2>1. CASE \E a \in Users, p \in Profiles : UpdateProfile(a, p)
    BY <2>1, <1>1 DEF MembershipMoves
  <2>2. CASE \E a, u \in Users : \/ Invite(a, u) \/ ApproveJoin(a, u) \/ RejectJoin(a, u)
                                 \/ Remove(a, u) \/ TransferOwner(a, u)
    BY <2>2, <1>2, <1>3, JoinMoves, DropMoves, Zenon DEF MembershipMoves
  <2>3. CASE \E u \in Users : \/ AcceptInvite(u) \/ RejectInvite(u) \/ JoinOpen(u)
                              \/ RequestJoin(u) \/ Leave(u) \/ Disband(u) \/ MuteExpires(u)
    BY <2>3, <1>2, <1>4, <1>6, JoinMoves, DropMoves, Zenon DEF MembershipMoves
  <2>4. CASE \E a, u \in Users, role \in RoleInputs, mute \in MuteInputs :
               UpdateMember(a, u, role, mute)
    BY <2>4, <1>5 DEF MembershipMoves
  <2>5. QED
    BY <2>1, <2>2, <2>3, <2>4 DEF GroupNext

LEMMA MessagingMoves == Typed /\ MessagingNext => Stays
<1> SUFFICES ASSUME Typed, MessagingNext PROVE Stays
  OBVIOUS
<1>1. ASSUME NEW r \in Requests, SendCommit(r) PROVE Stays
  BY <1>1, MemberTypes DEF SendCommit, AppendMessage, ConvRow, Stays, Active, IsActive
<1>2. ASSUME NEW r \in Requests,
             \/ \E u \in Users, c \in ClientIds, b \in Bodies :
                  SendLookup(r, u, c, b) \/ SendRepeat(r, u, c, b)
             \/ SendReadMembers(r) \/ SendReadPolicy(r) \/ SendDuplicate(r)
             \/ SendAnswer(r) \/ Abort(r) \/ ClearWrite(r) \/ \E u \in Users : ClearRead(r, u)
      PROVE  Stays
  BY <1>2, SameMembers
     DEF SendLookup, SendRepeat, SendReadMembers, SendReadPolicy, SendDuplicate,
         SendAnswer, Abort, ClearRead, ClearWrite
<1>3. ASSUME NEW u \in Users, NEW seq \in 0..MaxSeq, MarkDelivered(u, seq) \/ MarkRead(u, seq)
      PROVE  Stays
  BY <1>3, SameMembers DEF MarkDelivered, MarkRead, Receipt
<1>4. SetBlocked => Stays
  BY SameMembers DEF SetBlocked
<1>5. QED
  BY <1>1, <1>2, <1>3, <1>4, Zenon DEF MessagingNext

LEMMA StepMembership == Typed /\ [Next]_vars => MembershipMoves
  BY MessagingMoves, GroupMoves, SameMembers DEF Next, vars, MembershipMoves

CountInv == Typed /\ CountCoversMembers

LEMMA NextCount == CountInv /\ [Next]_vars => CountInv'
<1> SUFFICES ASSUME CountInv, [Next]_vars PROVE CountInv'
  OBVIOUS
<1>1. Typed /\ Typed'
  BY NextType DEF CountInv
<1>2. conv.memberCount \in Int /\ IsFiniteSet(Active)
  BY <1>1, MemberTypes, FS_Subset, ConversationAssumption DEF ConvRow, Active
<1>3. Cardinality(Active) \in Nat /\ conv.memberCount >= Cardinality(Active)
  BY <1>2, FS_CardinalityType DEF CountInv, CountCoversMembers
<1>4. CASE Stays
  BY <1>1, <1>3, <1>4 DEF Stays, CountInv, CountCoversMembers
<1>5. ASSUME NEW u \in Users, Joins(u) PROVE CountCoversMembers'
  <2>1. Cardinality(Active \cup {u}) \in {Cardinality(Active), Cardinality(Active) + 1}
    BY <1>2, FS_AddElement
  <2>2. Cardinality(Active') \in {Cardinality(Active), Cardinality(Active) + 1}
    BY <1>5, <2>1 DEF Joins
  <2>3. QED
    BY <1>2, <1>3, <1>5, <2>1, <2>2 DEF Joins, CountCoversMembers
<1>6. ASSUME NEW u \in Users, Drops(u) PROVE CountCoversMembers'
  <2>1. Cardinality(Active') = Cardinality(Active) - 1
    BY <1>2, <1>6, FS_RemoveElement DEF Drops
  <2>2. QED
    BY <1>2, <1>3, <1>6, <2>1 DEF Drops, CountCoversMembers
<1>7. CASE Empties
  BY <1>1, <1>2, <1>3, <1>7, FS_EmptySet DEF Empties, CountInv, CountCoversMembers
<1>8. QED
  BY <1>1, <1>4, <1>5, <1>6, <1>7, StepMembership DEF MembershipMoves, CountInv

LEMMA InitCount == Init => CountInv
<1> SUFFICES ASSUME Init PROVE CountInv
  OBVIOUS
<1>1. Typed
  BY InitType DEF Typed
<1>2. Active = Founders
  BY ConversationAssumption DEF Init, Active, IsActive
<1>3. conv.memberCount = Cardinality(Founders) /\ Cardinality(Founders) \in Nat
  BY ConversationAssumption, FS_Subset, FS_CardinalityType DEF Init
<1>4. QED
  BY <1>1, <1>2, <1>3 DEF CountInv, CountCoversMembers

\* member_count is never below the number of active members: it is incremented with every
\* row that becomes ACTIVE and decremented only with one that was (addMember, remove, leave).
THEOREM CountCorrect == Spec => []CountCoversMembers
<1>1. CountInv => CountCoversMembers
  BY DEF CountInv
<1>2. QED
  BY <1>1, InitCount, NextCount, PTL DEF Spec

\* However old the invite or the request is that lets a user in, the limit of a group that
\* is not OPEN is looked at when the row becomes ACTIVE (acceptInvite, approveJoinRequest).
THEOREM JoinsLimited == Spec => JoinsRespectLimit
<1>1. Typed /\ [Next]_vars
        => [(\E u \in Users : ~IsActive(u) /\ IsActive(u)') /\ profile.joinMode # "OPEN"
              => Cardinality(Active) < profile.maxMembers]_vars
  <2> SUFFICES ASSUME Typed, [Next]_vars, NEW u \in Users, ~IsActive(u), IsActive(u)',
                      profile.joinMode # "OPEN"
               PROVE  HasRoom
    BY DEF HasRoom
  <2>1. u \notin Active /\ u \in Active'
    BY DEF Active
  <2>2. QED
    BY <2>1, StepMembership DEF MembershipMoves, Stays, Joins, Drops, Empties
<1>2. Init => Typed
  BY InitType DEF Typed
<1>3. QED
  BY <1>1, <1>2, NextType, PTL DEF Spec, JoinsRespectLimit

-----------------------------------------------------------------------------
(* The cached unread_count.                                                *)

UnreadInv == MemberInv /\ LogInv /\ UnreadCoversUnseen

Cleared(u) == [type |-> "conversation.updated", user |-> u] \in outbox

Unseen(u, s) == {m \in messages : m.seq > s /\ m.sender # u /\ CountsUnread(m)}

Covers(u) ==
  u \in Active /\ ~Cleared(u) => state[u].unread >= UnreadAfter(u, state[u].read)

\* A step that adds no message that counts.
Quiet == {m \in messages' : CountsUnread(m)} = {m \in messages : CountsUnread(m)}

LEMMA CoversAll == UnreadCoversUnseen <=> \A u \in Users : Covers(u)
  BY DEF UnreadCoversUnseen, Covers, Cleared, Active

LEMMA UnseenCounted ==
  ASSUME Typed, NEW u, NEW s
  PROVE  /\ IsFiniteSet(Unseen(u, s)) /\ UnreadAfter(u, s) = Cardinality(Unseen(u, s))
         /\ UnreadAfter(u, s) \in Nat
<1>1. IsFiniteSet(Unseen(u, s))
  BY FS_Subset DEF Unseen, Typed, FiniteRows
<1>2. QED
  BY <1>1, FS_CardinalityType DEF UnreadAfter, Unseen

LEMMA QuietUnread ==
  ASSUME Quiet, NEW u, NEW s
  PROVE  UnreadAfter(u, s)' = UnreadAfter(u, s)
  BY DEF Quiet, UnreadAfter

\* One more message is one more to read, or none.
LEMMA OneMoreUnread ==
  ASSUME Typed, NEW m, messages' = messages \cup {m}, NEW u, NEW s
  PROVE  UnreadAfter(u, s)' <= UnreadAfter(u, s) + 1
<1> DEFINE U == Unseen(u, s)
<1>1. IsFiniteSet(U) /\ UnreadAfter(u, s) = Cardinality(U) /\ Cardinality(U) \in Nat
  BY UnseenCounted
<1>2. UnreadAfter(u, s)' = Cardinality(Unseen(u, s)')
  BY DEF UnreadAfter, Unseen
<1>3. Unseen(u, s)' = U \/ Unseen(u, s)' = U \cup {m}
  <2>1. CASE m.seq > s /\ m.sender # u /\ CountsUnread(m)
    BY <2>1 DEF Unseen, CountsUnread
  <2>2. CASE ~(m.seq > s /\ m.sender # u /\ CountsUnread(m))
    BY <2>2 DEF Unseen, CountsUnread
  <2>3. QED
    BY <2>1, <2>2
<1> HIDE DEF U
<1>4. Cardinality(U \cup {m}) \in {Cardinality(U), Cardinality(U) + 1}
  BY <1>1, FS_AddElement
<1>5. UnreadAfter(u, s)' \in {Cardinality(U), Cardinality(U) + 1}
  <2>1. PICK w : w = Unseen(u, s)'
    OBVIOUS
  <2>2. w = U \/ w = U \cup {m}
    BY <1>3, <2>1
  <2>3. Cardinality(w) \in {Cardinality(U), Cardinality(U) + 1}
    BY <1>4, <2>2
  <2>4. QED
    BY <1>2, <2>1, <2>3
<1>6. QED
  BY <1>1, <1>5

\* Nothing is left to read behind the last seq.
LEMMA NothingBeyond ==
  ASSUME NEW u, NEW s, \A m \in messages : CountsUnread(m) => ~(m.seq > s)
  PROVE  UnreadAfter(u, s) = 0
<1>1. {m \in messages : m.seq > s /\ m.sender # u /\ CountsUnread(m)} = {}
  OBVIOUS
<1>2. QED
  BY <1>1, FS_EmptySet DEF UnreadAfter

LEMMA KeptCover ==
  ASSUME UnreadInv, Quiet, outbox \subseteq outbox', NEW v \in Users,
         v \in Active' => v \in Active,
         state'[v].unread = state[v].unread, state'[v].read = state[v].read
  PROVE  Covers(v)'
<1>1. Covers(v)
  BY CoversAll DEF UnreadInv
<1>2. PICK s : s = state[v].read
  OBVIOUS
<1>3. UnreadAfter(v, s)' = UnreadAfter(v, s)
  BY QuietUnread
<1>4. QED
  BY <1>1, <1>2, <1>3 DEF Covers, Cleared, UnreadAfter

LEMMA UnreadTypes ==
  ASSUME UnreadInv
  PROVE  /\ Typed /\ state \in [Users -> StateRow] /\ conv \in ConvRow
         /\ conv.lastSeq \in Nat
         /\ \A u \in Users : state[u].read \in Nat /\ state[u].unread \in Nat
         /\ \A u \in Active : state[u].exists
         /\ \A m \in messages : m.seq \in Nat
<1>1. /\ Typed /\ state \in [Users -> StateRow] /\ conv \in ConvRow
      /\ \A m \in messages : m \in MessageRow
  BY DEF UnreadInv, MemberInv, Typed, TypeOK
<1>2. \A u \in Active : state[u].exists
  BY DEF UnreadInv, MemberInv, MembersHaveState
<1>3. QED
  BY <1>1, <1>2 DEF StateRow, ConvRow, MessageRow

LEMMA LastIsHighest ==
  ASSUME UnreadInv, conv.status = "ACTIVE"
  PROVE  \A m \in messages : m.seq <= conv.lastSeq
<1>1. {m.seq : m \in messages} = 1..conv.lastSeq
  BY DEF UnreadInv, LogInv, SeqsAreDense, HighestSeq
<1>2. QED
  BY <1>1, UnreadTypes

LEMMA SystemIsQuiet ==
  ASSUME NEW c, NEW a, NEW w, AppendSystem(c, a, w)
  PROVE  Quiet /\ outbox \subseteq outbox'
  BY DEF AppendSystem, AppendMessage, Quiet, CountsUnread

LEMMA CommitCovers ==
  ASSUME UnreadInv, NEW r \in Requests, SendCommit(r), NEW v \in Users
  PROVE  Covers(v)'
<1> DEFINE n == conv.lastSeq + 1
           new == [seq |-> n, sender |-> req[r].user, cid |-> req[r].cid, body |-> req[r].body]
<1>1. /\ messages' = messages \cup {new} /\ outbox \subseteq outbox' /\ member' = member
      /\ conv.status = "ACTIVE"
  BY DEF SendCommit, AppendMessage
<1>2. /\ state[v] \in StateRow /\ state[v].read \in Nat /\ state[v].unread \in Nat
      /\ n \in Nat
  BY UnreadTypes
<1> SUFFICES ASSUME v \in Active', ~Cleared(v)'
             PROVE  state'[v].unread >= UnreadAfter(v, state[v].read)'
  BY DEF Covers
<1>3. v \in Active /\ ~Cleared(v) /\ state[v].exists
  BY <1>1, UnreadTypes DEF Active, IsActive, Cleared
<1>4. CASE v = req[r].user
  <2>1. state'[v] = [state[v] EXCEPT !.delivered = Larger(state[v].delivered, n),
                                     !.read = Larger(state[v].read, n)]
    BY <1>3, <1>4 DEF SendCommit, StateAfterSend
  <2>2. state'[v].read = Larger(state[v].read, n) /\ state'[v].unread = state[v].unread
    BY <1>2, <2>1 DEF StateRow
  <2>3. \A m \in messages' : m.seq \in Nat /\ m.seq <= n
    <3>1. \A m \in messages : m.seq \in Nat /\ m.seq <= n
      BY <1>1, UnreadTypes, LastIsHighest
    <3>2. new.seq = n
      OBVIOUS
    <3>3. QED
      BY <1>1, <1>2, <3>1, <3>2
  <2>4. state'[v].read \in Nat /\ state'[v].read >= n
    BY <1>2, <2>2 DEF Larger
  <2>5. \A m \in messages' : ~(m.seq > state'[v].read)
    BY <1>2, <2>3, <2>4
  <2>6. UnreadAfter(v, state[v].read)' = 0
    <3>1. {m \in messages' : m.seq > state'[v].read /\ m.sender # v /\ CountsUnread(m)} = {}
      BY <2>5
    <3>2. QED
      BY <3>1, FS_EmptySet DEF UnreadAfter, CountsUnread
  <2>7. QED
    BY <1>2, <2>2, <2>6
<1>5. CASE v # req[r].user
  <2>1. state'[v] = [state[v] EXCEPT !.unread = state[v].unread + 1,
                       !.mention = IF Mentioned(req[r].body, v) THEN state[v].mention + 1
                                   ELSE state[v].mention]
    BY <1>3, <1>5 DEF SendCommit, StateAfterSend
  <2>2. state'[v].read = state[v].read /\ state'[v].unread = state[v].unread + 1
    BY <1>2, <2>1 DEF StateRow
  <2>3. PICK s : s = state[v].read
    OBVIOUS
  <2>4. /\ UnreadAfter(v, s)' <= UnreadAfter(v, s) + 1 /\ UnreadAfter(v, s) \in Nat
        /\ UnreadAfter(v, s)' \in Nat
    <3>1. Typed' /\ Typed
      BY UnreadTypes, CommitType
    <3>2. UnreadAfter(v, s) \in Nat
      BY <3>1, UnseenCounted
    <3>3. UnreadAfter(v, s)' \in Nat
      <4>1. IsFiniteSet({m \in messages' : m.seq > s /\ m.sender # v /\ CountsUnread(m)})
        BY <3>1, FS_Subset DEF Typed, FiniteRows
      <4>2. QED
        BY <4>1, FS_CardinalityType DEF UnreadAfter, CountsUnread
    <3> HIDE DEF new
    <3>4. UnreadAfter(v, s)' <= UnreadAfter(v, s) + 1
      BY <1>1, <3>1, OneMoreUnread
    <3>5. QED
      BY <3>2, <3>3, <3>4
  <2>5. state[v].unread >= UnreadAfter(v, s)
    BY <1>3, <2>3, CoversAll DEF UnreadInv, Covers
  <2>6. UnreadAfter(v, state[v].read)' = UnreadAfter(v, s)'
    BY <2>2, <2>3 DEF UnreadAfter
  <2>7. QED
    BY <1>2, <2>2, <2>4, <2>5, <2>6
<1>6. QED
  BY <1>4, <1>5

LEMMA ReceiptCovers ==
  ASSUME UnreadInv, NEW u \in Users, NEW seq \in 0..MaxSeq,
         MarkDelivered(u, seq) \/ MarkRead(u, seq), NEW v \in Users
  PROVE  Covers(v)'
<1>1. /\ messages' = messages /\ member' = member /\ outbox \subseteq outbox'
      /\ Quiet /\ Active' = Active
  BY DEF MarkDelivered, MarkRead, Receipt, Quiet, Active, IsActive
<1>2. state \in [Users -> StateRow]
  BY UnreadTypes
<1>3. CASE v # u
  <2>1. state'[v] = state[v]
    BY <1>2, <1>3 DEF MarkDelivered, MarkRead, Receipt
  <2>2. QED
    BY <1>1, <2>1, KeptCover
<1>4. CASE v = u /\ MarkDelivered(u, seq)
  <2>1. state'[v].unread = state[v].unread /\ state'[v].read = state[v].read
    BY <1>2, <1>4 DEF MarkDelivered, Receipt, StateRow
  <2>2. QED
    BY <1>1, <2>1, KeptCover
<1>5. CASE v = u /\ MarkRead(u, seq)
  <2> DEFINE readTo == Larger(state[u].read, seq)
  <2>1. state'[v].unread = UnreadAfter(u, readTo) /\ state'[v].read = readTo
    BY <1>2, <1>5 DEF MarkRead, Receipt, StateRow
  <2>2. PICK s : s = readTo
    OBVIOUS
  <2>3. UnreadAfter(v, state[v].read)' = UnreadAfter(v, s)
    BY <1>1, <2>1, <2>2 DEF UnreadAfter
  <2>4. UnreadAfter(v, s) \in Nat
    BY UnreadTypes, UnseenCounted
  <2>5. state'[v].unread = UnreadAfter(v, s)
    BY <1>5, <2>1, <2>2
  <2>6. QED
    BY <2>3, <2>4, <2>5 DEF Covers
<1>6. QED
  BY <1>3, <1>4, <1>5

LEMMA ClearCovers ==
  ASSUME UnreadInv, NEW r \in Requests, ClearWrite(r), NEW v \in Users
  PROVE  Covers(v)'
<1>1. /\ messages' = messages /\ member' = member /\ Quiet /\ Active' = Active
      /\ outbox' = outbox \cup {[type |-> "conversation.updated", user |-> req[r].user]}
  BY DEF ClearWrite, Quiet, Active, IsActive
<1>2. CASE v = req[r].user
  BY <1>1, <1>2 DEF Covers, Cleared
<1>3. CASE v # req[r].user
  <2>1. state'[v] = state[v]
    BY <1>3, UnreadTypes DEF ClearWrite
  <2>2. QED
    BY <1>1, <2>1, KeptCover
<1>4. QED
  BY <1>2, <1>3

\* A member that comes in, or back, has read all there is.
LEMMA JoinCovers ==
  ASSUME UnreadInv, NEW a \in Users, NEW u \in Users, AddMember(a, u), NEW v \in Users
  PROVE  Covers(v)'
<1>1. Quiet /\ outbox \subseteq outbox' /\ conv.status = "ACTIVE"
  BY SystemIsQuiet DEF AddMember, AppendSystem, AppendMessage
<1>2. state \in [Users -> StateRow] /\ member \in [Users -> MemberRow]
  BY UnreadTypes, MemberTypes
<1>3. CASE v = u
  <2>1. state'[v].unread = 0 /\ state'[v].read = conv.lastSeq
    BY <1>2, <1>3 DEF AddMember, FreshState
  <2>2. \A m \in messages' : CountsUnread(m) => ~(m.seq > conv.lastSeq)
    BY <1>1, LastIsHighest, UnreadTypes DEF Quiet
  <2>3. {m \in messages' : m.seq > state'[v].read /\ m.sender # v /\ CountsUnread(m)} = {}
    BY <2>1, <2>2
  <2>4. UnreadAfter(v, state[v].read)' = 0
    BY <2>3, FS_EmptySet DEF UnreadAfter, CountsUnread
  <2>5. QED
    BY <2>1, <2>4 DEF Covers
<1>4. CASE v # u
  <2>1. state'[v] = state[v] /\ member'[v] = member[v]
    BY <1>2, <1>4 DEF AddMember
  <2>2. v \in Active' => v \in Active
    BY <2>1 DEF Active, IsActive
  <2>3. QED
    BY <1>1, <2>1, <2>2, KeptCover
<1>5. QED
  BY <1>3, <1>4

\* A step that makes nobody an active member and leaves the state rows alone.
LEMMA NobodyNewCovers ==
  ASSUME UnreadInv, Quiet, outbox \subseteq outbox', state' = state, Active' \subseteq Active,
         NEW v \in Users
  PROVE  Covers(v)'
  BY KeptCover

LEMMA GroupCovers == UnreadInv /\ GroupNext => \A v \in Users : Covers(v)'
<1> SUFFICES ASSUME UnreadInv, GroupNext, NEW v \in Users PROVE Covers(v)'
  OBVIOUS
<1>a. Typed /\ conv \in ConvRow /\ member \in [Users -> MemberRow]
  BY UnreadTypes, MemberTypes
<1>1. CASE \E a, u \in Users : AddMember(a, u)
  BY <1>1, JoinCovers
<1>2. CASE /\ state' = state /\ Quiet /\ outbox \subseteq outbox'
           /\ Active' \subseteq Active
  BY <1>2, NobodyNewCovers
<1>3. state' = state \/ \E a, u \in Users : AddMember(a, u)
  <2>1. ASSUME NEW a \in Users, NEW u \in Users,
               \/ Invite(a, u) \/ RejectJoin(a, u) \/ Remove(a, u) \/ TransferOwner(a, u)
               \/ RejectInvite(u) \/ RequestJoin(u) \/ Leave(u) \/ Disband(u) \/ MuteExpires(u)
               \/ \E p \in Profiles : UpdateProfile(a, p)
               \/ \E role \in RoleInputs, mute \in MuteInputs : UpdateMember(a, u, role, mute)
        PROVE  state' = state
    BY <2>1 DEF Invite, RejectJoin, Remove, TransferOwner, RejectInvite, RequestJoin, Leave,
                Disband, MuteExpires, UpdateProfile, UpdateMember, DropMember
  <2>2. ASSUME NEW a \in Users, NEW u \in Users,
               ApproveJoin(a, u) \/ AcceptInvite(u) \/ JoinOpen(u)
        PROVE  \E b, w \in Users : AddMember(b, w)
    BY <2>2 DEF ApproveJoin, AcceptInvite, JoinOpen
  <2>3. QED
    BY <2>1, <2>2, Zenon DEF GroupNext
<1>4. Quiet /\ outbox \subseteq outbox'
  <2>1. ASSUME NEW a \in Users, NEW u \in Users,
               \/ Remove(a, u) \/ TransferOwner(a, u) \/ Leave(u)
               \/ ApproveJoin(a, u) \/ AcceptInvite(u) \/ JoinOpen(u)
               \/ \E p \in Profiles : UpdateProfile(a, p)
               \/ \E role \in RoleInputs, mute \in MuteInputs : UpdateMember(a, u, role, mute)
        PROVE  Quiet /\ outbox \subseteq outbox'
    BY <2>1, SystemIsQuiet
       DEF Remove, TransferOwner, Leave, ApproveJoin, AcceptInvite, JoinOpen, UpdateProfile,
           UpdateMember, DropMember, AddMember
  <2>2. ASSUME NEW a \in Users, NEW u \in Users,
               \/ Invite(a, u) \/ RejectJoin(a, u) \/ RejectInvite(u) \/ RequestJoin(u)
               \/ MuteExpires(u)
        PROVE  Quiet /\ outbox \subseteq outbox'
    BY <2>2 DEF Invite, RejectJoin, RejectInvite, RequestJoin, MuteExpires, Quiet, CountsUnread
  <2>3. ASSUME NEW u \in Users, Disband(u) PROVE Quiet /\ outbox \subseteq outbox'
    BY <2>3 DEF Disband, Quiet, CountsUnread
  <2>4. QED
    BY <2>1, <2>2, <2>3, Zenon DEF GroupNext
<1>5. Active' \subseteq Active \/ \E u \in Users : Joins(u)
  BY <1>a, GroupMoves DEF MembershipMoves, Stays, Drops, Empties
<1>6. (\E u \in Users : Joins(u)) => \E b, w \in Users : AddMember(b, w)
  BY Zenon DEF Joins
<1>7. QED
  BY <1>1, <1>2, <1>3, <1>4, <1>5, <1>6

LEMMA NextUnread == UnreadInv /\ [Next]_vars => UnreadInv'
<1> SUFFICES ASSUME UnreadInv, [Next]_vars PROVE UnreadInv'
  OBVIOUS
<1>1. MemberInv' /\ LogInv'
  BY NextMembers, NextLog DEF UnreadInv
<1>2. ASSUME NEW v \in Users PROVE Covers(v)'
  <2>1. CASE GroupNext
    BY <2>1, GroupCovers
  <2>2. CASE UNCHANGED <<state, messages, outbox, member>>
    <3>1. Quiet /\ outbox \subseteq outbox' /\ state' = state /\ Active' \subseteq Active
      BY <2>2 DEF Quiet, Active, IsActive, CountsUnread
    <3>2. QED
      BY <3>1, NobodyNewCovers
  <2>3. CASE MessagingNext
    <3>1. ASSUME NEW r \in Requests,
                 \/ \E u \in Users, c \in ClientIds, b \in Bodies :
                      SendLookup(r, u, c, b) \/ SendRepeat(r, u, c, b)
                 \/ SendReadMembers(r) \/ SendReadPolicy(r) \/ SendDuplicate(r)
                 \/ SendAnswer(r) \/ Abort(r) \/ \E u \in Users : ClearRead(r, u)
          PROVE  UNCHANGED <<state, messages, outbox, member>>
      BY <3>1 DEF SendLookup, SendRepeat, SendReadMembers, SendReadPolicy, SendDuplicate,
                  SendAnswer, Abort, ClearRead
    <3>2. SetBlocked => UNCHANGED <<state, messages, outbox, member>>
      BY DEF SetBlocked
    <3>3. QED
      BY <2>2, <2>3, <3>1, <3>2, CommitCovers, ReceiptCovers, ClearCovers, Zenon
         DEF MessagingNext
  <2>4. QED
    BY <2>1, <2>2, <2>3 DEF Next, vars
<1>3. UnreadCoversUnseen'
  BY <1>2 DEF UnreadCoversUnseen, Covers, Cleared, Active
<1>4. QED
  BY <1>1, <1>3 DEF UnreadInv

LEMMA InitUnread == Init => UnreadInv
<1> SUFFICES ASSUME Init PROVE UnreadInv
  OBVIOUS
<1>1. MemberInv /\ LogInv
  BY InitMembers, InitLog
<1>2. ASSUME NEW u \in Users PROVE Covers(u)
  <2>1. state[u].unread = 0 /\ messages = {}
    BY DEF Init, FreshState
  <2>2. UnreadAfter(u, state[u].read) = 0
    BY <2>1, NothingBeyond
  <2>3. QED
    BY <2>1, <2>2 DEF Covers
<1>3. QED
  BY <1>1, <1>2, CoversAll DEF UnreadInv

\* As long as a user has not cleared the history, unread_count is at least what there is to
\* read: the sends' increments, READ's count and addMember's reset keep it so in any order.
THEOREM UnreadCorrect == Spec => []UnreadCoversUnseen
<1>1. UnreadInv => UnreadCoversUnseen
  BY DEF UnreadInv
<1>2. QED
  BY <1>1, InitUnread, NextUnread, PTL DEF Spec
=============================================================================
