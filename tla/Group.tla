-------------------------------- MODULE Group --------------------------------
(***************************************************************************)
(* The commands of GroupCommandService.  Each runs in one transaction that *)
(* first locks the conversation row FOR SHARE (lockGroup), so no sender    *)
(* and no other group command can commit a change of that row before it    *)
(* does: two group commands that both hold the share lock and both go on   *)
(* to UPDATE the row deadlock and the database aborts one of them.  What   *)
(* commits is therefore one step; a transaction that aborts changes        *)
(* nothing.  Commands that only answer an error are not steps.             *)
(***************************************************************************)
EXTENDS Conversation

\* lockGroup for a command the actor must be a member for.
LockGroup(a) == ConvType = "GROUP" /\ conv.status = "ACTIVE" /\ IsActive(a)

\* lockGroup(requireMember = false).
LockOpenGroup == ConvType = "GROUP" /\ conv.status = "ACTIVE"

IsAdmin(a) == member[a].role \in {"OWNER", "ADMIN"}

HasRoom == Cardinality(Active) < profile.maxMembers

\* GroupSystemMessageService.append: a message that counts for nobody's
\* unread_count and leaves every state row alone.
AppendSystem(c, actor, audience) ==
  AppendMessage(c, actor, SystemId, SystemBody, audience)

\* addMember and the MEMBER_JOINED message: the member row and the state row
\* are written whether or not there was one before.
AddMember(actor, u) ==
  /\ member' = [member EXCEPT ![u] =
       [status |-> "ACTIVE", role |-> "MEMBER", muted |-> FALSE]]
  /\ state' = [state EXCEPT ![u] = FreshState(conv.lastSeq)]
  /\ AppendSystem([conv EXCEPT !.memberCount = @ + 1], actor, Active \cup {u})

\* Mutant: the status is none of the enum.
DropMemberMisspelt(actor, u, status, audience) ==
  /\ member' = [member EXCEPT ![u].status = "KICKED"]
  /\ AppendSystem([conv EXCEPT !.memberCount = @ - 1], actor, audience)
  /\ UNCHANGED state

\* A member row goes to LEFT or REMOVED and member_count is decremented.
DropMember(actor, u, status, audience) ==
  /\ member' = [member EXCEPT ![u].status = status]
  /\ AppendSystem([conv EXCEPT !.memberCount = @ - 1], actor, audience)
  /\ UNCHANGED state

-----------------------------------------------------------------------------
UpdateProfile(a, p) ==
  /\ LockGroup(a) /\ IsAdmin(a)
  /\ profile' = p
  /\ AppendSystem(conv, a, Active)
  /\ UNCHANGED <<member, state, invites, joinRequests, blocked, req, accepted>>

\* The partial unique index admits one PENDING invite per invitee.
Invite(a, u) ==
  /\ LockGroup(a)
  /\ IsAdmin(a) \/ profile.allowMemberInvites
  /\ u # a /\ ~IsActive(u) /\ HasRoom
  /\ u \notin invites
  /\ invites' = invites \cup {u}
  /\ UNCHANGED <<conv, profile, member, state, messages, outbox, joinRequests,
                 blocked, req, accepted>>

\* Mutant: the member limit is not looked at.
AcceptInviteUnchecked(u) ==
  /\ LockOpenGroup /\ u \in invites
  /\ AddMember(u, u)
  /\ invites' = invites \ {u}
  /\ UNCHANGED <<profile, joinRequests, blocked, req, accepted>>

AcceptInvite(u) ==
  /\ LockOpenGroup /\ u \in invites
  /\ HasRoom
  /\ AddMember(u, u)
  /\ invites' = invites \ {u}
  /\ UNCHANGED <<profile, joinRequests, blocked, req, accepted>>

\* Rejecting does not look at the group.
RejectInvite(u) ==
  /\ u \in invites
  /\ invites' = invites \ {u}
  /\ UNCHANGED <<conv, profile, member, state, messages, outbox, joinRequests,
                 blocked, req, accepted>>

\* requestJoin in an OPEN group joins at once; max_members is not looked at.
JoinOpen(u) ==
  /\ LockOpenGroup /\ profile.joinMode = "OPEN" /\ ~IsActive(u)
  /\ AddMember(u, u)
  /\ UNCHANGED <<profile, invites, joinRequests, blocked, req, accepted>>

RequestJoin(u) ==
  /\ LockOpenGroup /\ profile.joinMode = "REQUEST" /\ ~IsActive(u)
  /\ u \notin joinRequests
  /\ joinRequests' = joinRequests \cup {u}
  /\ UNCHANGED <<conv, profile, member, state, messages, outbox, invites,
                 blocked, req, accepted>>

ApproveJoin(a, u) ==
  /\ LockGroup(a) /\ IsAdmin(a) /\ u \in joinRequests
  /\ HasRoom
  /\ AddMember(a, u)
  /\ joinRequests' = joinRequests \ {u}
  /\ UNCHANGED <<profile, invites, blocked, req, accepted>>

RejectJoin(a, u) ==
  /\ LockGroup(a) /\ IsAdmin(a) /\ u \in joinRequests
  /\ joinRequests' = joinRequests \ {u}
  /\ UNCHANGED <<conv, profile, member, state, messages, outbox, invites,
                 blocked, req, accepted>>

\* Mutant: who has left can be removed again.
RemoveTwice(a, u) ==
  /\ LockGroup(a) /\ IsAdmin(a) /\ member[u].status # "NONE"
  /\ member[u].role # "OWNER"
  /\ ~(member[a].role = "ADMIN" /\ member[u].role = "ADMIN")
  /\ DropMember(a, u, "REMOVED", Active)
  /\ UNCHANGED <<profile, invites, joinRequests, blocked, req, accepted>>

Remove(a, u) ==
  /\ LockGroup(a) /\ IsAdmin(a) /\ IsActive(u)
  /\ member[u].role # "OWNER"
  /\ ~(member[a].role = "ADMIN" /\ member[u].role = "ADMIN")
  /\ DropMember(a, u, "REMOVED", Active)
  /\ UNCHANGED <<profile, invites, joinRequests, blocked, req, accepted>>

Leave(a) ==
  /\ LockGroup(a) /\ member[a].role # "OWNER"
  /\ DropMember(a, a, "LEFT", Active \ {a})
  /\ UNCHANGED <<profile, invites, joinRequests, blocked, req, accepted>>

\* Mutant: the entity is saved after the message took its seq.
TransferOwnerSavesLast(a, u) ==
  /\ LockGroup(a) /\ member[a].role = "OWNER"
  /\ IsActive(u) /\ u # a /\ conv.lastSeq < MaxSeq
  /\ member' = [member EXCEPT ![a].role = "ADMIN", ![u].role = "OWNER"]
  /\ messages' = messages \cup {[seq |-> conv.lastSeq + 1, sender |-> a,
                                 cid |-> SystemId, body |-> SystemBody]}
  /\ outbox' = outbox \cup {Created(conv.lastSeq + 1, Active)}
  /\ conv' = [conv EXCEPT !.owner = u]
  /\ UNCHANGED <<profile, state, invites, joinRequests, blocked, req, accepted>>

\* Mutant: the old owner keeps the role.
TransferOwnerKeepsRole(a, u) ==
  /\ LockGroup(a) /\ member[a].role = "OWNER"
  /\ IsActive(u) /\ u # a
  /\ member' = [member EXCEPT ![u].role = "OWNER"]
  /\ AppendSystem([conv EXCEPT !.owner = u], a, Active)
  /\ UNCHANGED <<profile, state, invites, joinRequests, blocked, req, accepted>>

TransferOwner(a, u) ==
  /\ LockGroup(a) /\ member[a].role = "OWNER"
  /\ IsActive(u) /\ u # a
  /\ member' = [member EXCEPT ![a].role = "ADMIN", ![u].role = "OWNER"]
  /\ AppendSystem([conv EXCEPT !.owner = u], a, Active)
  /\ UNCHANGED <<profile, state, invites, joinRequests, blocked, req, accepted>>

\* The message is appended by SQL, and then save() writes back every column in
\* which the entity read by lockGroup differs from the row: last_seq
\* returns to its value before the message.
Disband(a) ==
  /\ LockGroup(a) /\ member[a].role = "OWNER"
  /\ conv.lastSeq < MaxSeq
  /\ messages' = messages \cup {[seq |-> conv.lastSeq + 1, sender |-> a,
                                 cid |-> SystemId, body |-> SystemBody]}
  /\ outbox' = outbox \cup {Created(conv.lastSeq + 1, Active)}
  /\ member' = [u \in Users |-> IF IsActive(u) THEN [member[u] EXCEPT !.status = "REMOVED"]
                                ELSE member[u]]
  /\ conv' = [conv EXCEPT !.status = "DELETED"]
  /\ UNCHANGED <<profile, state, invites, joinRequests, blocked, req, accepted>>

\* updateMember: a role other than OWNER, a mute_until in the future or not, or
\* both; "KEEP" is an absent field.
UpdateMember(a, u, role, mute) ==
  /\ LockGroup(a) /\ IsActive(u)
  /\ role # "KEEP" => member[a].role = "OWNER" /\ member[u].role # "OWNER"
  /\ mute # "KEEP" => IsAdmin(a) /\ member[u].role # "OWNER"
  /\ role # "KEEP" \/ mute # "KEEP"
  /\ member' = [member EXCEPT
       ![u].role = IF role = "KEEP" THEN @ ELSE role,
       ![u].muted = IF mute = "KEEP" THEN @ ELSE mute = "MUTE"]
  /\ AppendSystem(conv, a, Active)
  /\ UNCHANGED <<profile, state, invites, joinRequests, blocked, req, accepted>>

\* mute_until passes.
MuteExpires(u) ==
  /\ member[u].muted
  /\ member' = [member EXCEPT ![u].muted = FALSE]
  /\ UNCHANGED <<conv, profile, state, messages, outbox, invites, joinRequests,
                 blocked, req, accepted>>

GroupNext ==
  \/ \E a \in Users, p \in Profiles : UpdateProfile(a, p)
  \/ \E a, u \in Users : \/ Invite(a, u) \/ ApproveJoin(a, u) \/ RejectJoin(a, u)
                         \/ Remove(a, u) \/ TransferOwner(a, u)
  \/ \E u \in Users : \/ AcceptInvite(u) \/ RejectInvite(u) \/ JoinOpen(u)
                      \/ RequestJoin(u) \/ Leave(u) \/ Disband(u) \/ MuteExpires(u)
  \/ \E a, u \in Users, role \in RoleInputs, mute \in MuteInputs :
       UpdateMember(a, u, role, mute)

\* The membership of a group by itself, with nobody writing or reading.
GroupSpec == Init /\ [][GroupNext]_vars
=============================================================================
