-------------------------------- MODULE MCChat --------------------------------
(***************************************************************************)
(* Small conversations for TLC.                                            *)
(***************************************************************************)
EXTENDS Chat, TLC

CONSTANTS alice, bob, carol, hello, hey

\* Nobody is mentioned in "hello"; "hey" mentions bob.
MCMention == [b \in Bodies |-> IF b = hey THEN {bob} ELSE {}]

NoMention == [b \in Bodies |-> {}]

Closed == [maxMembers |-> 2, joinMode |-> "REQUEST",
           allowMemberInvites |-> FALSE, allMembersMuted |-> FALSE]

Public == [maxMembers |-> 2, joinMode |-> "OPEN",
           allowMemberInvites |-> TRUE, allMembersMuted |-> FALSE]

Quiet == [maxMembers |-> 3, joinMode |-> "INVITE_ONLY",
          allowMemberInvites |-> FALSE, allMembersMuted |-> TRUE]

DirectProfiles == {Closed}
GroupProfiles == {Closed, Public, Quiet}
OpenProfiles == {Public}

Alike == Permutations(Requests) \cup Permutations(ClientIds)

DirectSymmetry == Alike \cup Permutations(Users) \cup Permutations(Bodies)

GroupSymmetry == Permutations(Users \ {Creator})
=============================================================================
