----------------------------- MODULE ServiceProofs -----------------------------
(***************************************************************************)
(* What the other services promise, for any number of requests and workers *)
(* at once: the relations of two users, one upload, and the types of all   *)
(* services together.                                                      *)
(***************************************************************************)
EXTENDS MCServices, SessionProofs, TokenProofs, ActionProofs, FeedProofs

-----------------------------------------------------------------------------
(* Contacts and blocks                                                     *)

\* What a transaction has read and still goes by, unless it is known to be overtaken.
ChecksHold ==
  \A h \in Handlers : ~handler[h].overtaken =>
    /\ handler[h].pc \in {"asking", "checked", "blocking", "opening"} => present = Pair
    /\ handler[h].pc \in {"asking", "opening"} => blocks = {}

\* The row lock on a request: it stays PENDING for the one that decides it, and no block
\* commits before that.
DecidersHold ==
  \A h \in Deciding :
    /\ handler[h].row \in Pending /\ blocks = {}
    /\ \A g \in Deciding : handler[g].row = handler[h].row => g = h

\* A block deletes the friendship it has found; one that came after was told.
BlocksFind ==
  \A h \in Handlers : handler[h].pc = "blocking" => friend \subseteq handler[h].found
                                                       \/ "friend" \in crossed

ContactsInv ==
  /\ ContactsTypeOK /\ direct \in {0, 1}
  /\ ChecksHold /\ DecidersHold /\ BlocksFind
  /\ BlockEndsContact /\ AccountsLeaveNothing

HandlerRow == [pc : Steps, user : Pair, row : Nat, found : SUBSET Both, overtaken : BOOLEAN]

LEMMA FreeRow ==
  /\ Free \in HandlerRow /\ Free.pc = "free" /\ Free.row = 0 /\ Free.found = {}
  /\ Free.overtaken = FALSE /\ Free.user \in Pair
<1>1. Pair # {}
  BY ContactsAssumption, FS_EmptySet
<1>2. QED
  BY <1>1 DEF Free, HandlerRow, Steps

LEMMA RequestRows ==
  ASSUME ContactsTypeOK
  PROVE  /\ Len(request) \in Nat /\ DOMAIN request = 1..Len(request)
         /\ \A i \in DOMAIN request : request[i] \in FriendRequest
         /\ Pending \subseteq DOMAIN request
  BY LenProperties, ElementOfSeq DEF ContactsTypeOK, Pending

\* Turning requests keeps the others.
LEMMA TurnRows ==
  ASSUME ContactsTypeOK, NEW S, NEW status \in {"ACCEPTED", "REJECTED", "CANCELLED", "GONE"},
         Turn(S, status)
  PROVE  /\ request' \in Seq(FriendRequest) /\ DOMAIN request' = DOMAIN request
         /\ \A i \in DOMAIN request :
              request'[i].status = IF i \in S THEN status ELSE request[i].status
         /\ Pending' = Pending \ S
<1>1. \A i \in DOMAIN request :
        /\ request'[i] \in FriendRequest
        /\ request'[i].status = IF i \in S THEN status ELSE request[i].status
  BY RequestRows DEF Turn, FriendRequest
<1>2. request' \in [1..Len(request) -> FriendRequest]
  BY <1>1, RequestRows DEF Turn
<1>3. request' \in Seq(FriendRequest) /\ DOMAIN request' = DOMAIN request
  BY <1>2, RequestRows, SeqDef
<1>4. Pending' = Pending \ S
  BY <1>1, <1>3 DEF Pending
<1>5. QED
  BY <1>1, <1>3, <1>4

LEMMA InitContacts == ContactsInit => ContactsInv
<1> SUFFICES ASSUME ContactsInit PROVE ContactsInv
  OBVIOUS
<1>1. request = <<>> /\ DOMAIN request = {} /\ Pending = {}
  BY DEF ContactsInit, Pending
<1>2. request \in Seq(FriendRequest)
  BY <1>1, EmptySeq
<1>3. \A h \in Handlers : handler[h] = Free
  BY DEF ContactsInit
<1>4. handler \in [Handlers -> HandlerRow]
  BY FreeRow DEF ContactsInit
<1>5. ContactsTypeOK
  BY <1>2, <1>4 DEF ContactsInit, ContactsTypeOK, HandlerRow
<1>6. ChecksHold /\ DecidersHold /\ BlocksFind
  BY <1>3, FreeRow DEF ChecksHold, DecidersHold, Deciding, BlocksFind
<1>7. BlockEndsContact /\ AccountsLeaveNothing
  BY DEF ContactsInit, BlockEndsContact, AccountsLeaveNothing
<1>8. QED
  BY <1>5, <1>6, <1>7 DEF ContactsInit, ContactsInv

\* A handler that goes somewhere and leaves the rows alone.
LEMMA GoesOn ==
  ASSUME ContactsInv, NEW h \in Handlers, NEW r \in HandlerRow,
         handler' = [handler EXCEPT ![h] = r],
         UNCHANGED <<present, friend, blocks, request, direct, crossed>>,
         ~r.overtaken => /\ r.pc \in {"asking", "checked", "blocking", "opening"} => present = Pair
                         /\ r.pc \in {"asking", "opening"} => blocks = {},
         r.pc = "blocking" => friend \subseteq r.found,
         r.pc \in {"accepting", "rejecting"} =>
           r.row \in Pending /\ blocks = {} /\ \A g \in Deciding : handler[g].row # r.row
  PROVE  ContactsInv'
<1> USE DEF ContactsInv
<1>1. handler' \in [Handlers -> HandlerRow] /\ handler'[h] = r
      /\ \A g \in Handlers \ {h} : handler'[g] = handler[g]
  BY DEF ContactsTypeOK, HandlerRow
<1>2. ContactsTypeOK'
  BY <1>1 DEF ContactsTypeOK, HandlerRow
<1>3. Pending' = Pending
  BY DEF Pending
<1>4. Deciding' = (Deciding \ {h}) \cup (IF r.pc \in {"accepting", "rejecting"} THEN {h} ELSE {})
  BY <1>1 DEF Deciding
<1>5. ChecksHold'
  BY <1>1 DEF ChecksHold
<1>6. DecidersHold'
  BY <1>1, <1>3, <1>4 DEF DecidersHold, Deciding
<1>7. BlocksFind'
  BY <1>1 DEF BlocksFind
<1>8. BlockEndsContact' /\ AccountsLeaveNothing'
  BY <1>3 DEF BlockEndsContact, AccountsLeaveNothing
<1>9. QED
  BY <1>2, <1>5, <1>6, <1>7, <1>8

LEMMA ChecksKeep ==
  ASSUME ContactsInv, NEW h \in Handlers, NEW u \in Pair,
         AskCheck(h, u) \/ DeleteStart(h, u) \/ BlockCheck(h, u) \/ OpenCheck(h, u)
  PROVE  ContactsInv'
<1>1. CASE AskCheck(h, u) \/ BlockCheck(h, u) \/ OpenCheck(h, u)
  <2>1. PICK pc \in {"asking", "checked", "opening"} :
          /\ Goto(h, pc, u) /\ present = Pair /\ (pc # "checked" => blocks = {})
          /\ UNCHANGED <<present, friend, blocks, request, direct, crossed>>
    BY <1>1 DEF AskCheck, BlockCheck, OpenCheck
  <2> DEFINE r == [Free EXCEPT !.pc = pc, !.user = u]
  <2>2. r \in HandlerRow /\ r.pc = pc
    BY FreeRow DEF HandlerRow, Steps
  <2>3. handler' = [handler EXCEPT ![h] = r]
    BY <2>1 DEF Goto
  <2> HIDE DEF r
  <2>4. QED
    BY <2>1, <2>2, <2>3, GoesOn
<1>2. CASE DeleteStart(h, u)
  <2> DEFINE r == [Free EXCEPT !.pc = "unfriending", !.found = friend]
  <2>1. r \in HandlerRow /\ r.pc = "unfriending"
    BY FreeRow DEF HandlerRow, Steps, ContactsInv, ContactsTypeOK
  <2>2. /\ handler' = [handler EXCEPT ![h] = r]
        /\ UNCHANGED <<present, friend, blocks, request, direct, crossed>>
    BY <1>2 DEF DeleteStart
  <2> HIDE DEF r
  <2>3. QED
    BY <2>1, <2>2, GoesOn
<1>3. QED
  BY <1>1, <1>2

LEMMA DecideLockKeeps ==
  ASSUME ContactsInv, NEW h \in Handlers, NEW i \in DOMAIN request,
         NEW pc \in {"accepting", "rejecting"}, DecideLock(h, i, pc)
  PROVE  ContactsInv'
<1> DEFINE r == [Free EXCEPT !.pc = pc, !.row = i]
<1>1. r \in HandlerRow /\ r.pc = pc /\ r.row = i
  <2>1. i \in Nat
    BY RequestRows DEF ContactsInv
  <2>2. QED
    BY <2>1, FreeRow DEF HandlerRow, Steps
<1>2. /\ handler' = [handler EXCEPT ![h] = r] /\ blocks = {} /\ request[i].status = "PENDING"
      /\ \A g \in Deciding : handler[g].row # i
      /\ UNCHANGED <<present, friend, blocks, request, direct, crossed>>
  BY DEF DecideLock, RequestFree
<1>3. i \in Pending
  BY <1>2 DEF Pending
<1> HIDE DEF r
<1>4. QED
  BY <1>1, <1>2, <1>3, GoesOn

LEMMA BlockStartKeeps ==
  ASSUME ContactsInv, NEW h \in Handlers, BlockStart(h)
  PROVE  ContactsInv'
<1> DEFINE r == [handler[h] EXCEPT !.pc = "blocking", !.found = friend]
<1>1. handler[h] \in HandlerRow /\ friend \subseteq Both
  BY DEF ContactsInv, ContactsTypeOK, HandlerRow
<1>2. /\ r \in HandlerRow /\ r.pc = "blocking" /\ r.found = friend
      /\ r.overtaken = handler[h].overtaken
  BY <1>1 DEF HandlerRow, Steps
<1>3. /\ handler' = [handler EXCEPT ![h] = r] /\ handler[h].pc = "checked"
      /\ UNCHANGED <<present, friend, blocks, request, direct, crossed>>
  BY <1>1 DEF BlockStart, ContactsInv, ContactsTypeOK
<1>4. ~r.overtaken => present = Pair
  BY <1>2, <1>3 DEF ContactsInv, ChecksHold
<1> HIDE DEF r
<1>5. QED
  BY <1>2, <1>3, <1>4, GoesOn

LEMMA Finished ==
  ASSUME ContactsTypeOK, NEW h \in Handlers, Finish(h)
  PROVE  /\ handler' \in [Handlers -> HandlerRow] /\ handler'[h] = Free
         /\ \A g \in Handlers \ {h} : handler'[g] = handler[g]
         /\ Deciding' = Deciding \ {h}
<1>1. /\ handler' \in [Handlers -> HandlerRow] /\ handler'[h] = Free
      /\ \A g \in Handlers \ {h} : handler'[g] = handler[g]
  BY FreeRow DEF Finish, ContactsTypeOK, HandlerRow
<1>2. Deciding' = Deciding \ {h}
  BY <1>1, FreeRow DEF Deciding
<1>3. QED
  BY <1>1, <1>2

\* What crossed says of a relation after it was written.
LEMMA WritesSays ==
  ASSUME ContactsTypeOK, NEW h \in Handlers, NEW relation \in {"request", "block", "direct"},
         Writes(h, relation)
  PROVE  /\ crossed' \subseteq {"friend", "request", "block", "direct"}
         /\ relation \in crossed' <=> handler[h].overtaken
         /\ \A other \in {"friend", "request", "block", "direct"} \ {relation} :
              other \in crossed' <=> other \in crossed
<1>1. CASE handler[h].overtaken
  BY <1>1 DEF Writes, ContactsTypeOK
<1>2. CASE ~handler[h].overtaken
  BY <1>2 DEF Writes, ContactsTypeOK
<1>3. QED
  BY <1>1, <1>2

LEMMA AskCommitKeeps ==
  ASSUME ContactsInv, NEW h \in Handlers, AskCommit(h)
  PROVE  ContactsInv'
<1> USE DEF ContactsInv
<1> DEFINE asked == [from |-> handler[h].user, status |-> "PENDING"]
           new == Len(request) + 1
<1>1. /\ handler[h].pc = "asking" /\ Pending = {} /\ request' = Append(request, asked)
      /\ Writes(h, "request") /\ Finish(h)
      /\ UNCHANGED <<present, friend, blocks, direct>>
  BY DEF AskCommit
<1>2. asked \in FriendRequest /\ asked.status = "PENDING"
  BY DEF FriendRequest, ContactsTypeOK
<1> HIDE DEF asked
<1>3. /\ request' \in Seq(FriendRequest) /\ DOMAIN request' = 1..new
      /\ DOMAIN request \subseteq DOMAIN request' /\ request'[new] = asked
      /\ \A i \in DOMAIN request : request'[i] = request[i]
  BY <1>1, <1>2, RequestRows, AppendProperties, LenProperties DEF ContactsTypeOK
<1>4. /\ handler' \in [Handlers -> HandlerRow] /\ handler'[h] = Free
      /\ \A g \in Handlers \ {h} : handler'[g] = handler[g]
      /\ Deciding' = Deciding \ {h}
  BY <1>1, Finished
<1>5. /\ crossed' \subseteq {"friend", "request", "block", "direct"}
      /\ "request" \in crossed' <=> handler[h].overtaken
      /\ "friend" \in crossed' <=> "friend" \in crossed
      /\ "block" \in crossed' <=> "block" \in crossed
  BY <1>1, WritesSays
<1>6. ~handler[h].overtaken => present = Pair /\ blocks = {}
  BY <1>1 DEF ChecksHold
<1>7. ContactsTypeOK' /\ direct' \in {0, 1}
  BY <1>1, <1>3, <1>4, <1>5 DEF ContactsTypeOK, HandlerRow
<1>8. ChecksHold'
  BY <1>1, <1>4, FreeRow DEF ChecksHold
<1>9. DecidersHold'
  <2>1. Deciding = {}
    BY <1>1 DEF DecidersHold
  <2>2. QED
    BY <1>4, <2>1 DEF DecidersHold
<1>10. BlocksFind'
  BY <1>1, <1>4, <1>5, FreeRow DEF BlocksFind
<1>11. BlockEndsContact' /\ AccountsLeaveNothing'
  BY <1>1, <1>3, <1>5, <1>6 DEF BlockEndsContact, AccountsLeaveNothing
<1>12. QED
  BY <1>7, <1>8, <1>9, <1>10, <1>11

\* A decision: the request it holds is PENDING until now.
LEMMA DecisionKeeps ==
  ASSUME ContactsInv, NEW h \in Deciding, NEW status \in {"ACCEPTED", "REJECTED"},
         Turn({handler[h].row}, status), Finish(h), UNCHANGED <<present, blocks, direct>>,
         \/ friend' = friend /\ crossed' = crossed
         \/ friend' = friend \cup Both /\ "friend" \in crossed' /\ crossed' = crossed \cup {"friend"}
         \/ /\ friend' = friend \cup Both /\ crossed' = crossed \ {"friend"} /\ present = Pair
            /\ \A g \in Handlers : handler[g].pc # "blocking"
  PROVE  ContactsInv'
<1> USE DEF ContactsInv
<1>1. h \in Handlers /\ handler[h].row \in Pending /\ blocks = {}
  BY DEF Deciding, DecidersHold
<1>2. /\ request' \in Seq(FriendRequest) /\ DOMAIN request' = DOMAIN request
      /\ \A i \in DOMAIN request :
           request'[i].status = IF i = handler[h].row THEN status ELSE request[i].status
      /\ Pending' = Pending \ {handler[h].row}
  BY TurnRows
<1>3. /\ handler' \in [Handlers -> HandlerRow] /\ handler'[h] = Free
      /\ \A g \in Handlers \ {h} : handler'[g] = handler[g]
      /\ Deciding' = Deciding \ {h}
  BY <1>1, Finished
<1>4. /\ crossed' \subseteq {"friend", "request", "block", "direct"} /\ friend' \subseteq Both
      /\ "request" \in crossed' <=> "request" \in crossed
      /\ "block" \in crossed' <=> "block" \in crossed
  BY DEF ContactsTypeOK
<1>5. ContactsTypeOK' /\ direct' \in {0, 1}
  BY <1>2, <1>3, <1>4 DEF ContactsTypeOK, HandlerRow
<1>6. ChecksHold'
  BY <1>3, FreeRow DEF ChecksHold
<1>7. DecidersHold'
  <2> SUFFICES ASSUME NEW g \in Deciding \ {h}
               PROVE  /\ handler'[g].row \in Pending' /\ blocks' = {}
                      /\ \A f \in Deciding \ {h} : handler'[f].row = handler'[g].row => f = g
    BY <1>3 DEF DecidersHold
  <2>1. g \in Handlers \ {h} /\ \A f \in Deciding \ {h} : f \in Handlers \ {h}
    BY DEF Deciding
  <2>2. handler[g].row # handler[h].row /\ handler[g].row \in Pending
    BY <1>1 DEF DecidersHold
  <2>3. QED
    BY <1>1, <1>2, <1>3, <2>1, <2>2 DEF DecidersHold
<1>8. BlocksFind'
  BY <1>3, FreeRow DEF BlocksFind
<1>9. BlockEndsContact'
  BY <1>1 DEF BlockEndsContact
<1>10. AccountsLeaveNothing'
  <2>1. present # Pair => friend' = {} \/ "friend" \in crossed'
    BY DEF AccountsLeaveNothing
  <2>2. present # Pair => "request" \in crossed
    BY <1>1 DEF AccountsLeaveNothing, Pending
  <2>3. QED
    BY <1>1, <1>4, <2>1, <2>2 DEF AccountsLeaveNothing
<1>11. QED
  BY <1>5, <1>6, <1>7, <1>8, <1>9, <1>10

LEMMA DecideKeeps ==
  ASSUME ContactsInv, NEW h \in Handlers, RejectCommit(h) \/ AcceptCommit(h)
  PROVE  ContactsInv'
<1>1. h \in Deciding
  BY DEF RejectCommit, AcceptCommit, Deciding
<1>2. CASE RejectCommit(h)
  BY <1>1, <1>2, DecisionKeeps DEF RejectCommit
<1>3. CASE AcceptCommit(h)
  <2>1. /\ Turn({handler[h].row}, "ACCEPTED") /\ Finish(h) /\ friend' = friend \cup Both
        /\ UNCHANGED <<present, blocks, direct>>
    BY <1>3 DEF AcceptCommit
  <2>2. CASE present # Pair \/ \E g \in Handlers : handler[g].pc = "blocking"
    <3>1. crossed' = crossed \cup {"friend"}
      BY <1>3, <2>2 DEF AcceptCommit
    <3>2. QED
      BY <1>1, <2>1, <3>1, DecisionKeeps
  <2>3. CASE ~(present # Pair \/ \E g \in Handlers : handler[g].pc = "blocking")
    <3>1. crossed' = crossed \ {"friend"}
      BY <1>3, <2>3 DEF AcceptCommit
    <3>2. QED
      BY <1>1, <2>1, <2>3, <3>1, DecisionKeeps
  <2>4. QED
    BY <2>2, <2>3
<1>4. QED
  BY <1>2, <1>3

LEMMA DeleteCommitKeeps ==
  ASSUME ContactsInv, NEW h \in Handlers, DeleteCommit(h)
  PROVE  ContactsInv'
<1> USE DEF ContactsInv
<1>1. /\ Finish(h) /\ friend' \subseteq friend
      /\ UNCHANGED <<present, blocks, request, direct, crossed>>
  BY DEF DeleteCommit
<1>2. /\ handler' \in [Handlers -> HandlerRow] /\ handler'[h] = Free
      /\ \A g \in Handlers \ {h} : handler'[g] = handler[g]
      /\ Deciding' = Deciding \ {h}
  BY <1>1, Finished
<1>3. Pending' = Pending
  BY <1>1 DEF Pending
<1>4. ContactsTypeOK' /\ direct' \in {0, 1}
  BY <1>1, <1>2 DEF ContactsTypeOK, HandlerRow
<1>5. ChecksHold' /\ BlocksFind'
  BY <1>1, <1>2, FreeRow DEF ChecksHold, BlocksFind
<1>6. DecidersHold'
  BY <1>1, <1>2, <1>3 DEF DecidersHold, Deciding
<1>7. BlockEndsContact' /\ AccountsLeaveNothing'
  BY <1>1, <1>3 DEF BlockEndsContact, AccountsLeaveNothing
<1>8. QED
  BY <1>4, <1>5, <1>6, <1>7

\* The others who have checked something are overtaken.
LEMMA BlockCommitKeeps ==
  ASSUME ContactsInv, NEW h \in Handlers, BlockCommit(h)
  PROVE  ContactsInv'
<1> USE DEF ContactsInv
<1>1. /\ handler[h].pc = "blocking" /\ Deciding = {}
      /\ blocks' = blocks \cup {<<handler[h].user, Other(handler[h].user)>>}
      /\ friend' = friend \ handler[h].found /\ Turn(Pending, "CANCELLED")
      /\ Writes(h, "block") /\ FinishOvertaking(h) /\ UNCHANGED <<present, direct>>
  BY DEF BlockCommit
<1>2. \A g \in Handlers : handler[g] \in HandlerRow
  BY DEF ContactsTypeOK, HandlerRow
<1>3. /\ handler' \in [Handlers -> HandlerRow] /\ handler'[h] = Free
      /\ \A g \in Handlers \ {h} :
           /\ handler'[g].pc = handler[g].pc /\ handler'[g].found = handler[g].found
           /\ handler[g].pc # "free" => handler'[g].overtaken
  <2>1. \A g \in Handlers :
          handler'[g] = IF g = h THEN Free
                        ELSE [handler[g] EXCEPT !.overtaken = (handler[g].pc # "free")]
    BY <1>1 DEF FinishOvertaking
  <2>2. \A g \in Handlers : (handler[g].pc # "free") \in BOOLEAN
    OBVIOUS
  <2>3. \A g \in Handlers : \A b \in BOOLEAN :
          /\ [handler[g] EXCEPT !.overtaken = b] \in HandlerRow
          /\ [handler[g] EXCEPT !.overtaken = b].pc = handler[g].pc
          /\ [handler[g] EXCEPT !.overtaken = b].found = handler[g].found
          /\ [handler[g] EXCEPT !.overtaken = b].overtaken = b
    BY <1>2 DEF HandlerRow
  <2>4. ASSUME NEW g \in Handlers PROVE handler'[g] \in HandlerRow
    <3>1. CASE g = h
      BY <2>1, <3>1, FreeRow
    <3>2. CASE g # h
      <4>1. handler'[g] = [handler[g] EXCEPT !.overtaken = (handler[g].pc # "free")]
        BY <2>1, <3>2
      <4>2. QED
        BY <2>2, <2>3, <4>1, Zenon
    <3>3. QED
      BY <3>1, <3>2
  <2>5. handler' \in [Handlers -> HandlerRow]
    BY <1>1, <2>4 DEF FinishOvertaking
  <2>6. handler'[h] = Free
    BY <2>1
  <2>7. \A g \in Handlers \ {h} :
           /\ handler'[g].pc = handler[g].pc /\ handler'[g].found = handler[g].found
           /\ handler[g].pc # "free" => handler'[g].overtaken
    BY <2>1, <2>2, <2>3
  <2>8. QED
    BY <2>5, <2>6, <2>7
<1>4. /\ request' \in Seq(FriendRequest) /\ DOMAIN request' = DOMAIN request /\ Pending' = {}
      /\ \A i \in DOMAIN request :
           request'[i].status = IF i \in Pending THEN "CANCELLED" ELSE request[i].status
  BY <1>1, TurnRows
<1>5. /\ crossed' \subseteq {"friend", "request", "block", "direct"}
      /\ "block" \in crossed' <=> handler[h].overtaken
      /\ "friend" \in crossed' <=> "friend" \in crossed
      /\ "request" \in crossed' <=> "request" \in crossed
  BY <1>1, WritesSays
<1>6. friend' \subseteq friend /\ (friend' = {} \/ "friend" \in crossed')
  BY <1>1, <1>5 DEF BlocksFind
<1>7. blocks' \subseteq Both
  BY <1>1, <1>2 DEF ContactsTypeOK, HandlerRow, Both
<1>8. ContactsTypeOK' /\ direct' \in {0, 1}
  BY <1>1, <1>3, <1>4, <1>5, <1>6, <1>7 DEF ContactsTypeOK, HandlerRow
<1>9. ChecksHold'
  BY <1>3, FreeRow DEF ChecksHold
<1>10. Deciding' = {}
  BY <1>1, <1>3, FreeRow DEF Deciding
<1>11. BlocksFind'
  BY <1>3, <1>5, <1>6, FreeRow DEF BlocksFind
<1>12. BlockEndsContact'
  BY <1>4, <1>6 DEF BlockEndsContact
<1>13. AccountsLeaveNothing'
  <2> SUFFICES ASSUME present # Pair
               PROVE  /\ "block" \in crossed'
                      /\ \/ \A i \in DOMAIN request' : request'[i].status = "GONE"
                         \/ "request" \in crossed'
    BY <1>1, <1>6 DEF AccountsLeaveNothing
  <2>1. "block" \in crossed'
    BY <1>1, <1>5 DEF ChecksHold
  <2>2. \/ \A i \in DOMAIN request : request[i].status = "GONE"
        \/ "request" \in crossed
    BY DEF AccountsLeaveNothing
  <2>3. QED
    BY <1>4, <1>5, <2>1, <2>2 DEF Pending
<1>14. QED
  BY <1>8, <1>9, <1>10, <1>11, <1>12, <1>13 DEF DecidersHold

LEMMA UnblockKeeps ==
  ASSUME ContactsInv, NEW u \in Pair, Unblock(u)
  PROVE  ContactsInv'
<1> USE DEF ContactsInv
<1>1. blocks' \subseteq blocks /\ UNCHANGED <<present, friend, request, direct, handler, crossed>>
  BY DEF Unblock
<1>2. Pending' = Pending /\ Deciding' = Deciding
  BY <1>1 DEF Pending, Deciding
<1>3. ContactsTypeOK' /\ direct' \in {0, 1}
  BY <1>1 DEF ContactsTypeOK
<1>4. ChecksHold' /\ DecidersHold' /\ BlocksFind'
  BY <1>1, <1>2 DEF ChecksHold, DecidersHold, BlocksFind
<1>5. BlockEndsContact' /\ AccountsLeaveNothing'
  BY <1>1, <1>2 DEF BlockEndsContact, AccountsLeaveNothing
<1>6. QED
  BY <1>3, <1>4, <1>5

LEMMA DeleteUserKeeps ==
  ASSUME ContactsInv, NEW u \in Pair, DeleteUser(u)
  PROVE  ContactsInv'
<1> USE DEF ContactsInv
<1>1. /\ present' \subseteq present /\ friend' = {} /\ blocks' = {}
      /\ Turn(DOMAIN request, "GONE") /\ UNCHANGED <<direct, crossed>>
      /\ \A h \in Handlers : handler[h].pc \notin Writing
  BY DEF DeleteUser
<1>2. \A g \in Handlers : handler[g] \in HandlerRow
  BY DEF ContactsTypeOK, HandlerRow
<1>3. /\ handler' \in [Handlers -> HandlerRow]
      /\ \A g \in Handlers : /\ handler'[g].pc = handler[g].pc
                             /\ handler[g].pc # "free" => handler'[g].overtaken
  <2>1. handler' = [g \in Handlers |-> [handler[g] EXCEPT !.overtaken = (handler[g].pc # "free")]]
    BY DEF DeleteUser
  <2>2. \A g \in Handlers : (handler[g].pc # "free") \in BOOLEAN
    OBVIOUS
  <2>3. \A g \in Handlers : \A b \in BOOLEAN :
          /\ [handler[g] EXCEPT !.overtaken = b] \in HandlerRow
          /\ [handler[g] EXCEPT !.overtaken = b].pc = handler[g].pc
          /\ [handler[g] EXCEPT !.overtaken = b].overtaken = b
    BY <1>2 DEF HandlerRow
  <2>4. \A g \in Handlers :
          /\ handler'[g] \in HandlerRow /\ handler'[g].pc = handler[g].pc
          /\ handler[g].pc # "free" => handler'[g].overtaken
    BY <2>1, <2>2, <2>3
  <2>5. QED
    BY <2>1, <2>4
<1>4. /\ request' \in Seq(FriendRequest) /\ DOMAIN request' = DOMAIN request
      /\ \A i \in DOMAIN request : request'[i].status = "GONE"
  BY <1>1, TurnRows
<1>5. Pending' = {}
  BY <1>4 DEF Pending
<1>6. ContactsTypeOK' /\ direct' \in {0, 1}
  BY <1>1, <1>3, <1>4 DEF ContactsTypeOK, HandlerRow
<1>7. ChecksHold'
  BY <1>3 DEF ChecksHold
<1>8. DecidersHold' /\ BlocksFind'
  BY <1>1, <1>3 DEF DecidersHold, Deciding, BlocksFind, Writing
<1>9. BlockEndsContact' /\ AccountsLeaveNothing'
  BY <1>1, <1>4 DEF BlockEndsContact, AccountsLeaveNothing
<1>10. QED
  BY <1>6, <1>7, <1>8, <1>9

LEMMA OpenCommitKeeps ==
  ASSUME ContactsInv, NEW h \in Handlers, OpenCommit(h)
  PROVE  ContactsInv'
<1> USE DEF ContactsInv
<1>1. direct' = 1 /\ Finish(h) /\ UNCHANGED <<present, friend, blocks, request>>
  BY DEF OpenCommit
<1>2. /\ crossed' \subseteq {"friend", "request", "block", "direct"}
      /\ \A other \in {"friend", "request", "block"} : other \in crossed' <=> other \in crossed
  <2>1. CASE direct = 0
    BY <2>1, WritesSays DEF OpenCommit
  <2>2. CASE direct # 0
    BY <2>2 DEF OpenCommit, ContactsTypeOK
  <2>3. QED
    BY <2>1, <2>2
<1>3. /\ handler' \in [Handlers -> HandlerRow] /\ handler'[h] = Free
      /\ \A g \in Handlers \ {h} : handler'[g] = handler[g]
      /\ Deciding' = Deciding \ {h}
  BY <1>1, Finished
<1>4. Pending' = Pending
  BY <1>1 DEF Pending
<1>5. ContactsTypeOK' /\ direct' \in {0, 1}
  BY <1>1, <1>2, <1>3 DEF ContactsTypeOK, HandlerRow
<1>6. ChecksHold' /\ BlocksFind'
  BY <1>1, <1>2, <1>3, FreeRow DEF ChecksHold, BlocksFind
<1>7. DecidersHold'
  BY <1>1, <1>3, <1>4 DEF DecidersHold, Deciding
<1>8. BlockEndsContact' /\ AccountsLeaveNothing'
  BY <1>1, <1>2, <1>4 DEF BlockEndsContact, AccountsLeaveNothing
<1>9. QED
  BY <1>5, <1>6, <1>7, <1>8

LEMMA RollsBackKeeps ==
  ASSUME ContactsInv, NEW h \in Handlers, RollsBack(h)
  PROVE  ContactsInv'
  BY FreeRow, GoesOn DEF RollsBack, Finish

LEMMA NextContacts == ContactsInv /\ [ContactsNext]_contactsVars => ContactsInv'
<1> SUFFICES ASSUME ContactsInv, [ContactsNext]_contactsVars PROVE ContactsInv'
  OBVIOUS
<1>1. CASE \E h \in Handlers, u \in Pair :
             AskCheck(h, u) \/ DeleteStart(h, u) \/ BlockCheck(h, u) \/ OpenCheck(h, u)
  BY <1>1, ChecksKeep
<1>2. CASE \E h \in Handlers, i \in DOMAIN request, pc \in {"accepting", "rejecting"} :
             DecideLock(h, i, pc)
  BY <1>2, DecideLockKeeps
<1>3. CASE \E h \in Handlers : \/ AskCommit(h) \/ RejectCommit(h) \/ AcceptCommit(h)
                              \/ DeleteCommit(h) \/ BlockStart(h) \/ BlockCommit(h)
                              \/ RollsBack(h) \/ OpenCommit(h)
  BY <1>3, AskCommitKeeps, DecideKeeps, DeleteCommitKeeps, BlockStartKeeps, BlockCommitKeeps,
     RollsBackKeeps, OpenCommitKeeps
<1>4. CASE \E u \in Pair : Unblock(u) \/ DeleteUser(u)
  BY <1>4, UnblockKeeps, DeleteUserKeeps
<1>5. CASE UNCHANGED contactsVars
  <2>1. UNCHANGED <<present, friend, blocks, request, direct, handler, crossed>>
    BY <1>5 DEF contactsVars
  <2>2. Pending' = Pending /\ Deciding' = Deciding
    BY <2>1 DEF Pending, Deciding
  <2>3. QED
    BY <2>1, <2>2 DEF ContactsInv, ContactsTypeOK, ChecksHold, DecidersHold, BlocksFind,
                      BlockEndsContact, AccountsLeaveNothing
<1>6. QED
  BY <1>1, <1>2, <1>3, <1>4, <1>5 DEF ContactsNext

\* blockUser and deleteCurrent: a block or a deleted account leaves no friendship, block
\* or request behind, but those of a transaction that had checked before.
THEOREM RelationsAreEnded == ContactsSpec => []RelationsEnd
<1>1. ContactsInv => RelationsEnd
  BY DEF ContactsInv, RelationsEnd
<1>2. QED
  BY <1>1, InitContacts, NextContacts, PTL DEF ContactsSpec

\* decideFriendRequest under its row lock: no step takes a decision back.
THEOREM DecisionsStay == ContactsSpec => DecisionsAreFinal
<1> DEFINE Final == \A i \in DOMAIN request : request[i].status # "PENDING" =>
                      request'[i].status \in {request[i].status, "GONE"}
<1>1. ContactsInv /\ [ContactsNext]_contactsVars => [Final]_contactsVars
  <2> SUFFICES ASSUME ContactsInv, [ContactsNext]_contactsVars PROVE Final \/ UNCHANGED contactsVars
    OBVIOUS
  <2> USE DEF ContactsInv
  <2>1. CASE \E h \in Handlers : AskCommit(h)
    <3>1. PICK h \in Handlers : AskCommit(h)
      BY <2>1
    <3>2. [from |-> handler[h].user, status |-> "PENDING"] \in FriendRequest
      BY DEF FriendRequest, ContactsTypeOK
    <3>3. \A i \in DOMAIN request : request'[i] = request[i]
      BY <3>1, <3>2, RequestRows, AppendProperties DEF AskCommit, ContactsTypeOK
    <3>4. QED
      BY <3>3
  <2>2. CASE \E h \in Handlers : RejectCommit(h) \/ AcceptCommit(h)
    <3>1. PICK h \in Handlers : RejectCommit(h) \/ AcceptCommit(h)
      BY <2>2
    <3>2. handler[h].row \in Pending
      BY <3>1 DEF DecidersHold, Deciding, RejectCommit, AcceptCommit
    <3>3. PICK status \in {"ACCEPTED", "REJECTED"} : Turn({handler[h].row}, status)
      BY <3>1 DEF RejectCommit, AcceptCommit
    <3>4. QED
      BY <3>2, <3>3, TurnRows DEF Pending
  <2>3. CASE \E h \in Handlers : BlockCommit(h)
    <3>1. Turn(Pending, "CANCELLED")
      BY <2>3 DEF BlockCommit
    <3>2. QED
      BY <3>1, TurnRows DEF Pending
  <2>4. CASE \E u \in Pair : DeleteUser(u)
    <3>1. Turn(DOMAIN request, "GONE")
      BY <2>4 DEF DeleteUser
    <3>2. QED
      BY <3>1, TurnRows
  <2>5. CASE request' = request
    BY <2>5
  <2>6. QED
    BY <2>1, <2>2, <2>3, <2>4, <2>5
       DEF ContactsNext, AskCheck, DeleteStart, BlockCheck, OpenCheck, DecideLock, DeleteCommit,
           BlockStart, RollsBack, OpenCommit, Unblock, contactsVars
<1>2. QED
  BY <1>1, InitContacts, NextContacts, PTL DEF ContactsSpec, DecisionsAreFinal

\* createDirect and its unique index: two users open one conversation, and none across a
\* block that was there to be seen.
THEOREM DirectOpenedOnce == ContactsSpec => OpenedOnceUnblocked
<1> DEFINE Once == direct' # direct =>
                     direct = 0 /\ (blocks = {} \/ "direct" \in crossed')
<1>1. ContactsInv /\ [ContactsNext]_contactsVars => [Once]_contactsVars
  <2> SUFFICES ASSUME ContactsInv, [ContactsNext]_contactsVars, direct' # direct
               PROVE  direct = 0 /\ (blocks = {} \/ "direct" \in crossed')
    OBVIOUS
  <2> USE DEF ContactsInv
  <2>1. PICK h \in Handlers : OpenCommit(h)
    BY DEF ContactsNext, AskCheck, DeleteStart, BlockCheck, OpenCheck, DecideLock, DeleteCommit,
           BlockStart, RollsBack, Unblock, contactsVars, AskCommit, RejectCommit, AcceptCommit,
           BlockCommit, DeleteUser
  <2>2. direct = 0 /\ Writes(h, "direct") /\ handler[h].pc = "opening"
    BY <2>1 DEF OpenCommit
  <2>3. "direct" \in crossed' <=> handler[h].overtaken
    BY <2>2, WritesSays
  <2>4. QED
    BY <2>2, <2>3 DEF ChecksHold
<1>2. QED
  BY <1>1, InitContacts, NextContacts, PTL DEF ContactsSpec, OpenedOnceUnblocked

-----------------------------------------------------------------------------
(* Uploads                                                                 *)

Marking == {w \in Workers : at[w] = "mark"}

\* complete commits once, so that there is one job, and nothing is told before it.
CompletesOnce ==
  /\ \A c, d \in Calls : at[c] \in {"completing", "enqueue"} /\ at[d] \in {"completing", "enqueue"}
                         => c = d
  /\ \A c \in Calls : at[c] \in {"completing", "enqueue"} => job.state = "none"
  /\ attachment \in {"NONE", "UPLOADING"} =>
       job.state = "none" /\ \A c \in Calls : at[c] # "enqueue"
  /\ job.state = "none" => Busy = {} /\ outcomes = <<>>
  /\ attachment = "PROCESSING" => outcomes = <<>>

\* Who ends an upload has seen a session that was not completed, and once complete has
\* committed behind nobody's back there is no such request or job.
SessionHeld ==
  /\ upload = "NONE" =>
       attachment \in {"NONE", "UPLOADING"} /\ ~late /\ \A a \in Calls \cup Workers : at[a] = "idle"
  /\ upload = "OPEN" =>
       \A a \in Calls \cup Workers : at[a] \notin {"cancelled", "delete", "got", "expired", "clean"}
  /\ \A c \in Calls : at[c] = "completing" => upload = "OPEN" /\ object
  /\ attachment \in {"PROCESSING", "READY"} /\ ~overtaken =>
       /\ upload = "COMPLETED" /\ object
       /\ \A a \in Calls \cup Workers : at[a] \notin Unlocked \cup {"delete"}

\* Every stall gives the job to one worker more; only those that read it PROCESSING are
\* about to mark it failed.
WorkersCounted ==
  /\ IsFiniteSet(Busy)
  /\ Cardinality(Busy) <= job.stalls + (IF job.state = "active" THEN 1 ELSE 0)
  /\ Cardinality(Busy) <= MaxStalls + (IF job.state = "waiting" THEN 0 ELSE 1)
  /\ outcomes # <<>> => /\ Len(outcomes) + Cardinality(Marking) <= 1 + job.stalls
                        /\ Len(outcomes) + Cardinality(Marking) <= 1 + MaxStalls

OutcomesInOrder ==
  /\ attachment \in Outcomes => outcomes # <<>> /\ outcomes[Len(outcomes)] = attachment
  /\ \A i \in 2..Len(outcomes) : outcomes[i] = "FAILED"

MediaInv ==
  /\ MediaTypeOK /\ CompletesOnce /\ SessionHeld /\ ProcessingHasJob
  /\ WorkersCounted /\ OutcomesInOrder

LEMMA InitMedia == MediaInit => MediaInv
<1> SUFFICES ASSUME MediaInit PROVE MediaInv
  OBVIOUS
<1>1. outcomes \in Seq(Outcomes) /\ Len(outcomes) = 0
  BY EmptySeq DEF MediaInit
<1>2. MediaTypeOK
  BY <1>1 DEF MediaInit, MediaTypeOK, CallSteps, WorkerSteps
<1>3. Busy = {} /\ Marking = {}
  BY DEF MediaInit, Busy, Marking
<1>4. CompletesOnce
  BY <1>3 DEF MediaInit, CompletesOnce
<1>5. SessionHeld
  BY DEF MediaInit, SessionHeld, Unlocked
<1>6. ProcessingHasJob /\ OutcomesInOrder
  BY <1>1 DEF MediaInit, ProcessingHasJob, OutcomesInOrder, Outcomes
<1>7. IsFiniteSet(Busy) /\ Cardinality(Busy) = 0
  BY <1>3, FS_EmptySet
<1>8. WorkersCounted
  BY <1>7, MediaAssumption DEF MediaInit, WorkersCounted
<1>9. QED
  BY <1>2, <1>4, <1>5, <1>6, <1>8 DEF MediaInv

\* Requests and workers are different.
LEMMA CallMoves ==
  ASSUME MediaTypeOK, NEW c \in Calls, NEW v \in CallSteps, at' = [at EXCEPT ![c] = v]
  PROVE  /\ at' \in [Calls \cup Workers -> CallSteps \cup WorkerSteps]
         /\ \A d \in Calls : at'[d] \in CallSteps
         /\ \A w \in Workers : at'[w] = at[w] /\ at'[w] \in WorkerSteps
         /\ at'[c] = v /\ \A a \in (Calls \cup Workers) \ {c} : at'[a] = at[a]
         /\ Busy' = Busy /\ Marking' = Marking
<1>1. c \notin Workers /\ at'[c] = v /\ \A a \in (Calls \cup Workers) \ {c} : at'[a] = at[a]
  BY MediaAssumption DEF MediaTypeOK
<1>2. \A w \in Workers : at'[w] = at[w]
  BY <1>1
<1>3. /\ at' \in [Calls \cup Workers -> CallSteps \cup WorkerSteps]
      /\ \A d \in Calls : at'[d] \in CallSteps
      /\ \A w \in Workers : at'[w] \in WorkerSteps
  BY <1>1, <1>2 DEF MediaTypeOK
<1>4. Busy' = Busy /\ Marking' = Marking
  BY <1>2 DEF Busy, Marking
<1>5. QED
  BY <1>1, <1>2, <1>3, <1>4

LEMMA WorkerMoves ==
  ASSUME MediaTypeOK, NEW w \in Workers, NEW v \in WorkerSteps, at' = [at EXCEPT ![w] = v]
  PROVE  /\ at' \in [Calls \cup Workers -> CallSteps \cup WorkerSteps]
         /\ \A c \in Calls : at'[c] = at[c] /\ at'[c] \in CallSteps
         /\ \A u \in Workers : at'[u] \in WorkerSteps
         /\ at'[w] = v /\ \A a \in (Calls \cup Workers) \ {w} : at'[a] = at[a]
         /\ Busy' = (Busy \ {w}) \cup (IF v \in {"scan", "fail", "mark"} THEN {w} ELSE {})
         /\ Marking' = (Marking \ {w}) \cup (IF v = "mark" THEN {w} ELSE {})
<1>1. w \notin Calls /\ at'[w] = v /\ \A a \in (Calls \cup Workers) \ {w} : at'[a] = at[a]
  BY MediaAssumption DEF MediaTypeOK
<1>2. \A c \in Calls : at'[c] = at[c]
  BY <1>1
<1>3. /\ at' \in [Calls \cup Workers -> CallSteps \cup WorkerSteps]
      /\ \A c \in Calls : at'[c] \in CallSteps
      /\ \A u \in Workers : at'[u] \in WorkerSteps
  BY <1>1, <1>2 DEF MediaTypeOK
<1>4. Busy' = (Busy \ {w}) \cup (IF v \in {"scan", "fail", "mark"} THEN {w} ELSE {})
  BY <1>1 DEF Busy
<1>5. Marking' = (Marking \ {w}) \cup (IF v = "mark" THEN {w} ELSE {})
  BY <1>1 DEF Marking
<1>6. QED
  BY <1>1, <1>2, <1>3, <1>4, <1>5

\* The client and the clock.
LEMMA UploadKeeps ==
  ASSUME MediaInv, CreateAttachment \/ CreateSession \/ Put \/ UploadTimesOut
  PROVE  MediaInv'
<1> USE DEF MediaInv, mediaRows, jobs, history
<1>1. UNCHANGED <<at, job, outcomes, lost, overtaken>>
  BY DEF CreateAttachment, CreateSession, Put, UploadTimesOut
<1>2. /\ attachment' = attachment \/ (attachment = "NONE" /\ attachment' = "UPLOADING")
      /\ \/ upload' = upload
         \/ upload = "NONE" /\ upload' = "OPEN" /\ attachment = "UPLOADING" /\ late' = late
      /\ late' = late \/ (late' = TRUE /\ upload # "NONE" /\ upload' = upload)
      /\ object' = object \/ object' = TRUE
      /\ cleanup' \in {cleanup, "waiting", "none"}
  BY DEF CreateAttachment, CreateSession, Put, UploadTimesOut
<1>3. Busy' = Busy /\ Marking' = Marking
  BY <1>1 DEF Busy, Marking
<1>4. MediaTypeOK'
  <2>1. late' \in BOOLEAN /\ object' \in BOOLEAN
    BY <1>2, Zenon DEF MediaTypeOK
  <2>2. /\ attachment' \in {attachment, "UPLOADING"} /\ upload' \in {upload, "OPEN"}
        /\ cleanup' \in {cleanup, "waiting", "none"}
    BY <1>2
  <2>3. QED
    BY <1>1, <2>1, <2>2 DEF MediaTypeOK
<1>5. CompletesOnce'
  BY <1>1, <1>2, <1>3 DEF CompletesOnce
<1>6. SessionHeld'
  BY <1>1, <1>2 DEF SessionHeld
<1>7. ProcessingHasJob'
  BY <1>1, <1>2 DEF ProcessingHasJob
<1>8. WorkersCounted' /\ OutcomesInOrder'
  BY <1>1, <1>2, <1>3 DEF WorkersCounted, OutcomesInOrder, Outcomes
<1>9. QED
  BY <1>4, <1>5, <1>6, <1>7, <1>8

\* cancel, get and complete, which leave the jobs and what was told alone.
LEMMA CallsKeep ==
  ASSUME MediaInv, NEW c \in Calls, NEW v \in CallSteps, at' = [at EXCEPT ![c] = v],
         UNCHANGED <<late, job, cleanup, outcomes>>,
         attachment' \in {attachment, "DELETED", "PROCESSING"},
         upload' \in {"NONE", "OPEN", "COMPLETED", "EXPIRED", "CANCELLED"},
         object' \in BOOLEAN, lost' \subseteq Losses, overtaken' \in BOOLEAN,
         CompletesOnce', SessionHeld', ProcessingHasJob'
  PROVE  MediaInv'
<1> USE DEF MediaInv
<1>1. MediaTypeOK'
  BY CallMoves DEF MediaTypeOK
<1>2. Busy' = Busy /\ Marking' = Marking
  BY CallMoves
<1>3. WorkersCounted' /\ OutcomesInOrder'
  BY <1>2 DEF WorkersCounted, OutcomesInOrder, Outcomes
<1>4. QED
  BY <1>1, <1>3

LEMMA CancelKeeps ==
  ASSUME MediaInv, NEW c \in Calls,
         \/ CancelRead(c) \/ CancelSession(c) \/ CancelAttachment(c) \/ CancelObject(c)
         \/ GetRead(c) \/ GetSession(c) \/ GetAttachment(c)
  PROVE  MediaInv'
<1> USE DEF MediaInv, mediaRows, jobs, history
<1>1. PICK from \in {"idle", "cancel", "cancelled", "delete", "get", "got"},
           v \in {"cancel", "cancelled", "delete", "idle", "get", "got"} :
        at[c] = from /\ at' = [at EXCEPT ![c] = v]
  BY DEF CancelRead, CancelSession, CancelAttachment, CancelObject, GetRead, GetSession,
         GetAttachment, Goes
<1>2. /\ UNCHANGED <<late, job, cleanup, outcomes, lost, overtaken>>
      /\ attachment' \in {attachment, "DELETED"} /\ object' \in {object, FALSE}
      /\ upload' \in {upload, "CANCELLED", "EXPIRED"}
  BY DEF CancelRead, CancelSession, CancelAttachment, CancelObject, GetRead, GetSession,
         GetAttachment
<1>3. v \in CallSteps
  BY DEF CallSteps
<1>4. /\ at'[c] = v /\ \A a \in (Calls \cup Workers) \ {c} : at'[a] = at[a]
      /\ Busy' = Busy
  BY <1>1, <1>3, CallMoves
<1>5. CompletesOnce'
  BY <1>1, <1>2, <1>4 DEF CompletesOnce
<1>6. ProcessingHasJob'
  BY <1>1, <1>2, <1>4, MediaAssumption DEF ProcessingHasJob
<1>7. SessionHeld'
  <2>1. upload # "NONE" /\ upload' # "NONE"
    BY <1>1, <1>2 DEF SessionHeld, CancelRead, CancelSession, CancelAttachment, CancelObject,
                      GetRead, GetSession, GetAttachment, Goes
  <2>2. upload' = "OPEN" => upload = "OPEN" /\ v \in {"cancel", "get", "idle"}
    BY <1>1, <1>2, <1>4 DEF SessionHeld, CancelRead, CancelSession, CancelAttachment,
           CancelObject, GetRead, GetSession, GetAttachment, Goes, MediaTypeOK
  <2>3. \A d \in Calls : at'[d] = "completing" => upload' = "OPEN" /\ object'
    <3> SUFFICES ASSUME NEW d \in Calls, at'[d] = "completing"
                 PROVE  upload' = "OPEN" /\ object'
      OBVIOUS
    <3>1. d # c /\ at[d] = "completing" /\ upload = "OPEN" /\ object
      BY <1>1, <1>4 DEF SessionHeld
    <3>2. ~SessionFree
      BY <3>1 DEF SessionFree
    <3>3. QED
      BY <1>1, <3>1, <3>2 DEF SessionHeld, CancelRead, CancelSession, CancelAttachment,
             CancelObject, GetRead, GetSession, GetAttachment, Goes
  <2>4. attachment' \in {"PROCESSING", "READY"} /\ ~overtaken' =>
          /\ upload' = "COMPLETED" /\ object'
          /\ \A a \in Calls \cup Workers : at'[a] \notin Unlocked \cup {"delete"}
    <3> SUFFICES ASSUME attachment' \in {"PROCESSING", "READY"}, ~overtaken' PROVE FALSE
      OBVIOUS
    <3>1. /\ upload = "COMPLETED" /\ at[c] \notin Unlocked \cup {"delete"}
      BY <1>2 DEF SessionHeld
    <3>2. QED
      BY <3>1 DEF Unlocked, CancelRead, CancelSession, CancelAttachment, CancelObject, GetRead,
                  GetSession, GetAttachment, Goes
  <2>5. QED
    BY <1>4, <2>1, <2>2, <2>3, <2>4 DEF SessionHeld
<1>8. QED
  BY <1>1, <1>2, <1>3, <1>5, <1>6, <1>7, CallsKeep DEF MediaTypeOK

LEMMA CompleteKeeps ==
  ASSUME MediaInv, NEW c \in Calls, CompleteLock(c) \/ CompleteCommit(c)
  PROVE  MediaInv'
<1> USE DEF MediaInv, mediaRows, jobs, history
<1>1. CASE CompleteLock(c)
  <2>1. /\ at[c] = "idle" /\ at' = [at EXCEPT ![c] = "completing"] /\ SessionFree
        /\ attachment = "UPLOADING" /\ upload = "OPEN" /\ object
        /\ UNCHANGED <<attachment, upload, late, object, job, cleanup, outcomes, lost, overtaken>>
    BY <1>1 DEF CompleteLock, Goes
  <2>2. "completing" \in CallSteps
    BY DEF CallSteps
  <2>3. /\ at'[c] = "completing" /\ \A a \in (Calls \cup Workers) \ {c} : at'[a] = at[a]
        /\ Busy' = Busy
    BY <2>1, <2>2, CallMoves
  <2>4. CompletesOnce'
    BY <2>1, <2>3 DEF CompletesOnce, SessionFree
  <2>5. SessionHeld' /\ ProcessingHasJob'
    BY <2>1, <2>3 DEF SessionHeld, ProcessingHasJob
  <2>6. QED
    BY <2>1, <2>2, <2>4, <2>5, CallsKeep DEF MediaTypeOK
<1>2. CASE CompleteCommit(c)
  <2>1. /\ at[c] = "completing" /\ at' = [at EXCEPT ![c] = "enqueue"]
        /\ upload' = "COMPLETED" /\ attachment' = "PROCESSING"
        /\ UNCHANGED <<late, object, job, cleanup, outcomes, lost>>
    BY <1>2 DEF CompleteCommit, Goes
  <2>2. /\ overtaken' \in BOOLEAN
        /\ ~overtaken' => \A a \in Calls \cup Workers : at[a] \notin Unlocked
    <3>1. overtaken' = (overtaken \/ \E a \in Calls \cup Workers : at[a] \in Unlocked)
      BY <1>2 DEF CompleteCommit
    <3>2. QED
      BY <3>1, Zenon
  <2>3. "enqueue" \in CallSteps
    BY DEF CallSteps
  <2>4. /\ at'[c] = "enqueue" /\ \A a \in (Calls \cup Workers) \ {c} : at'[a] = at[a]
        /\ Busy' = Busy
    BY <2>1, <2>3, CallMoves
  <2>5. upload = "OPEN" /\ object /\ job.state = "none" /\ outcomes = <<>>
    BY <2>1 DEF SessionHeld, CompletesOnce
  <2>6. CompletesOnce'
    BY <2>1, <2>4, <2>5 DEF CompletesOnce
  <2>7. SessionHeld'
    <3>1. \A d \in Calls : at'[d] # "completing"
      BY <2>1, <2>4 DEF CompletesOnce
    <3>2. ~overtaken' => \A a \in Calls \cup Workers : at'[a] \notin Unlocked \cup {"delete"}
      BY <2>2, <2>4, <2>5 DEF SessionHeld, Unlocked
    <3>3. QED
      BY <2>1, <2>5, <3>1, <3>2 DEF SessionHeld
  <2>8. ProcessingHasJob'
    BY <2>4 DEF ProcessingHasJob
  <2>9. QED
    BY <2>1, <2>2, <2>3, <2>6, <2>7, <2>8, CallsKeep DEF MediaTypeOK
<1>3. QED
  BY <1>1, <1>2

LEMMA CallFailsKeeps ==
  ASSUME MediaInv, NEW c \in Calls, CallFails(c)
  PROVE  MediaInv'
<1> USE DEF MediaInv, mediaRows, jobs, history
<1>1. /\ at' = [at EXCEPT ![c] = "idle"]
      /\ lost' = IF at[c] = "enqueue" THEN lost \cup {"enqueue"} ELSE lost
      /\ UNCHANGED <<attachment, upload, late, object, job, cleanup, outcomes, overtaken>>
  BY DEF CallFails
<1>2. "idle" \in CallSteps
  BY DEF CallSteps
<1>3. /\ at'[c] = "idle" /\ \A a \in (Calls \cup Workers) \ {c} : at'[a] = at[a]
      /\ Busy' = Busy
  BY <1>1, <1>2, CallMoves
<1>4. CompletesOnce'
  BY <1>1, <1>3 DEF CompletesOnce
<1>5. SessionHeld'
  BY <1>1, <1>3 DEF SessionHeld, Unlocked
<1>6. lost' \subseteq Losses /\ lost \subseteq lost' /\ (at[c] = "enqueue" => lost' # {})
  BY <1>1 DEF MediaTypeOK, Losses
<1>7. ProcessingHasJob'
  BY <1>1, <1>3, <1>6, MediaAssumption DEF ProcessingHasJob
<1>8. QED
  BY <1>1, <1>2, <1>4, <1>5, <1>6, <1>7, CallsKeep DEF MediaTypeOK

LEMMA EnqueueKeeps ==
  ASSUME MediaInv, NEW c \in Calls, Enqueue(c)
  PROVE  MediaInv'
<1> USE DEF MediaInv, mediaRows, jobs, history
<1>1. /\ at[c] = "enqueue" /\ at' = [at EXCEPT ![c] = "idle"]
      /\ UNCHANGED <<attachment, upload, late, object, cleanup, outcomes, lost, overtaken>>
  BY DEF Enqueue, Goes
<1>2. job.state = "none" /\ Busy = {} /\ outcomes = <<>>
  BY <1>1 DEF CompletesOnce
<1>3. /\ job' = [job EXCEPT !.state = "waiting"]
      /\ job' \in [state : {"none", "waiting", "active", "done", "failed"}, failed : Nat, stalls : Nat]
      /\ job'.state = "waiting" /\ job'.stalls = job.stalls /\ job.stalls \in Nat
  BY <1>2 DEF Enqueue, MediaTypeOK
<1>4. "idle" \in CallSteps
  BY DEF CallSteps
<1>5. /\ at' \in [Calls \cup Workers -> CallSteps \cup WorkerSteps]
      /\ \A d \in Calls : at'[d] \in CallSteps
      /\ \A w \in Workers : at'[w] = at[w] /\ at'[w] \in WorkerSteps
      /\ at'[c] = "idle" /\ \A a \in (Calls \cup Workers) \ {c} : at'[a] = at[a]
      /\ Busy' = Busy /\ Marking' = Marking
  BY <1>1, <1>4, CallMoves
<1>6. MediaTypeOK'
  BY <1>1, <1>3, <1>5 DEF MediaTypeOK
<1>7. CompletesOnce'
  BY <1>1, <1>3, <1>5 DEF CompletesOnce
<1>8. SessionHeld'
  BY <1>1, <1>5 DEF SessionHeld, Unlocked
<1>9. ProcessingHasJob'
  BY <1>3 DEF ProcessingHasJob
<1>10. WorkersCounted' /\ OutcomesInOrder'
  <2>1. IsFiniteSet(Busy) /\ Cardinality(Busy) = 0 /\ MaxStalls \in Nat
    BY <1>2, FS_EmptySet, MediaAssumption
  <2>2. QED
    BY <1>1, <1>2, <1>3, <1>5, <2>1 DEF WorkersCounted, OutcomesInOrder, Outcomes
<1>11. QED
  BY <1>6, <1>7, <1>8, <1>9, <1>10

JobRow == [state : {"none", "waiting", "active", "done", "failed"}, failed : Nat, stalls : Nat]

\* A worker that goes on: one more or less at work.
LEMMA WorkerCounts ==
  ASSUME MediaInv, NEW w \in Workers, NEW v \in WorkerSteps, at' = [at EXCEPT ![w] = v]
  PROVE  /\ IsFiniteSet(Busy') /\ Cardinality(Busy) \in Nat /\ Cardinality(Busy') \in Nat
         /\ Cardinality(Busy') = Cardinality(Busy)
                                   - (IF at[w] \in {"scan", "fail", "mark"} THEN 1 ELSE 0)
                                   + (IF v \in {"scan", "fail", "mark"} THEN 1 ELSE 0)
         /\ Cardinality(Marking) \in Nat /\ Cardinality(Marking') \in Nat
         /\ Cardinality(Marking') <= Cardinality(Busy')
         /\ v # "mark" => Cardinality(Marking')
                            = Cardinality(Marking) - (IF at[w] = "mark" THEN 1 ELSE 0)
<1>1. IsFiniteSet(Busy) /\ Marking \in SUBSET Busy /\ Marking' \in SUBSET Busy'
  BY DEF MediaInv, WorkersCounted, Marking, Busy
<1>2. IsFiniteSet(Marking)
  BY <1>1, FS_Subset
<1>3. Cardinality(Busy) \in Nat /\ Cardinality(Marking) \in Nat
  BY <1>1, <1>2, FS_CardinalityType
<1>4. /\ Busy' = (Busy \ {w}) \cup (IF v \in {"scan", "fail", "mark"} THEN {w} ELSE {})
      /\ Marking' = (Marking \ {w}) \cup (IF v = "mark" THEN {w} ELSE {})
  BY WorkerMoves DEF MediaInv
<1>5. /\ w \in Busy <=> at[w] \in {"scan", "fail", "mark"}
      /\ w \in Marking <=> at[w] = "mark"
  BY DEF Busy, Marking
<1>6. /\ IsFiniteSet(Busy \ {w})
      /\ Cardinality(Busy \ {w}) = Cardinality(Busy)
                                     - (IF at[w] \in {"scan", "fail", "mark"} THEN 1 ELSE 0)
  BY <1>1, <1>3, <1>5, FS_RemoveElement
<1>7. /\ IsFiniteSet(Busy')
      /\ Cardinality(Busy') = Cardinality(Busy)
                                - (IF at[w] \in {"scan", "fail", "mark"} THEN 1 ELSE 0)
                                + (IF v \in {"scan", "fail", "mark"} THEN 1 ELSE 0)
  <2>1. CASE v \in {"scan", "fail", "mark"}
    <3>1. Busy' = (Busy \ {w}) \cup {w}
      BY <1>4, <2>1
    <3>2. IsFiniteSet(Busy') /\ Cardinality(Busy') = Cardinality(Busy \ {w}) + 1
      BY <1>6, <3>1, FS_AddElement
    <3>3. QED
      BY <1>6, <2>1, <3>2
  <2>2. CASE v \notin {"scan", "fail", "mark"}
    <3>1. Busy' = Busy \ {w}
      BY <1>4, <2>2
    <3>2. QED
      BY <1>3, <1>6, <2>2, <3>1
  <2>3. QED
    BY <2>1, <2>2
<1>8. /\ Cardinality(Busy') \in Nat /\ Cardinality(Marking') \in Nat
      /\ Cardinality(Marking') <= Cardinality(Busy')
  BY <1>1, <1>7, FS_Subset, FS_CardinalityType
<1>9. v # "mark" => Cardinality(Marking')
                      = Cardinality(Marking) - (IF at[w] = "mark" THEN 1 ELSE 0)
  <2>1. SUFFICES ASSUME v # "mark"
                 PROVE  Cardinality(Marking')
                          = Cardinality(Marking) - (IF at[w] = "mark" THEN 1 ELSE 0)
    OBVIOUS
  <2>2. Marking' = Marking \ {w}
    BY <1>4, <2>1
  <2>3. Cardinality(Marking \ {w})
          = IF w \in Marking THEN Cardinality(Marking) - 1 ELSE Cardinality(Marking)
    BY <1>2, FS_RemoveElement
  <2>4. QED
    BY <1>3, <1>5, <2>2, <2>3
<1>10. QED
  BY <1>3, <1>7, <1>8, <1>9

\* A worker that tells nothing.
LEMMA SilentCounts ==
  ASSUME MediaInv, NEW w \in Workers, NEW v \in WorkerSteps, at' = [at EXCEPT ![w] = v],
         outcomes' = outcomes, v = "mark" => outcomes = <<>>,
         job' \in JobRow, job'.stalls >= job.stalls,
         Cardinality(Busy') <= job'.stalls + (IF job'.state = "active" THEN 1 ELSE 0),
         Cardinality(Busy') <= MaxStalls + (IF job'.state = "waiting" THEN 0 ELSE 1)
  PROVE  WorkersCounted'
<1>1. /\ IsFiniteSet(Busy') /\ Cardinality(Marking) \in Nat /\ Cardinality(Marking') \in Nat
      /\ v # "mark" => Cardinality(Marking')
                         = Cardinality(Marking) - (IF at[w] = "mark" THEN 1 ELSE 0)
  BY WorkerCounts
<1>2. job.stalls \in Nat /\ job'.stalls \in Nat /\ Len(outcomes) \in Nat /\ MaxStalls \in Nat
  BY LenProperties, MediaAssumption DEF MediaInv, MediaTypeOK, JobRow
<1>3. outcomes' # <<>> => /\ Len(outcomes') + Cardinality(Marking') <= 1 + job'.stalls
                          /\ Len(outcomes') + Cardinality(Marking') <= 1 + MaxStalls
  <2> SUFFICES ASSUME outcomes # <<>>
               PROVE  /\ Len(outcomes) + Cardinality(Marking') <= 1 + job'.stalls
                      /\ Len(outcomes) + Cardinality(Marking') <= 1 + MaxStalls
    OBVIOUS
  <2>1. Cardinality(Marking') <= Cardinality(Marking)
    BY <1>1
  <2>2. /\ Len(outcomes) + Cardinality(Marking) <= 1 + job.stalls
        /\ Len(outcomes) + Cardinality(Marking) <= 1 + MaxStalls
    BY DEF MediaInv, WorkersCounted
  <2>3. QED
    BY <1>1, <1>2, <2>1, <2>2
<1>4. QED
  BY <1>1, <1>3 DEF WorkersCounted

\* A worker that tells an outcome is done: the first to do so, or one that marks.
LEMMA TellingCounts ==
  ASSUME MediaInv, NEW w \in Busy, at' = [at EXCEPT ![w] = "idle"],
         NEW outcome \in Outcomes, outcomes' = Append(outcomes, outcome),
         outcomes = <<>> \/ at[w] = "mark",
         job' \in JobRow, job'.stalls = job.stalls, job'.state \in {"done", "failed"}
  PROVE  WorkersCounted'
<1>1. w \in Workers /\ "idle" \in WorkerSteps /\ at[w] \in {"scan", "fail", "mark"}
  BY DEF Busy, WorkerSteps
<1>2. /\ IsFiniteSet(Busy') /\ Cardinality(Busy) \in Nat /\ Cardinality(Busy') \in Nat
      /\ Cardinality(Busy') = Cardinality(Busy) - 1
      /\ Cardinality(Marking) \in Nat /\ Cardinality(Marking') \in Nat
      /\ Cardinality(Marking') <= Cardinality(Busy')
      /\ Cardinality(Marking') = Cardinality(Marking) - (IF at[w] = "mark" THEN 1 ELSE 0)
  <2>1. /\ IsFiniteSet(Busy') /\ Cardinality(Busy) \in Nat /\ Cardinality(Busy') \in Nat
        /\ Cardinality(Busy') = Cardinality(Busy)
                                  - (IF at[w] \in {"scan", "fail", "mark"} THEN 1 ELSE 0)
                                  + (IF "idle" \in {"scan", "fail", "mark"} THEN 1 ELSE 0)
        /\ Cardinality(Marking) \in Nat /\ Cardinality(Marking') \in Nat
        /\ Cardinality(Marking') <= Cardinality(Busy')
        /\ "idle" # "mark" => Cardinality(Marking')
                               = Cardinality(Marking) - (IF at[w] = "mark" THEN 1 ELSE 0)
    BY <1>1, WorkerCounts, Zenon
  <2>2. QED
    BY <1>1, <2>1
<1>3. job.stalls \in Nat /\ MaxStalls \in Nat
  BY MediaAssumption DEF MediaInv, MediaTypeOK
<1>4. Cardinality(Busy) <= job.stalls + 1 /\ Cardinality(Busy) <= MaxStalls + 1
  <2>1. /\ Cardinality(Busy) <= job.stalls + (IF job.state = "active" THEN 1 ELSE 0)
        /\ Cardinality(Busy) <= MaxStalls + (IF job.state = "waiting" THEN 0 ELSE 1)
    BY DEF MediaInv, WorkersCounted
  <2>2. QED
    BY <1>2, <1>3, <2>1
<1>5. Len(outcomes') = Len(outcomes) + 1 /\ Len(outcomes) \in Nat
  BY AppendProperties, LenProperties DEF MediaInv, MediaTypeOK
<1>6. /\ Len(outcomes') + Cardinality(Marking') <= 1 + job.stalls
      /\ Len(outcomes') + Cardinality(Marking') <= 1 + MaxStalls
  <2>1. CASE outcomes = <<>>
    <3>1. Len(outcomes) = 0
      BY <2>1
    <3>2. QED
      BY <1>2, <1>3, <1>4, <1>5, <3>1
  <2>2. CASE outcomes # <<>> /\ at[w] = "mark"
    <3>1. /\ Len(outcomes) + Cardinality(Marking) <= 1 + job.stalls
          /\ Len(outcomes) + Cardinality(Marking) <= 1 + MaxStalls
      BY <2>2 DEF MediaInv, WorkersCounted
    <3>2. Cardinality(Marking') = Cardinality(Marking) - 1
      BY <1>2, <2>2
    <3>3. QED
      BY <1>2, <1>3, <1>5, <3>1, <3>2
  <2>3. QED
    BY <2>1, <2>2
<1>7. /\ Cardinality(Busy') <= job'.stalls + (IF job'.state = "active" THEN 1 ELSE 0)
      /\ Cardinality(Busy') <= MaxStalls + (IF job'.state = "waiting" THEN 0 ELSE 1)
  BY <1>2, <1>3, <1>4
<1>8. QED
  BY <1>2, <1>6, <1>7 DEF WorkersCounted

\* A step of the job: the upload was completed long ago, so only the outcome can break
\* something.
LEMMA JobKeeps ==
  ASSUME MediaInv, NEW w \in Workers, NEW v \in {"idle", "scan", "fail", "mark"},
         at' = [at EXCEPT ![w] = v], job.state # "none", job' \in JobRow, job'.state # "none",
         UNCHANGED <<upload, late, object, cleanup, overtaken>>, lost' \subseteq Losses,
         \/ attachment' = attachment /\ outcomes' = outcomes
         \/ \E outcome \in Outcomes :
              /\ attachment' = outcome /\ outcomes' = Append(outcomes, outcome)
              /\ attachment = "PROCESSING" \/ outcome = "FAILED"
              /\ outcome = "READY" => attachment = "PROCESSING",
         attachment' = "PROCESSING" =>
           job'.state \in {"waiting", "active"} \/ v # "idle" \/ lost' # {},
         WorkersCounted'
  PROVE  MediaInv'
<1> USE DEF MediaInv
<1>1. v \in WorkerSteps
  BY DEF WorkerSteps
<1>2. /\ at' \in [Calls \cup Workers -> CallSteps \cup WorkerSteps]
      /\ \A c \in Calls : at'[c] = at[c] /\ at'[c] \in CallSteps
      /\ \A u \in Workers : at'[u] \in WorkerSteps
      /\ at'[w] = v /\ \A a \in (Calls \cup Workers) \ {w} : at'[a] = at[a]
  BY <1>1, WorkerMoves
<1>3. /\ \A c \in Calls : at[c] \notin {"completing", "enqueue"}
      /\ attachment \notin {"NONE", "UPLOADING"} /\ upload # "NONE"
      /\ attachment = "PROCESSING" => outcomes = <<>>
  BY DEF CompletesOnce, SessionHeld
<1>4. CASE attachment' = attachment /\ outcomes' = outcomes
  <2>1. MediaTypeOK'
    BY <1>2, <1>4 DEF MediaTypeOK, JobRow
  <2>2. CompletesOnce'
    BY <1>2, <1>3, <1>4 DEF CompletesOnce
  <2>3. SessionHeld'
    BY <1>2, <1>3, <1>4 DEF SessionHeld, Unlocked
  <2>4. ProcessingHasJob'
    BY <1>2 DEF ProcessingHasJob
  <2>5. OutcomesInOrder'
    BY <1>4 DEF OutcomesInOrder, Outcomes
  <2>6. QED
    BY <2>1, <2>2, <2>3, <2>4, <2>5
<1>5. ASSUME NEW outcome \in Outcomes, attachment' = outcome,
             outcomes' = Append(outcomes, outcome),
             attachment = "PROCESSING" \/ outcome = "FAILED",
             outcome = "READY" => attachment = "PROCESSING"
      PROVE  MediaInv'
  <2>1. /\ outcomes' \in Seq(Outcomes) /\ Len(outcomes') = Len(outcomes) + 1
        /\ Len(outcomes) \in Nat /\ outcomes'[Len(outcomes) + 1] = outcome
        /\ \A i \in 1..Len(outcomes) : outcomes'[i] = outcomes[i]
    BY <1>5, AppendProperties, LenProperties DEF MediaTypeOK
  <2>2. MediaTypeOK'
    BY <1>2, <1>5, <2>1 DEF MediaTypeOK, JobRow
  <2>3. CompletesOnce'
    BY <1>2, <1>3, <1>5 DEF CompletesOnce, Outcomes
  <2>4. SessionHeld'
    BY <1>2, <1>3, <1>5 DEF SessionHeld, Unlocked, Outcomes
  <2>5. ProcessingHasJob'
    BY <1>5 DEF ProcessingHasJob, Outcomes
  <2>6. OutcomesInOrder'
    <3>1. outcomes' # <<>> /\ outcomes'[Len(outcomes')] = attachment'
      BY <1>5, <2>1
    <3>2. \A i \in 2..Len(outcomes') : outcomes'[i] = "FAILED"
      <4> SUFFICES ASSUME NEW i \in 2..Len(outcomes') PROVE outcomes'[i] = "FAILED"
        OBVIOUS
      <4>1. CASE i = Len(outcomes) + 1
        <5>1. outcomes # <<>>
          BY <2>1, <4>1, EmptySeq
        <5>2. QED
          BY <1>3, <1>5, <2>1, <4>1, <5>1
      <4>2. CASE i # Len(outcomes) + 1
        BY <2>1, <4>2 DEF OutcomesInOrder
      <4>3. QED
        BY <4>1, <4>2
    <3>3. QED
      BY <3>1, <3>2 DEF OutcomesInOrder
  <2>7. QED
    BY <2>2, <2>3, <2>4, <2>5, <2>6
<1>6. QED
  BY <1>4, <1>5
\* How many are at work: what WorkersCounted says, with the cases of the job's state.
LEMMA BusyBound ==
  ASSUME MediaInv
  PROVE  /\ job \in JobRow /\ MaxStalls \in Nat /\ Cardinality(Busy) \in Nat
         /\ job.stalls \in Nat /\ job.failed \in Nat
         /\ Cardinality(Busy) <= job.stalls + 1 /\ Cardinality(Busy) <= MaxStalls + 1
         /\ job.state # "active" => Cardinality(Busy) <= job.stalls
         /\ job.state = "waiting" => Cardinality(Busy) <= MaxStalls
<1>1. /\ IsFiniteSet(Busy)
      /\ Cardinality(Busy) <= job.stalls + (IF job.state = "active" THEN 1 ELSE 0)
      /\ Cardinality(Busy) <= MaxStalls + (IF job.state = "waiting" THEN 0 ELSE 1)
  BY DEF MediaInv, WorkersCounted
<1>2. Cardinality(Busy) \in Nat /\ MaxStalls \in Nat
  BY <1>1, FS_CardinalityType, MediaAssumption
<1>3. job \in JobRow /\ job.stalls \in Nat /\ job.failed \in Nat
  BY DEF MediaInv, MediaTypeOK, JobRow
<1>4. QED
  BY <1>1, <1>2, <1>3

\* A step that tells nothing: a worker goes on, takes the job, finds it settled or gives
\* it up.
LEMMA SilentKeeps ==
  ASSUME MediaInv, NEW w \in Workers, outcomes' = outcomes,
         \/ TakeJob(w) \/ ReadFails(w) \/ ProcessFails(w) \/ MarkRead(w) \/ MarkingFails(w)
         \/ (Reject(w) \/ Accept(w)) /\ attachment # "PROCESSING"
  PROVE  MediaInv'
<1> USE DEF mediaRows, history
<1>1. PICK v \in {"idle", "scan", "fail", "mark"} :
        /\ at' = [at EXCEPT ![w] = v]
        /\ v = "mark" => attachment = "PROCESSING"
        /\ \/ /\ at[w] \in {"scan", "fail"} /\ v \in {"fail", "mark"}
              /\ job' = job
           \/ /\ at[w] = "idle" /\ v = "scan"
              /\ job.state = "waiting" /\ job' = [job EXCEPT !.state = "active"]
           \/ /\ at[w] = "idle" /\ v = "idle" /\ job.state = "waiting"
              /\ \/ job' = [job EXCEPT !.failed = @ + 1]
                 \/ job' = [job EXCEPT !.state = "done"] /\ attachment # "PROCESSING"
                 \/ job' = [job EXCEPT !.state = "failed"] /\ lost' # {}
           \/ /\ at[w] \in {"scan", "fail", "mark"} /\ v = "idle"
              /\ \/ job' = [job EXCEPT !.state = "waiting", !.failed = @ + 1]
                 \/ /\ attachment # "PROCESSING" \/ lost' # {}
                    /\ \/ job' = [job EXCEPT !.state = "done"]
                       \/ job' = [job EXCEPT !.state = "failed"]
  <2>1. CASE TakeJob(w)
    BY <2>1 DEF TakeJob, Goes
  <2>2. CASE ProcessFails(w)
    BY <2>2 DEF ProcessFails, Goes
  <2>3. CASE MarkRead(w)
    BY <2>3 DEF MarkRead, Goes
  <2>4. CASE (Reject(w) \/ Accept(w)) /\ attachment # "PROCESSING"
    BY <2>4 DEF Reject, Accept, Goes, Done
  <2>5. CASE ReadFails(w)
    BY <2>5 DEF ReadFails, Goes
  <2>6. CASE MarkingFails(w)
    BY <2>6 DEF MarkingFails, Goes
  <2>7. QED
    BY <2>1, <2>2, <2>3, <2>4, <2>5, <2>6
<1>2. /\ UNCHANGED <<attachment, upload, late, object, cleanup, overtaken>>
      /\ v \in WorkerSteps
  BY DEF TakeJob, ReadFails, ProcessFails, MarkRead, MarkingFails, Reject, Accept, Settle,
         WorkerSteps
<1>3. /\ job.state # "none" /\ (v = "mark" => outcomes = <<>>)
      /\ lost' \subseteq Losses
  <2>1. job.state # "none" /\ (v = "mark" => outcomes = <<>>)
    BY <1>1, <1>2 DEF MediaInv, CompletesOnce, Busy
  <2>2. lost \subseteq Losses
    BY DEF MediaInv, MediaTypeOK
  <2>3. lost' \subseteq lost \cup {"read", "mark"}
    BY DEF TakeJob, ReadFails, ProcessFails, MarkRead, MarkingFails, Reject, Accept
  <2>4. QED
    BY <2>1, <2>2, <2>3 DEF Losses
<1>4. /\ job' \in JobRow /\ job'.state # "none" /\ job'.stalls = job.stalls
      /\ attachment' = "PROCESSING" =>
           job'.state \in {"waiting", "active"} \/ v # "idle" \/ lost' # {}
      /\ job'.stalls >= job.stalls
  <2>1. job \in JobRow /\ job.stalls \in Nat /\ job.failed + 1 \in Nat
    BY BusyBound
  <2>2. \/ job' = job
        \/ \E state \in {"waiting", "active", "done", "failed"} :
             job' = [job EXCEPT !.state = state]
        \/ job' = [job EXCEPT !.state = "waiting", !.failed = @ + 1]
        \/ job' = [job EXCEPT !.failed = @ + 1]
    BY <1>1
  <2>3. job' \in JobRow /\ job'.state # "none" /\ job'.stalls = job.stalls
    BY <1>3, <2>1, <2>2 DEF JobRow
  <2>4. attachment' = "PROCESSING" =>
          job'.state \in {"waiting", "active"} \/ v # "idle" \/ lost' # {}
    BY <1>1, <1>2, <2>1 DEF JobRow
  <2>5. QED
    BY <2>1, <2>3, <2>4
<1>5. /\ Cardinality(Busy') \in Nat
      /\ Cardinality(Busy') = Cardinality(Busy)
                                - (IF at[w] \in {"scan", "fail", "mark"} THEN 1 ELSE 0)
                                + (IF v \in {"scan", "fail", "mark"} THEN 1 ELSE 0)
  BY <1>1, <1>2, WorkerCounts
<1>6. /\ Cardinality(Busy') <= job'.stalls + (IF job'.state = "active" THEN 1 ELSE 0)
      /\ Cardinality(Busy') <= MaxStalls + (IF job'.state = "waiting" THEN 0 ELSE 1)
  <2>1. CASE at[w] \in {"scan", "fail"} /\ v \in {"fail", "mark"} /\ job' = job
    <3>1. Cardinality(Busy') = Cardinality(Busy)
      BY <1>5, <2>1, BusyBound
    <3>2. QED
      BY <2>1, <3>1 DEF MediaInv, WorkersCounted
  <2>2. CASE /\ at[w] = "idle" /\ v = "scan" /\ job.state = "waiting"
             /\ job' = [job EXCEPT !.state = "active"]
    <3>1. Cardinality(Busy') = Cardinality(Busy) + 1
      BY <1>5, <2>2, BusyBound
    <3>2. QED
      BY <1>4, <2>2, <3>1, BusyBound DEF JobRow
  <2>3. CASE at[w] = "idle" /\ v = "idle" /\ job.state = "waiting"
    <3>1. Cardinality(Busy') = Cardinality(Busy)
      BY <1>5, <2>3, BusyBound
    <3>2. QED
      BY <1>4, <2>3, <3>1, BusyBound DEF JobRow
  <2>4. CASE at[w] \in {"scan", "fail", "mark"} /\ v = "idle"
    <3>1. Cardinality(Busy') = Cardinality(Busy) - 1
      BY <1>5, <2>4, BusyBound
    <3>2. QED
      BY <1>4, <3>1, BusyBound DEF JobRow
  <2>5. QED
    BY <1>1, <2>1, <2>2, <2>3, <2>4
<1>7. WorkersCounted'
  BY <1>1, <1>2, <1>3, <1>4, <1>6, SilentCounts, Zenon
<1>8. QED
  BY <1>1, <1>2, <1>3, <1>4, <1>7, JobKeeps

\* A step that tells an outcome.
LEMMA TellingKeeps ==
  ASSUME MediaInv, NEW w \in Workers,
         ((Reject(w) \/ Accept(w)) /\ attachment = "PROCESSING") \/ MarkFailed(w)
  PROVE  MediaInv'
<1>1. PICK v \in {"idle"} :
        /\ at[w] \in {"scan", "mark"} /\ at' = [at EXCEPT ![w] = v]
        /\ UNCHANGED <<upload, late, object, cleanup, lost, overtaken>>
  BY DEF Reject, Accept, MarkFailed, Goes
<1>2. job.state # "none" /\ w \in Busy
  BY <1>1 DEF MediaInv, CompletesOnce, Busy
<1>3. job' \in JobRow /\ job'.state \in {"done", "failed"} /\ job'.stalls = job.stalls
  <2>1. job' = [job EXCEPT !.state = "done"] \/ job' = [job EXCEPT !.state = "failed"]
    BY DEF Reject, Accept, MarkFailed, Done
  <2>2. QED
    BY <2>1, BusyBound DEF JobRow
<1>4. PICK outcome \in Outcomes :
        /\ attachment' = outcome /\ outcomes' = Append(outcomes, outcome)
        /\ attachment = "PROCESSING" \/ (outcome = "FAILED" /\ at[w] = "mark")
        /\ outcome = "READY" => attachment = "PROCESSING"
  BY DEF Reject, Accept, MarkFailed, Settle, TellOutcome, Goes, Outcomes
<1>5. outcomes = <<>> \/ at[w] = "mark"
  BY <1>4 DEF MediaInv, CompletesOnce
<1>6. WorkersCounted'
  BY <1>1, <1>2, <1>3, <1>4, <1>5, TellingCounts
<1>7. attachment' # "PROCESSING" /\ lost' \subseteq Losses
  BY <1>1, <1>4 DEF Outcomes, MediaInv, MediaTypeOK
<1>8. QED
  BY <1>1, <1>2, <1>3, <1>4, <1>6, <1>7, JobKeeps

LEMMA WorkKeeps ==
  ASSUME MediaInv, NEW w \in Workers,
         \/ TakeJob(w) \/ ReadFails(w) \/ Reject(w) \/ Accept(w) \/ ProcessFails(w)
         \/ MarkRead(w) \/ MarkFailed(w) \/ MarkingFails(w)
  PROVE  MediaInv'
<1>1. TakeJob(w) \/ ReadFails(w) \/ ProcessFails(w) \/ MarkRead(w) \/ MarkingFails(w)
        => outcomes' = outcomes
  BY DEF TakeJob, ReadFails, ProcessFails, MarkRead, MarkingFails, history
<1>2. (Reject(w) \/ Accept(w)) /\ attachment # "PROCESSING" => outcomes' = outcomes
  BY DEF Reject, Accept, Settle
<1>3. QED
  BY <1>1, <1>2, SilentKeeps, TellingKeeps
\* A stalled job goes to one worker more, or is lost.
LEMMA StallKeeps == MediaInv /\ Stall => MediaInv'
<1> SUFFICES ASSUME MediaInv, Stall PROVE MediaInv'
  OBVIOUS
<1> USE DEF mediaRows
<1>1. /\ job.state = "active"
      /\ at' = at \/ \E w \in Busy : at' = [at EXCEPT ![w] = "idle"]
      /\ UNCHANGED <<attachment, upload, late, object, cleanup, outcomes, overtaken>>
  BY DEF Stall
<1>2. /\ job' \in JobRow /\ job'.stalls = job.stalls + 1
      /\ job'.state = IF job.stalls < MaxStalls THEN "waiting" ELSE "failed"
  <2>1. job' = [job EXCEPT !.stalls = @ + 1,
                           !.state = IF job.stalls < MaxStalls THEN "waiting" ELSE "failed"]
    BY DEF Stall
  <2>2. job \in JobRow /\ job.stalls + 1 \in Nat
    BY BusyBound
  <2>3. PICK state \in {"waiting", "failed"} :
          state = IF job.stalls < MaxStalls THEN "waiting" ELSE "failed"
    OBVIOUS
  <2>4. job' = [job EXCEPT !.stalls = @ + 1, !.state = state]
    BY <2>1, <2>3
  <2>5. job' \in JobRow /\ job'.stalls = job.stalls + 1 /\ job'.state = state
    BY <2>2, <2>4 DEF JobRow
  <2>6. QED
    BY <2>3, <2>5
<1>3. /\ lost' \subseteq Losses /\ lost \subseteq lost'
      /\ job.stalls < MaxStalls \/ lost' # {}
  BY DEF Stall, MediaInv, MediaTypeOK, Losses
<1>4. ASSUME Cardinality(Busy') \in Nat, Cardinality(Busy') <= Cardinality(Busy)
      PROVE  /\ Cardinality(Busy') <= job'.stalls + (IF job'.state = "active" THEN 1 ELSE 0)
             /\ Cardinality(Busy') <= MaxStalls + (IF job'.state = "waiting" THEN 0 ELSE 1)
  <2>1. Cardinality(Busy') <= job.stalls + 1 /\ Cardinality(Busy') <= MaxStalls + 1
    BY <1>4, BusyBound
  <2>2. job.stalls < MaxStalls => Cardinality(Busy') <= MaxStalls
    BY <2>1, <1>4, BusyBound
  <2>3. QED
    BY <1>2, <1>4, <2>1, <2>2, BusyBound
<1>5. CASE at' = at
  <2>1. Busy' = Busy /\ Marking' = Marking
    BY <1>5 DEF Busy, Marking
  <2>2. MediaTypeOK'
    BY <1>1, <1>2, <1>3, <1>5 DEF MediaInv, MediaTypeOK, JobRow
  <2>3. CompletesOnce' /\ SessionHeld' /\ OutcomesInOrder'
    BY <1>1, <1>2, <1>5, <2>1 DEF MediaInv, CompletesOnce, SessionHeld, OutcomesInOrder,
                                  Unlocked, Outcomes
  <2>4. ProcessingHasJob'
    BY <1>2, <1>3 DEF ProcessingHasJob
  <2>5. WorkersCounted'
    <3>1. /\ IsFiniteSet(Busy) /\ Len(outcomes) \in Nat
          /\ outcomes # <<>> => /\ Len(outcomes) + Cardinality(Marking) <= 1 + job.stalls
                                /\ Len(outcomes) + Cardinality(Marking) <= 1 + MaxStalls
      BY LenProperties DEF MediaInv, WorkersCounted, MediaTypeOK
    <3>2. Marking \subseteq Busy
      BY DEF Marking, Busy
    <3>3. Cardinality(Marking) \in Nat
      BY <3>1, <3>2, FS_Subset, FS_CardinalityType
    <3>4. /\ Cardinality(Busy') <= job'.stalls + (IF job'.state = "active" THEN 1 ELSE 0)
          /\ Cardinality(Busy') <= MaxStalls + (IF job'.state = "waiting" THEN 0 ELSE 1)
      BY <1>4, <2>1, BusyBound
    <3>5. outcomes' # <<>> => /\ Len(outcomes') + Cardinality(Marking') <= 1 + job'.stalls
                              /\ Len(outcomes') + Cardinality(Marking') <= 1 + MaxStalls
      BY <1>1, <1>2, <2>1, <3>1, <3>3, BusyBound
    <3>6. QED
      BY <2>1, <3>1, <3>4, <3>5 DEF WorkersCounted
  <2>6. QED
    BY <2>2, <2>3, <2>4, <2>5 DEF MediaInv
<1>6. CASE \E w \in Busy : at' = [at EXCEPT ![w] = "idle"]
  <2>1. PICK w \in Workers, v \in {"idle"} :
          w \in Busy /\ at[w] \in {"scan", "fail", "mark"} /\ at' = [at EXCEPT ![w] = v]
    BY <1>6 DEF Busy
  <2>2. v \in WorkerSteps
    BY DEF WorkerSteps
  <2>3. /\ Cardinality(Busy') \in Nat
        /\ Cardinality(Busy') = Cardinality(Busy)
                                  - (IF at[w] \in {"scan", "fail", "mark"} THEN 1 ELSE 0)
                                  + (IF v \in {"scan", "fail", "mark"} THEN 1 ELSE 0)
    BY <2>1, <2>2, WorkerCounts
  <2>4. Cardinality(Busy') <= Cardinality(Busy)
    BY <2>1, <2>3, BusyBound
  <2>5. /\ Cardinality(Busy') <= job'.stalls + (IF job'.state = "active" THEN 1 ELSE 0)
        /\ Cardinality(Busy') <= MaxStalls + (IF job'.state = "waiting" THEN 0 ELSE 1)
    BY <1>4, <2>3, <2>4
  <2>6. job'.stalls >= job.stalls /\ outcomes' = outcomes /\ (v = "mark" => outcomes = <<>>)
    BY <1>1, <1>2, BusyBound
  <2>7. WorkersCounted'
    BY <1>2, <2>1, <2>2, <2>5, <2>6, SilentCounts, Zenon
  <2>8. QED
    BY <1>1, <1>2, <1>3, <2>1, <2>7, JobKeeps
<1>7. QED
  BY <1>1, <1>5, <1>6

LEMMA CleanupKeeps ==
  ASSUME MediaInv, NEW w \in Workers,
         \/ TakeCleanup(w) \/ ExpireSession(w) \/ ExpireAttachment(w) \/ DeleteObject(w)
         \/ CleanupFails(w)
  PROVE  MediaInv'
<1> USE DEF MediaInv, mediaRows, jobs, history
<1>1. PICK v \in {"idle", "expire", "expired", "clean"} :
        at[w] \in {"idle", "expire", "expired", "clean"} /\ at' = [at EXCEPT ![w] = v]
  BY DEF TakeCleanup, ExpireSession, ExpireAttachment, DeleteObject, CleanupFails, Goes
<1>2. /\ UNCHANGED <<late, job, outcomes, lost, overtaken>>
      /\ attachment' \in {attachment, "DELETED"} /\ upload' \in {upload, "EXPIRED"}
      /\ object' \in {object, FALSE} /\ cleanup' \in {cleanup, "waiting", "active", "done"}
  BY DEF TakeCleanup, ExpireSession, ExpireAttachment, DeleteObject, CleanupFails
<1>3. v \in WorkerSteps
  BY DEF WorkerSteps
<1>4. /\ at' \in [Calls \cup Workers -> CallSteps \cup WorkerSteps]
      /\ \A c \in Calls : at'[c] = at[c] /\ at'[c] \in CallSteps
      /\ \A u \in Workers : at'[u] \in WorkerSteps
      /\ at'[w] = v /\ \A a \in (Calls \cup Workers) \ {w} : at'[a] = at[a]
  BY <1>1, <1>3, WorkerMoves
<1>5. Busy' = Busy /\ Marking' = Marking
  BY <1>1, <1>4 DEF Busy, Marking
<1>6. MediaTypeOK'
  <2>1. late' \in BOOLEAN /\ overtaken' \in BOOLEAN /\ object' \in BOOLEAN
    <3>1. object' = object \/ object' = FALSE
      BY <1>2
    <3>2. late' = late /\ overtaken' = overtaken
      BY <1>2
    <3>3. QED
      BY <3>1, <3>2, Zenon DEF MediaTypeOK
  <2>2. /\ attachment' \in Outcomes \cup {"NONE", "UPLOADING", "PROCESSING", "DELETED"}
        /\ upload' \in {"NONE", "OPEN", "COMPLETED", "EXPIRED", "CANCELLED"}
        /\ cleanup' \in {"none", "waiting", "active", "done"}
        /\ job' = job /\ outcomes' = outcomes /\ lost' = lost
    BY <1>2 DEF MediaTypeOK
  <2>3. QED
    BY <1>4, <2>1, <2>2 DEF MediaTypeOK
<1>7. CompletesOnce'
  BY <1>2, <1>4, <1>5 DEF CompletesOnce
<1>8. ProcessingHasJob'
  <2>1. Busy # {} => \E u \in Workers : at'[u] \in {"scan", "fail", "mark"}
    BY <1>5 DEF Busy
  <2>2. QED
    BY <1>2, <1>4, <2>1 DEF ProcessingHasJob, Busy
<1>9. WorkersCounted' /\ OutcomesInOrder'
  BY <1>2, <1>5 DEF WorkersCounted, OutcomesInOrder, Outcomes
<1>10. SessionHeld'
  <2>1. upload # "NONE" /\ upload' # "NONE"
    BY <1>1, <1>2 DEF SessionHeld, TakeCleanup, ExpireSession, ExpireAttachment, DeleteObject,
                      CleanupFails, Goes
  <2>2. upload' = "OPEN" => upload = "OPEN" /\ v \in {"idle", "expire"}
    BY <1>1, <1>2, <1>4 DEF SessionHeld, TakeCleanup, ExpireSession, ExpireAttachment,
           DeleteObject, CleanupFails, Goes, MediaTypeOK
  <2>3. \A c \in Calls : at'[c] = "completing" => upload' = "OPEN" /\ object'
    <3> SUFFICES ASSUME NEW c \in Calls, at'[c] = "completing"
                 PROVE  upload' = "OPEN" /\ object'
      OBVIOUS
    <3>1. at[c] = "completing" /\ upload = "OPEN" /\ object
      BY <1>4 DEF SessionHeld
    <3>2. ~SessionFree
      BY <3>1 DEF SessionFree
    <3>3. QED
      BY <1>1, <3>1, <3>2 DEF SessionHeld, TakeCleanup, ExpireSession, ExpireAttachment,
             DeleteObject, CleanupFails, Goes
  <2>4. attachment' \in {"PROCESSING", "READY"} /\ ~overtaken' =>
          /\ upload' = "COMPLETED" /\ object'
          /\ \A a \in Calls \cup Workers : at'[a] \notin Unlocked \cup {"delete"}
    <3> SUFFICES ASSUME attachment' \in {"PROCESSING", "READY"}, ~overtaken'
                 PROVE  /\ upload' = "COMPLETED" /\ object'
                        /\ \A a \in Calls \cup Workers : at'[a] \notin Unlocked \cup {"delete"}
      OBVIOUS
    <3>1. /\ upload = "COMPLETED" /\ object /\ at[w] \notin Unlocked \cup {"delete"}
          /\ \A a \in Calls \cup Workers : at[a] \notin Unlocked \cup {"delete"}
      BY <1>2 DEF SessionHeld
    <3>2. upload' = "COMPLETED" /\ object' = object /\ at' = [at EXCEPT ![w] = "idle"]
      BY <3>1 DEF Unlocked, CleansUp, TakeCleanup, ExpireSession, ExpireAttachment, DeleteObject,
                  CleanupFails, Goes
    <3>3. QED
      BY <1>4, <3>1, <3>2 DEF Unlocked, MediaTypeOK
  <2>5. QED
    BY <1>4, <2>1, <2>2, <2>3, <2>4 DEF SessionHeld
<1>11. QED
  BY <1>6, <1>7, <1>8, <1>9, <1>10

LEMMA NextMedia == MediaInv /\ [MediaNext]_mediaVars => MediaInv'
<1> SUFFICES ASSUME MediaInv, [MediaNext]_mediaVars PROVE MediaInv'
  OBVIOUS
<1>1. CASE CreateAttachment \/ CreateSession \/ Put \/ UploadTimesOut
  BY <1>1, UploadKeeps
<1>2. CASE Stall
  BY <1>2, StallKeeps
<1>3. ASSUME NEW c \in Calls,
             \/ CancelRead(c) \/ CancelSession(c) \/ CancelAttachment(c) \/ CancelObject(c)
             \/ GetRead(c) \/ GetSession(c) \/ GetAttachment(c)
      PROVE  MediaInv'
  BY <1>3, CancelKeeps
<1>4. ASSUME NEW c \in Calls, CompleteLock(c) \/ CompleteCommit(c) PROVE MediaInv'
  BY <1>4, CompleteKeeps
<1>5. ASSUME NEW c \in Calls, Enqueue(c) PROVE MediaInv'
  BY <1>5, EnqueueKeeps
<1>6. ASSUME NEW c \in Calls, CallFails(c) PROVE MediaInv'
  BY <1>6, CallFailsKeeps
<1>7. ASSUME NEW w \in Workers,
             \/ TakeJob(w) \/ ReadFails(w) \/ Reject(w) \/ Accept(w) \/ ProcessFails(w)
             \/ MarkRead(w) \/ MarkFailed(w) \/ MarkingFails(w)
      PROVE  MediaInv'
  BY <1>7, WorkKeeps
<1>8. ASSUME NEW w \in Workers,
             \/ TakeCleanup(w) \/ ExpireSession(w) \/ ExpireAttachment(w) \/ DeleteObject(w)
             \/ CleanupFails(w)
      PROVE  MediaInv'
  BY <1>8, CleanupKeeps
<1>9. CASE UNCHANGED mediaVars
  <2>1. Busy' = Busy /\ Marking' = Marking
    BY <1>9 DEF mediaVars, Busy, Marking
  <2>2. QED
    BY <1>9, <2>1 DEF mediaVars, MediaInv, MediaTypeOK, CompletesOnce, SessionHeld, Unlocked,
           ProcessingHasJob, WorkersCounted, OutcomesInOrder, Outcomes, CallSteps, WorkerSteps
<1>10. QED
  BY <1>1, <1>2, <1>3, <1>4, <1>5, <1>6, <1>7, <1>8, <1>9 DEF MediaNext

\* complete, the process job and the cleanup job: an attachment in processing has a job
\* that will settle it unless the job was lost, or its last attempt failed where the code
\* does not mark it FAILED; and what can be downloaded is in the store unless the cleanup
\* had read the session before.
THEOREM UploadsEndWhole == MediaSpec => []UploadsAreWhole
<1>1. MediaInv => UploadsAreWhole
  BY DEF MediaInv, SessionHeld, UploadsAreWhole, ReadyHasObject
<1>2. QED
  BY <1>1, InitMedia, NextMedia, PTL DEF MediaSpec

\* MediaProcessor and its outcome events: the status of the row is the one told last, and
\* stalled jobs tell FAILED again at most once each.
THEOREM OutcomesTold == MediaSpec => []OutcomesAreTold
<1>1. MediaInv => OutcomesAreTold
  <2> SUFFICES ASSUME MediaInv PROVE OutcomesAreTold
    OBVIOUS
  <2>1. Marking \subseteq Busy
    BY DEF Marking, Busy
  <2>2. Cardinality(Marking) \in Nat
    BY <2>1, FS_Subset, FS_CardinalityType DEF MediaInv, WorkersCounted
  <2>3. Len(outcomes) \in Nat /\ (outcomes = <<>> => Len(outcomes) = 0)
    BY LenProperties DEF MediaInv, MediaTypeOK
  <2>4. Len(outcomes) <= 1 + job.stalls /\ Len(outcomes) <= 1 + MaxStalls
    BY <2>2, <2>3, BusyBound DEF MediaInv, WorkersCounted
  <2>5. QED
    BY <2>4 DEF MediaInv, OutcomesInOrder, OutcomesAreTold
<1>2. QED
  BY <1>1, InitMedia, NextMedia, PTL DEF MediaSpec

-----------------------------------------------------------------------------
(* All services together                                                   *)

\* Every service keeps the types of its rows, requests, sockets and jobs, each by the
\* invariant of its own; no step of one disturbs another.
ServicesInv ==
  /\ LocksInv /\ ActionsInv /\ ContactsInv /\ Sound /\ RefreshInv
  /\ CodesInv /\ LimiterInv /\ FeedSound /\ MediaInv /\ WalkInv

\* The parts of the services' state that one step may move.
allVars == <<focus, locksVars, actionsVars, contactsVars, sessionsVars, refreshVars,
             challengesVars, limiterVars, feedVars, mediaVars, pagesVars>>

\* Every step of the services together is a step, or a stutter, of each.
LEMMA EachSteps ==
  ASSUME [Next]_allVars
  PROVE  /\ [LocksNext]_locksVars /\ [ActionsNext]_actionsVars /\ [ContactsNext]_contactsVars
         /\ [SessionsNext]_sessionsVars /\ [RefreshNext]_refreshVars
         /\ [ChallengesNext]_challengesVars /\ [LimiterNext]_limiterVars
         /\ [FeedNext]_feedVars /\ [MediaNext]_mediaVars /\ [PagesNext]_pagesVars
  BY Zenon DEF Next, allVars

\* ServicesTypeOK: no row, token, socket, job or request of a service ever leaves its type.
THEOREM ServicesTyped == Spec => []ServicesTypeOK
<1>1. Init => ServicesInv
  BY LocksStart, ActionsStart, InitContacts, SoundInit, InitRefresh, InitCodes, InitLimiter,
     FeedSoundInit, InitMedia, PagesStart DEF Init, ServicesInv
<1>2. ServicesInv /\ [Next]_allVars => ServicesInv'
  <2> SUFFICES ASSUME ServicesInv, [Next]_allVars PROVE ServicesInv'
    OBVIOUS
  <2>1. /\ LocksInv' /\ ActionsInv' /\ ContactsInv' /\ Sound'
    BY EachSteps, LocksStep, ActionsStep, NextContacts, SoundNext DEF ServicesInv
  <2>2. /\ RefreshInv' /\ CodesInv' /\ LimiterInv'
    BY EachSteps, NextRefresh, NextCodes, NextLimiter DEF ServicesInv
  <2>3. /\ FeedSound' /\ MediaInv' /\ WalkInv'
    BY EachSteps, FeedSoundNext, NextMedia, PagesStep DEF ServicesInv
  <2>4. QED
    BY <2>1, <2>2, <2>3 DEF ServicesInv
<1>3. ServicesInv => ServicesTypeOK
  BY DEF ServicesInv, ServicesTypeOK, LocksInv, ActionsInv, ContactsInv, Sound, RefreshInv,
         CodesInv, LimiterInv, FeedSound, MediaInv, WalkInv
<1>4. QED
  BY <1>1, <1>2, <1>3, PTL DEF Spec, allVars
=============================================================================
