----------------------------- MODULE SessionProofs -----------------------------
(***************************************************************************)
(* The devices and sessions of an account, for any number of devices and   *)
(* of requests under way: one live session to a device, the device limit,  *)
(* what a removal and a reset leave, and who is told.                      *)
(***************************************************************************)
EXTENDS Sessions, FiniteSetTheorems, SequenceTheorems, TLAPS

-----------------------------------------------------------------------------
(* What the helpers do to the rows. *)

\* Revoking keeps every row but for its status.
LEMMA RevokedRows ==
  ASSUME SessionsTypeOK, NEW S
  PROVE  /\ Revoked(S) \in Seq(SessionRow) /\ Len(Revoked(S)) = Len(session)
         /\ DOMAIN Revoked(S) = DOMAIN session
         /\ \A s \in DOMAIN session :
              /\ Revoked(S)[s].device = session[s].device
              /\ Revoked(S)[s].crossed = session[s].crossed
              /\ Revoked(S)[s].born = session[s].born
              /\ Revoked(S)[s].status = IF s \in S THEN "REVOKED" ELSE session[s].status
<1>1. session \in Seq(SessionRow) /\ Len(session) \in Nat /\ DOMAIN session = 1..Len(session)
  BY LenProperties DEF SessionsTypeOK
<1>2. \A s \in DOMAIN session : session[s] \in SessionRow
  BY <1>1, ElementOfSeq
<1>3. \A s \in DOMAIN session :
        /\ Revoked(S)[s] \in SessionRow
        /\ Revoked(S)[s].device = session[s].device
        /\ Revoked(S)[s].crossed = session[s].crossed
        /\ Revoked(S)[s].born = session[s].born
        /\ Revoked(S)[s].status = IF s \in S THEN "REVOKED" ELSE session[s].status
  BY <1>2 DEF Revoked, SessionRow, Statuses
<1>4. Revoked(S) \in [1..Len(session) -> SessionRow]
  BY <1>1, <1>3 DEF Revoked
<1>5. Revoked(S) \in Seq(SessionRow)
  BY <1>1, <1>4, SeqDef
<1>6. DOMAIN Revoked(S) = 1..Len(session)
  BY <1>4
<1>7. Len(Revoked(S)) = Len(session)
  BY <1>1, <1>5, <1>6, LenProperties
<1>8. QED
  BY <1>1, <1>3, <1>5, <1>6, <1>7

LEMMA RowTypes ==
  ASSUME SessionsTypeOK
  PROVE  /\ session \in Seq(SessionRow) /\ Len(session) \in Nat
         /\ DOMAIN session = 1..Len(session) /\ DOMAIN socket = 1..Len(session)
         /\ \A s \in DOMAIN session : /\ session[s] \in SessionRow
                                      /\ socket[s] \in {"none", "joining", "joined", "missed"}
  BY LenProperties, ElementOfSeq DEF SessionsTypeOK

\* Setting the socket of one session.
LEMMA SocketSet ==
  ASSUME SessionsTypeOK, NEW s \in DOMAIN session,
         NEW v \in {"none", "joining", "joined", "missed"}
  PROVE  /\ [socket EXCEPT ![s] = v] \in Seq({"none", "joining", "joined", "missed"})
         /\ Len([socket EXCEPT ![s] = v]) = Len(session)
  BY RowTypes, ExceptSeq DEF SessionsTypeOK

\* A login that issues appends its session.
LEMMA IssuedRows ==
  ASSUME SessionsTypeOK, NEW c \in Logins, NEW S, NEW new \in SessionRow,
         session' = Append(Revoked(S), new), socket' = Append(socket, "none")
  PROVE  /\ session' \in Seq(SessionRow) /\ Len(session') = Len(session) + 1
         /\ DOMAIN session' = 1..(Len(session) + 1)
         /\ socket' \in Seq({"none", "joining", "joined", "missed"})
         /\ Len(socket') = Len(session) + 1
         /\ session'[Len(session) + 1] = new /\ socket'[Len(session) + 1] = "none"
         /\ \A s \in DOMAIN session : session'[s] = Revoked(S)[s] /\ socket'[s] = socket[s]
<1>1. /\ Revoked(S) \in Seq(SessionRow) /\ Len(Revoked(S)) = Len(session)
      /\ Len(session) \in Nat /\ DOMAIN session = 1..Len(session)
  BY RevokedRows, RowTypes
<1>2. /\ socket \in Seq({"none", "joining", "joined", "missed"}) /\ Len(socket) = Len(session)
  BY DEF SessionsTypeOK
<1>3. QED
  BY <1>1, <1>2

-----------------------------------------------------------------------------
(* Types, and the one reset that is listed at a time.                      *)

\* The credential's lock: a reset waits for the one before it. A login has its device.
RequestsKnown ==
  /\ \A c \in Logins : login[c].pc \in {"verified", "issuing"} => login[c].device \in Devices
  /\ \A c \in Logins : login[c].list \subseteq DOMAIN session
  /\ \A c \in Logins : login[c].reset => login[c].pc = "listed"
  /\ \A c, e \in Logins : login[c].reset /\ login[e].reset => c = e

Sound == SessionsTypeOK /\ RequestsKnown

LEMMA ListedCount ==
  ASSUME Sound
  PROVE  /\ resets \in Nat /\ ResetsListed \in Nat
         /\ ResetsListed = IF \E c \in Logins : login[c].reset THEN resets + 1 ELSE resets
<1> DEFINE listed == {c \in Logins : login[c].pc = "listed" /\ login[c].reset}
<1>1. CASE \E c \in Logins : login[c].reset
  <2>1. PICK c \in Logins : login[c].reset
    BY <1>1
  <2>2. listed = {c}
    BY <2>1 DEF Sound, RequestsKnown
  <2>3. Cardinality(listed) = 1
    BY <2>2, FS_Singleton
  <2>4. QED
    BY <2>1, <2>3 DEF ResetsListed, Sound, SessionsTypeOK
<1>2. CASE ~(\E c \in Logins : login[c].reset)
  <2>1. listed = {}
    BY <1>2
  <2>2. Cardinality(listed) = 0
    BY <2>1, FS_EmptySet
  <2>3. QED
    BY <1>2, <2>2 DEF ResetsListed, Sound, SessionsTypeOK
<1>3. QED
  BY <1>1, <1>2

\* A step leaves its types when it sets each variable to a value of its type.
LEMMA RequestSet ==
  ASSUME Sound, NEW c \in Logins, NEW r \in Request, login' = [login EXCEPT ![c] = r],
         r.list \subseteq DOMAIN session, DOMAIN session \subseteq DOMAIN session',
         r.pc \in {"verified", "issuing"} => r.device \in Devices,
         r.reset => r.pc = "listed" /\ \A e \in Logins \ {c} : ~login[e].reset
  PROVE  login' \in [Logins -> Request] /\ RequestsKnown'
  BY DEF Sound, RequestsKnown, SessionsTypeOK

LEMMA CrossedRequests ==
  ASSUME Sound, NEW D, login' = Crossing(D), DOMAIN session \subseteq DOMAIN session'
  PROVE  /\ login' \in [Logins -> Request] /\ RequestsKnown'
         /\ \A c \in Logins :
              /\ login'[c].pc = login[c].pc /\ login'[c].saw = login[c].saw
              /\ login'[c].device = login[c].device /\ login'[c].list = login[c].list
              /\ login'[c].reset = login[c].reset
              /\ login'[c].crossed <=>
                   \/ login[c].crossed
                   \/ login[c].pc \in {"verified", "issuing"} /\ login[c].device \in D
<1> DEFINE hit(c) == login[c].pc \in {"verified", "issuing"} /\ login[c].device \in D
<1>1. \A c \in Logins :
        /\ login'[c] \in Request
        /\ login'[c].pc = login[c].pc /\ login'[c].saw = login[c].saw
        /\ login'[c].device = login[c].device /\ login'[c].list = login[c].list
        /\ login'[c].reset = login[c].reset
        /\ login'[c].crossed <=> (login[c].crossed \/ hit(c))
  <2> TAKE c \in Logins
  <2>1. /\ login[c] \in Request
        /\ login'[c] = IF hit(c) THEN [login[c] EXCEPT !.crossed = TRUE] ELSE login[c]
    BY DEF Sound, SessionsTypeOK, Crossing
  <2>2. CASE hit(c)
    <3>1. login'[c] = [login[c] EXCEPT !.crossed = TRUE]
      BY <2>1, <2>2, Zenon
    <3>2. login'[c].crossed /\ login'[c] \in Request
      BY <2>1, <3>1 DEF Request
    <3>3. QED
      BY <2>1, <2>2, <3>1, <3>2 DEF Request
  <2>3. CASE ~hit(c)
    <3>1. login'[c] = login[c] /\ login[c].crossed \in BOOLEAN
      <4>1. login'[c] = login[c]
        BY <2>1, <2>3, Zenon
      <4>2. QED
        BY <2>1, <4>1 DEF Request
    <3>2. QED
      BY <2>1, <2>3, <3>1, Zenon
  <2>4. QED
    BY <2>2, <2>3
<1>2. login' \in [Logins -> Request]
  <2>1. \E f : login' = [c \in Logins |-> f[c]]
    <3>1. login' = [c \in Logins |-> Crossing(D)[c]]
      BY DEF Crossing
    <3>2. QED
      BY <3>1
  <2>2. QED
    BY <1>1, <2>1
<1>3. RequestsKnown'
  BY <1>1 DEF Sound, RequestsKnown
<1>4. QED
  BY <1>1, <1>2, <1>3, Zenon

LEMMA BackToIdle ==
  ASSUME Sound, NEW c \in Logins, login' = [login EXCEPT ![c] = Idle],
         DOMAIN session \subseteq DOMAIN session'
  PROVE  login' \in [Logins -> Request] /\ RequestsKnown'
<1>1. Idle \in Request /\ ~Idle.reset /\ Idle.pc = "idle" /\ Idle.list = {}
  BY DEF Idle, Request, Statuses
<1>2. QED
  BY <1>1, RequestSet

LEMMA ListsAreNat ==
  ASSUME SessionsTypeOK
  PROVE  Live \subseteq DOMAIN session /\ DOMAIN session \subseteq Nat
  BY RowTypes DEF Live

\* A step that revokes sessions, and leaves devices, requests and sockets well typed.
LEMMA RevokingTypes ==
  ASSUME Sound, NEW S, session' = Revoked(S),
         user' \in {"ACTIVE", "DELETED"}, device' \in [Devices -> Statuses],
         login' \in [Logins -> Request], RequestsKnown', resets' \in Nat,
         socket' \in Seq({"none", "joining", "joined", "missed"}), Len(socket') = Len(session),
         pending' \subseteq DOMAIN session
  PROVE  Sound'
<1>1. /\ session' \in Seq(SessionRow) /\ Len(session') = Len(session)
      /\ DOMAIN session' = DOMAIN session
  BY RevokedRows DEF Sound
<1>2. QED
  BY <1>1 DEF Sound, SessionsTypeOK

\* A step that leaves the sessions alone.
LEMMA QuietTypes ==
  ASSUME Sound, UNCHANGED <<user, device, session, resets>>,
         login' \in [Logins -> Request], RequestsKnown',
         socket' \in Seq({"none", "joining", "joined", "missed"}), Len(socket') = Len(session),
         pending' \subseteq pending
  PROVE  Sound'
  BY DEF Sound, SessionsTypeOK

LEMMA PassedOver ==
  ASSUME SessionsTypeOK, NEW s \in DOMAIN session, PassOver(s)
  PROVE  /\ socket' \in Seq({"none", "joining", "joined", "missed"})
         /\ Len(socket') = Len(session)
<1>1. socket' = [socket EXCEPT ![s] = IF socket[s] = "none" THEN "none" ELSE "missed"]
  BY DEF PassOver
<1>2. QED
  BY <1>1, SocketSet

LEMMA IssuedTypes ==
  ASSUME Sound, NEW c \in Logins, IssueCommit(c)
  PROVE  Sound'
<1> DEFINE d == login[c].device
           new == [status |-> "ACTIVE", device |-> d,
                   crossed |-> login[c].crossed, born |-> ResetsListed]
<1>1. login[c] \in Request /\ login[c].pc = "issuing"
  BY DEF Sound, SessionsTypeOK, IssueCommit
<1>2. d \in Devices
  BY <1>1 DEF Sound, RequestsKnown
<1>3. new \in SessionRow
  BY <1>1, <1>2, ListedCount DEF SessionRow, Request, Statuses
<1>4. session' = Append(Revoked(Replaced(d)), new) /\ socket' = Append(socket, "none")
  BY DEF IssueCommit
<1>5. /\ session' \in Seq(SessionRow) /\ DOMAIN session' = 1..(Len(session) + 1)
      /\ socket' \in Seq({"none", "joining", "joined", "missed"})
      /\ Len(socket') = Len(session')
  BY <1>3, <1>4, IssuedRows DEF Sound
<1>6. device' \in [Devices -> Statuses]
  BY DEF Sound, SessionsTypeOK, IssueCommit, Statuses
<1>7. login' \in [Logins -> Request] /\ RequestsKnown'
  <2>1. DOMAIN session \subseteq DOMAIN session'
    BY <1>5, RowTypes DEF Sound
  <2>2. QED
    BY <2>1, BackToIdle DEF IssueCommit
<1>8. pending' \subseteq DOMAIN session'
  <2>1. pending' = pending \cup Replaced(d)
    BY DEF IssueCommit
  <2>2. pending \subseteq 1..Len(session) /\ Replaced(d) \subseteq 1..Len(session)
    BY RowTypes DEF Sound, SessionsTypeOK, Replaced, LiveOn, Live
  <2>3. Len(session) \in Nat
    BY RowTypes DEF Sound
  <2>4. 1..Len(session) \subseteq 1..(Len(session) + 1)
    BY <2>3
  <2>5. QED
    BY <1>5, <2>1, <2>2, <2>4
<1>9. QED
  BY <1>5, <1>6, <1>7, <1>8 DEF Sound, SessionsTypeOK, IssueCommit

LEMMA LoginTypes ==
  ASSUME Sound, NEW c \in Logins,
         \/ \E d \in Devices : LoginVerify(c, d)
         \/ \E reset \in BOOLEAN : RevokeList(c, reset)
         \/ IssueRead(c) \/ RevokeCommit(c) \/ Abort(c)
  PROVE  Sound'
<1>1. ASSUME NEW d \in Devices, LoginVerify(c, d) PROVE Sound'
  <2> DEFINE r == [Idle EXCEPT !.pc = "verified", !.device = d]
  <2>1. r \in Request /\ ~r.reset /\ r.pc = "verified" /\ r.device = d /\ r.list = {}
    BY DEF Idle, Request, Statuses
  <2>2. login' = [login EXCEPT ![c] = r]
    BY <1>1 DEF LoginVerify
  <2> HIDE DEF r
  <2>3. login' \in [Logins -> Request] /\ RequestsKnown'
    BY <1>1, <2>1, <2>2, RequestSet DEF LoginVerify
  <2>4. QED
    BY <1>1, <2>3, QuietTypes DEF LoginVerify, Sound, SessionsTypeOK
<1>2. ASSUME NEW reset \in BOOLEAN, RevokeList(c, reset) PROVE Sound'
  <2>1. PICK keep \in KeepOf(reset) :
          login' = [login EXCEPT ![c] =
            [Idle EXCEPT !.pc = "listed", !.list = Live \ {keep}, !.reset = reset]]
    BY <1>2 DEF RevokeList
  <2> DEFINE r == [Idle EXCEPT !.pc = "listed", !.list = Live \ {keep}, !.reset = reset]
  <2>2. Live \subseteq Nat /\ Live \subseteq DOMAIN session
    BY ListsAreNat DEF Sound
  <2>3. r \in Request /\ r.reset = reset /\ r.pc = "listed" /\ r.list \subseteq DOMAIN session
    BY <2>2 DEF Idle, Request, Statuses
  <2>4. reset => \A other \in Logins : ~login[other].reset
    BY <1>2 DEF RevokeList
  <2>5. login' = [login EXCEPT ![c] = r]
    BY <2>1
  <2> HIDE DEF r
  <2>6. login' \in [Logins -> Request] /\ RequestsKnown'
    BY <1>2, <2>3, <2>4, <2>5, RequestSet DEF RevokeList
  <2>7. QED
    BY <1>2, <2>6, QuietTypes DEF RevokeList, Sound, SessionsTypeOK
<1>3. ASSUME IssueRead(c) PROVE Sound'
  <2>1. /\ login[c] \in Request /\ login[c].pc = "verified" /\ login[c].device \in Devices
        /\ ~login[c].reset /\ device[login[c].device] \in Statuses
        /\ login[c].list \subseteq DOMAIN session
    BY <1>3 DEF Sound, SessionsTypeOK, RequestsKnown, IssueRead
  <2> DEFINE r == [login[c] EXCEPT !.pc = "issuing", !.saw = device[login[c].device]]
  <2>2. /\ r \in Request /\ ~r.reset /\ r.pc = "issuing" /\ r.device \in Devices
        /\ r.list \subseteq DOMAIN session
    BY <2>1 DEF Request
  <2>3. \/ login' = [login EXCEPT ![c] = Idle]
        \/ login' = [login EXCEPT ![c] = r]
    BY <1>3 DEF IssueRead, Sound, SessionsTypeOK
  <2> HIDE DEF r
  <2>4. login' \in [Logins -> Request] /\ RequestsKnown'
    BY <1>3, <2>2, <2>3, RequestSet, BackToIdle DEF IssueRead
  <2>5. QED
    BY <1>3, <2>4, QuietTypes DEF IssueRead, Sound, SessionsTypeOK
<1>4. ASSUME RevokeCommit(c) PROVE Sound'
  <2>1. login' \in [Logins -> Request] /\ RequestsKnown'
    BY <1>4, BackToIdle, RevokedRows DEF RevokeCommit, RevokeAndTell, Sound
  <2>2. resets' \in Nat
    BY <1>4 DEF RevokeCommit, Sound, SessionsTypeOK
  <2>3. session' = Revoked(login[c].list) /\ pending' = pending \cup login[c].list
    BY <1>4 DEF RevokeCommit, RevokeAndTell
  <2>4. pending' \subseteq DOMAIN session
    BY <1>4, <2>3 DEF RevokeCommit, Sound, SessionsTypeOK, RequestsKnown
  <2>5. QED
    BY <1>4, <2>1, <2>2, <2>3, <2>4, RevokingTypes DEF RevokeCommit, Sound, SessionsTypeOK
<1>5. ASSUME Abort(c) PROVE Sound'
  <2>1. login' \in [Logins -> Request] /\ RequestsKnown'
    BY <1>5, BackToIdle DEF Abort
  <2>2. QED
    BY <1>5, <2>1, QuietTypes DEF Abort, Sound, SessionsTypeOK
<1>6. QED
  BY <1>1, <1>2, <1>3, <1>4, <1>5

\* The commands on one session, a device and the account, and the sockets.
LEMMA RemovalTypes ==
  ASSUME Sound,
         \/ \E d \in Devices : RemoveDevice(d)
         \/ DeleteAccount
         \/ \E s \in DOMAIN session : \/ Logout(s) \/ RemoveSession(s) \/ RefreshReused(s)
                                      \/ RefreshUnavailable(s)
  PROVE  Sound'
<1> Live \subseteq DOMAIN session
  BY ListsAreNat DEF Sound
<1>1. ASSUME NEW d \in Devices, RemoveDevice(d) PROVE Sound'
  <2>1. session' = Revoked(LiveOn(d)) /\ pending' = pending \cup LiveOn(d)
    BY <1>1 DEF RemoveDevice, RevokeAndTell
  <2>2. DOMAIN session' = DOMAIN session
    BY <2>1, RevokedRows DEF Sound
  <2>3. login' \in [Logins -> Request] /\ RequestsKnown'
    BY <1>1, <2>2, CrossedRequests DEF RemoveDevice
  <2>4. pending' \subseteq DOMAIN session /\ device' \in [Devices -> Statuses]
    BY <1>1, <2>1 DEF RemoveDevice, LiveOn, Sound, SessionsTypeOK, Statuses
  <2>5. QED
    BY <1>1, <2>1, <2>3, <2>4, RevokingTypes DEF RemoveDevice, Sound, SessionsTypeOK
<1>2. ASSUME DeleteAccount PROVE Sound'
  <2>1. session' = Revoked(Live) /\ pending' = pending \cup Live
    BY <1>2 DEF DeleteAccount, RevokeAndTell
  <2>2. DOMAIN session' = DOMAIN session
    BY <2>1, RevokedRows DEF Sound
  <2>3. login' \in [Logins -> Request] /\ RequestsKnown'
    BY <1>2, <2>2, CrossedRequests DEF DeleteAccount
  <2>4. pending' \subseteq DOMAIN session /\ device' \in [Devices -> Statuses]
    BY <1>2, <2>1 DEF DeleteAccount, Sound, SessionsTypeOK, Statuses
  <2>5. QED
    BY <1>2, <2>1, <2>3, <2>4, RevokingTypes DEF DeleteAccount, Sound, SessionsTypeOK
<1>3. ASSUME NEW s \in DOMAIN session,
             Logout(s) \/ RemoveSession(s) \/ RefreshReused(s) \/ RefreshUnavailable(s)
      PROVE  Sound'
  <2>1. /\ session' = Revoked({s}) /\ pending' \subseteq pending \cup {s}
        /\ UNCHANGED <<user, device, login, resets>>
        /\ socket' = socket \/ PassOver(s)
    BY <1>3 DEF Logout, RemoveSession, RefreshReused, RefreshUnavailable, RevokeAndTell
  <2>2. DOMAIN session' = DOMAIN session
    BY <2>1, RevokedRows DEF Sound
  <2>3. login' \in [Logins -> Request] /\ RequestsKnown'
    BY <2>1, <2>2 DEF Sound, RequestsKnown, SessionsTypeOK
  <2>4. /\ socket' \in Seq({"none", "joining", "joined", "missed"})
        /\ Len(socket') = Len(session)
    BY <2>1, PassedOver DEF Sound, SessionsTypeOK
  <2>5. pending' \subseteq DOMAIN session
    BY <2>1 DEF Sound, SessionsTypeOK
  <2>6. QED
    BY <2>1, <2>3, <2>4, <2>5, RevokingTypes DEF Sound, SessionsTypeOK
<1>4. QED
  BY <1>1, <1>2, <1>3

LEMMA SocketTypes ==
  ASSUME Sound,
         \/ \E s \in DOMAIN session : Handshake(s) \/ Join(s)
         \/ \E s \in pending : Tell(s) \/ TellNobody(s)
  PROVE  Sound'
<1>1. PICK s \in DOMAIN session : Handshake(s) \/ Join(s) \/ Tell(s) \/ TellNobody(s)
  BY DEF Sound, SessionsTypeOK
<1>2. socket[s] \in {"none", "joining", "joined", "missed"}
  BY RowTypes DEF Sound
<1>3. \/ \E v \in {"none", "joining", "joined", "missed"} : socket' = [socket EXCEPT ![s] = v]
      \/ PassOver(s)
  <2>1. CASE Handshake(s)
    BY <2>1 DEF Handshake
  <2>2. CASE Join(s)
    BY <2>2 DEF Join
  <2>3. CASE Tell(s)
    <3> DEFINE v == CASE socket[s] = "joined" -> "none" [] socket[s] = "joining" -> "missed"
                      [] OTHER -> socket[s]
    <3>1. socket' = [socket EXCEPT ![s] = v]
      BY <2>3 DEF Tell
    <3>2. v \in {"none", "joining", "joined", "missed"}
      BY <1>2
    <3>3. QED
      BY <3>1, <3>2
  <2>4. CASE TellNobody(s)
    BY <2>4 DEF TellNobody
  <2>5. QED
    BY <1>1, <2>1, <2>2, <2>3, <2>4
<1>4. /\ socket' \in Seq({"none", "joining", "joined", "missed"})
      /\ Len(socket') = Len(session)
  BY <1>3, SocketSet, PassedOver DEF Sound
<1>5. UNCHANGED <<user, device, session, login, resets>> /\ pending' \subseteq pending
  BY <1>1 DEF Handshake, Join, Tell, TellNobody
<1>6. login' \in [Logins -> Request] /\ RequestsKnown'
  BY <1>5 DEF Sound, RequestsKnown, SessionsTypeOK
<1>7. QED
  BY <1>4, <1>5, <1>6, QuietTypes

LEMMA SoundInit == SessionsInit => Sound
  BY EmptySeq DEF SessionsInit, Sound, SessionsTypeOK, RequestsKnown, Idle, Request, Statuses

LEMMA SoundNext == Sound /\ [SessionsNext]_sessionsVars => Sound'
<1>1. ASSUME Sound, SessionsNext PROVE Sound'
  BY <1>1, LoginTypes, IssuedTypes, RemovalTypes, SocketTypes DEF SessionsNext
<1>2. ASSUME Sound, UNCHANGED sessionsVars PROVE Sound'
  BY <1>2 DEF Sound, SessionsTypeOK, RequestsKnown, sessionsVars
<1>3. QED
  BY <1>1, <1>2

\* Every row, request and socket keeps its type, whatever runs at the same time.
THEOREM SessionsTyped == SessionsSpec => []SessionsTypeOK
<1>1. Sound => SessionsTypeOK
  BY DEF Sound
<1>2. QED
  BY <1>1, SoundInit, SoundNext, PTL DEF SessionsSpec

-----------------------------------------------------------------------------
(* What a step does to the sessions: a login adds one, all others revoke.  *)

LEMMA RevokedLive ==
  ASSUME Sound, NEW S, session' = Revoked(S)
  PROVE  /\ DOMAIN session' = DOMAIN session /\ Live' = Live \ S
         /\ \A s \in DOMAIN session : /\ session'[s].device = session[s].device
                                      /\ session'[s].crossed = session[s].crossed
                                      /\ session'[s].born = session[s].born
  BY RevokedRows DEF Sound, Live

LEMMA NothingRevoked ==
  ASSUME Sound
  PROVE  session = Revoked({})
<1>1. \A s \in DOMAIN session : Revoked({})[s] = session[s]
  BY DEF Revoked
<1>2. QED
  BY <1>1, RevokedRows, SeqEqual, RowTypes DEF Sound

LEMMA StepRevokes ==
  ASSUME Sound, SessionsNext
  PROVE  (\E c \in Logins : IssueCommit(c)) \/ \E S : session' = Revoked(S)
<1>1. \/ \E c \in Logins : IssueCommit(c)
      \/ session' = session
      \/ \E S : RevokeAndTell(S)
      \/ \E s : session' = Revoked({s})
  BY DEF SessionsNext, LoginVerify, RevokeList, IssueRead, RevokeCommit, Abort, RemoveDevice,
         Logout, RemoveSession, RefreshReused, RefreshUnavailable, Handshake, Join, Tell,
         TellNobody, DeleteAccount
<1>2. QED
  BY <1>1, NothingRevoked DEF RevokeAndTell

\* The session of a login is the only live one of its device.
LEMMA IssuedLive ==
  ASSUME Sound, NEW c \in Logins, IssueCommit(c)
  PROVE  LET n == Len(session) + 1
         IN  /\ n \notin DOMAIN session /\ DOMAIN session' = DOMAIN session \cup {n}
             /\ Live' = (Live \ LiveOn(login[c].device)) \cup {n}
             /\ \A s \in DOMAIN session : /\ session'[s].device = session[s].device
                                          /\ session'[s].crossed = session[s].crossed
                                          /\ session'[s].born = session[s].born
                                          /\ socket'[s] = socket[s]
             /\ session'[n].device = login[c].device /\ session'[n].crossed = login[c].crossed
             /\ session'[n].born = ResetsListed /\ socket'[n] = "none"
<1> DEFINE d == login[c].device
           n == Len(session) + 1
           new == [status |-> "ACTIVE", device |-> d,
                   crossed |-> login[c].crossed, born |-> ResetsListed]
<1>1. login[c] \in Request /\ d \in Devices
  BY DEF Sound, SessionsTypeOK, RequestsKnown, IssueCommit
<1>2. new \in SessionRow
  BY <1>1, ListedCount DEF SessionRow, Request, Statuses
<1>3. session' = Append(Revoked(Replaced(d)), new) /\ socket' = Append(socket, "none")
  BY DEF IssueCommit
<1>4. /\ DOMAIN session' = 1..n /\ session'[n] = new /\ socket'[n] = "none"
      /\ \A s \in DOMAIN session : session'[s] = Revoked(Replaced(d))[s] /\ socket'[s] = socket[s]
  BY <1>2, <1>3, IssuedRows DEF Sound
<1>5. Len(session) \in Nat /\ DOMAIN session = 1..Len(session)
  BY RowTypes DEF Sound
<1>6. n \notin DOMAIN session /\ DOMAIN session' = DOMAIN session \cup {n}
  BY <1>4, <1>5
<1>7. \A s \in DOMAIN session :
        /\ session'[s].device = session[s].device /\ session'[s].crossed = session[s].crossed
        /\ session'[s].born = session[s].born
        /\ session'[s].status = IF s \in LiveOn(d) THEN "REVOKED" ELSE session[s].status
  BY <1>4, RevokedRows DEF Sound, Replaced
<1>8. /\ session'[n].status = "ACTIVE" /\ session'[n].device = d
      /\ session'[n].crossed = login[c].crossed /\ session'[n].born = ResetsListed
  BY <1>4
<1> HIDE DEF d, n, new
<1>9. Live' = (Live \ LiveOn(d)) \cup {n}
  BY <1>6, <1>7, <1>8 DEF Live
<1>10. QED
  BY <1>4, <1>6, <1>7, <1>8, <1>9, Zenon DEF d, n

-----------------------------------------------------------------------------
(* One session to a device.                                                *)

OneLive == \A s, t \in Live : session[s].device = session[t].device => s = t

LEMMA OneLiveNext ==
  ASSUME Sound, OneLive, SessionsNext
  PROVE  OneLive'
<1> Live \subseteq DOMAIN session
  BY ListsAreNat DEF Sound
<1>1. CASE \E S : session' = Revoked(S)
  <2>1. PICK S : session' = Revoked(S)
    BY <1>1
  <2>2. QED
    BY <2>1, RevokedLive DEF OneLive
<1>2. ASSUME NEW c \in Logins, IssueCommit(c) PROVE OneLive'
  BY <1>2, IssuedLive DEF OneLive, LiveOn
<1>3. QED
  BY <1>1, <1>2, StepRevokes

LEMMA OneLiveCounts == OneLive => OneSessionPerDevice
<1> SUFFICES ASSUME OneLive, NEW d \in Devices PROVE Cardinality(LiveOn(d)) <= 1
  BY DEF OneSessionPerDevice
<1>1. CASE LiveOn(d) = {}
  BY <1>1, FS_EmptySet
<1>2. ASSUME NEW s \in LiveOn(d) PROVE Cardinality(LiveOn(d)) <= 1
  <2>1. LiveOn(d) = {s}
    BY <1>2 DEF OneLive, LiveOn
  <2>2. QED
    BY <2>1, FS_Singleton
<1>3. QED
  BY <1>1, <1>2

\* A device never has two live sessions: each login replaces what the others left.
THEOREM SessionsReplaced == SessionsSpec => []OneSessionPerDevice
<1>1. SessionsInit => OneLive
  BY DEF SessionsInit, OneLive, Live
<1>2. Sound /\ OneLive /\ [SessionsNext]_sessionsVars => OneLive'
  <2>1. ASSUME OneLive, UNCHANGED sessionsVars PROVE OneLive'
    BY <2>1 DEF OneLive, Live, sessionsVars
  <2>2. QED
    BY <2>1, OneLiveNext
<1>3. QED
  BY <1>1, <1>2, SoundInit, SoundNext, OneLiveCounts, PTL DEF SessionsSpec

-----------------------------------------------------------------------------
(* What a removal leaves behind.                                           *)

\* A login under way that was not crossed still has its account, and the device
\* that it saw.
LoginsKnow ==
  \A c \in Logins :
    /\ login[c].pc \in {"verified", "issuing"} => user = "ACTIVE" \/ login[c].crossed
    /\ login[c].pc = "issuing" /\ login[c].saw = "ACTIVE"
         => device[login[c].device] = "ACTIVE" \/ login[c].crossed

RemovalInv == LoginsKnow /\ RemovalEndsSessions

LEMMA RemovalNext ==
  ASSUME Sound, RemovalInv, SessionsNext
  PROVE  RemovalInv'
<1> Live \subseteq DOMAIN session
  BY ListsAreNat DEF Sound
<1> USE DEF RemovalInv
<1>1. ASSUME NEW c \in Logins, IssueCommit(c) PROVE RemovalInv'
  <2> DEFINE d == login[c].device
             n == Len(session) + 1
  <2>1. /\ login[c] \in Request /\ d \in Devices /\ login[c].pc = "issuing"
        /\ user' = user /\ login' = [login EXCEPT ![c] = Idle]
        /\ device' = [device EXCEPT ![d] = IF login[c].saw = "ACTIVE" THEN device[d] ELSE "ACTIVE"]
        /\ device \in [Devices -> Statuses] /\ login \in [Logins -> Request]
    BY <1>1 DEF IssueCommit, Sound, SessionsTypeOK, RequestsKnown
  <2>2. \A e \in Devices : device[e] = "ACTIVE" => device'[e] = "ACTIVE"
    BY <2>1
  <2>3. LoginsKnow'
    <3>1. Idle.pc = "idle"
      BY DEF Idle
    <3>2. \A e \in Logins : e # c => login'[e] = login[e]
      BY <2>1
    <3>3. login'[c].pc = "idle"
      BY <2>1, <3>1
    <3>4. \A e \in Logins : login[e].pc = "issuing" => login[e].device \in Devices
      BY DEF Sound, RequestsKnown
    <3>5. QED
      BY <2>1, <2>2, <3>2, <3>3, <3>4 DEF LoginsKnow
  <2>4. (device'[d] = "ACTIVE" /\ user = "ACTIVE") \/ login[c].crossed
    BY <2>1 DEF LoginsKnow
  <2>5. \A s \in DOMAIN session : session[s].device \in Devices
    BY RowTypes DEF Sound, SessionRow
  <2>6. ASSUME NEW s \in Live' PROVE Usable(s)' \/ session'[s].crossed
    <3>1. CASE s = n
      BY <1>1, <2>1, <2>4, <2>6, <3>1, IssuedLive DEF Usable
    <3>2. CASE s \in Live
      <4>1. Usable(s) \/ session[s].crossed
        BY <3>2 DEF RemovalEndsSessions
      <4>2. session'[s].device = session[s].device /\ session'[s].crossed = session[s].crossed
        BY <1>1, <3>2, IssuedLive
      <4>3. QED
        BY <2>1, <2>2, <2>5, <2>6, <3>2, <4>1, <4>2 DEF Usable
    <3>3. QED
      BY <1>1, <2>6, <3>1, <3>2, IssuedLive
  <2>7. QED
    BY <2>3, <2>6 DEF RemovalEndsSessions
<1>2. ASSUME NEW d \in Devices, RemoveDevice(d) PROVE RemovalInv'
  <2>1. /\ user' = user /\ session' = Revoked(LiveOn(d)) /\ login' = Crossing({d})
        /\ \A e \in Devices : e # d => device'[e] = device[e]
    BY <1>2 DEF RemoveDevice, RevokeAndTell, Sound, SessionsTypeOK
  <2>2. Live' = Live \ LiveOn(d) /\ DOMAIN session' = DOMAIN session
    BY <2>1, RevokedLive
  <2>3. LoginsKnow'
    <3> SUFFICES ASSUME NEW c \in Logins
                 PROVE  /\ login'[c].pc \in {"verified", "issuing"}
                              => user' = "ACTIVE" \/ login'[c].crossed
                        /\ login'[c].pc = "issuing" /\ login'[c].saw = "ACTIVE"
                              => device'[login'[c].device] = "ACTIVE" \/ login'[c].crossed
      BY DEF LoginsKnow
    <3>1. /\ login'[c].pc = login[c].pc /\ login'[c].saw = login[c].saw
          /\ login'[c].device = login[c].device
          /\ login[c].crossed => login'[c].crossed
          /\ login[c].pc = "issuing" /\ login[c].device = d => login'[c].crossed
      BY <2>1, <2>2, CrossedRequests
    <3>2. login[c].pc = "issuing" => login[c].device \in Devices
      BY DEF Sound, RequestsKnown
    <3>3. QED
      BY <2>1, <3>1, <3>2 DEF LoginsKnow
  <2>4. \A s \in DOMAIN session : session[s].device \in Devices
    BY RowTypes DEF Sound, SessionRow
  <2>5. RemovalEndsSessions'
    BY <2>1, <2>2, <2>4, RevokedLive DEF RemovalEndsSessions, Usable, LiveOn
  <2>6. QED
    BY <2>3, <2>5
<1>3. ASSUME DeleteAccount PROVE RemovalInv'
  <2>1. session' = Revoked(Live) /\ login' = Crossing(Devices)
    BY <1>3 DEF DeleteAccount, RevokeAndTell
  <2>2. Live' = {} /\ DOMAIN session' = DOMAIN session
    BY <2>1, RevokedLive
  <2>3. LoginsKnow'
    BY <2>1, <2>2, CrossedRequests DEF LoginsKnow, Sound, RequestsKnown
  <2>4. QED
    BY <2>2, <2>3 DEF RemovalEndsSessions
<1>4. ASSUME UNCHANGED <<user, device>>, NEW S, session' = Revoked(S),
             \A c \in Logins : \/ login'[c] = login[c]
                               \/ login'[c].pc = "verified" /\ user = "ACTIVE"
                               \/ /\ login'[c].pc = "issuing" /\ login[c].pc = "verified"
                                  /\ login'[c].device = login[c].device
                                  /\ login'[c].saw = device[login[c].device]
                                  /\ login'[c].crossed = login[c].crossed
                               \/ login'[c].pc \notin {"verified", "issuing"}
      PROVE  RemovalInv'
  <2>1. LoginsKnow'
    BY <1>4 DEF LoginsKnow
  <2>2. RemovalEndsSessions'
    BY <1>4, RevokedLive DEF RemovalEndsSessions, Usable
  <2>3. QED
    BY <2>1, <2>2
<1>5. ASSUME NEW c \in Logins,
             \/ \E d \in Devices : LoginVerify(c, d)
             \/ \E reset \in BOOLEAN : RevokeList(c, reset)
             \/ IssueRead(c) \/ RevokeCommit(c) \/ Abort(c)
      PROVE  RemovalInv'
  <2>1. login \in [Logins -> Request] /\ login[c] \in Request
    BY DEF Sound, SessionsTypeOK
  <2>2. Idle.pc = "idle" /\ Idle = [pc |-> "idle", device |-> Unset, saw |-> "NONE",
                                    crossed |-> FALSE, list |-> {}, reset |-> FALSE]
    BY DEF Idle
  <2>3. UNCHANGED <<user, device>> /\ \E S : session' = Revoked(S)
    BY <1>5, NothingRevoked
       DEF LoginVerify, RevokeList, IssueRead, RevokeCommit, Abort, RevokeAndTell
  <2>4. \A e \in Logins : e # c => login'[e] = login[e]
    BY <1>5, <2>1 DEF LoginVerify, RevokeList, IssueRead, RevokeCommit, Abort
  <2>5. \/ login'[c].pc = "verified" /\ user = "ACTIVE"
        \/ /\ login'[c].pc = "issuing" /\ login[c].pc = "verified"
           /\ login'[c].device = login[c].device
           /\ login'[c].saw = device[login[c].device]
           /\ login'[c].crossed = login[c].crossed
        \/ login'[c].pc \notin {"verified", "issuing"}
    <3>1. CASE \E d \in Devices : LoginVerify(c, d)
      BY <2>1, <2>2, <3>1 DEF LoginVerify
    <3>2. CASE \E reset \in BOOLEAN : RevokeList(c, reset)
      BY <2>1, <2>2, <3>2 DEF RevokeList
    <3>3. CASE IssueRead(c)
      <4>1. \/ login' = [login EXCEPT ![c] = Idle]
            \/ login' = [login EXCEPT ![c] =
                 [login[c] EXCEPT !.pc = "issuing", !.saw = device[login[c].device]]]
        BY <2>1, <3>3 DEF IssueRead
      <4>2. login[c].pc = "verified"
        BY <3>3 DEF IssueRead
      <4>3. CASE login' = [login EXCEPT ![c] = Idle]
        BY <2>1, <4>3 DEF Idle
      <4>4. CASE login' = [login EXCEPT ![c] =
                   [login[c] EXCEPT !.pc = "issuing", !.saw = device[login[c].device]]]
        BY <2>1, <2>2, <4>2, <4>4 DEF Request
      <4>5. QED
        BY <4>1, <4>3, <4>4
    <3>4. CASE RevokeCommit(c) \/ Abort(c)
      BY <2>1, <2>2, <3>4 DEF RevokeCommit, Abort
    <3>5. QED
      BY <1>5, <3>1, <3>2, <3>3, <3>4
  <2>6. QED
    BY <1>4, <2>3, <2>4, <2>5
<1>6. ASSUME UNCHANGED <<user, device, login>>, \E S : session' = Revoked(S)
      PROVE  RemovalInv'
  BY <1>4, <1>6
<1>7. ASSUME NEW s, \/ Logout(s) \/ RemoveSession(s) \/ RefreshReused(s) \/ RefreshUnavailable(s)
                    \/ Handshake(s) \/ Join(s) \/ Tell(s) \/ TellNobody(s)
      PROVE  RemovalInv'
  BY <1>6, <1>7, NothingRevoked
     DEF Logout, RemoveSession, RefreshReused, RefreshUnavailable, Handshake, Join, Tell,
         TellNobody, RevokeAndTell
<1>8. QED
  BY <1>1, <1>2, <1>3, <1>5, <1>7 DEF SessionsNext

\* Removing a device or the account ends its sessions, but for those of logins
\* that were under way.
THEOREM RemovalEnds == SessionsSpec => []RemovalEndsSessions
<1>1. SessionsInit => RemovalInv
  BY DEF SessionsInit, RemovalInv, LoginsKnow, RemovalEndsSessions, Live, Idle
<1>2. Sound /\ RemovalInv /\ [SessionsNext]_sessionsVars => RemovalInv'
  <2>1. ASSUME RemovalInv, UNCHANGED sessionsVars PROVE RemovalInv'
    BY <2>1 DEF RemovalInv, LoginsKnow, RemovalEndsSessions, Live, Usable, sessionsVars
  <2>2. QED
    BY <2>1, RemovalNext
<1>3. RemovalInv => RemovalEndsSessions
  BY DEF RemovalInv
<1>4. QED
  BY <1>1, <1>2, <1>3, SoundInit, SoundNext, PTL DEF SessionsSpec

-----------------------------------------------------------------------------
(* What a reset ends.                                                      *)

\* A listed reset has every live session in its list that was inserted before.
ResetInv ==
  /\ ResetEndsEarlierSessions
  /\ \A c \in Logins : login[c].reset => \A s \in Live \ login[c].list : session[s].born > resets

LEMMA ResetNext ==
  ASSUME Sound, ResetInv, SessionsNext
  PROVE  ResetInv'
<1> Live \subseteq DOMAIN session /\ DOMAIN session \subseteq Nat
  BY ListsAreNat DEF Sound
<1> resets \in Nat
  BY DEF Sound, SessionsTypeOK
<1>1. \A s \in DOMAIN session : session[s].born \in Nat
  BY RowTypes DEF Sound, SessionRow
<1>2. ASSUME resets' = resets, \E S : session' = Revoked(S),
             \A c \in Logins : login'[c].reset =>
               (login[c].reset /\ login'[c].list = login[c].list) \/ Live \subseteq login'[c].list
      PROVE  ResetInv'
  <2>1. PICK S : session' = Revoked(S)
    BY <1>2
  <2>2. Live' \subseteq Live /\ \A s \in Live : session'[s].born = session[s].born
    BY <2>1, RevokedLive
  <2>3. QED
    BY <1>2, <2>2 DEF ResetInv, ResetEndsEarlierSessions
<1>3. ASSUME NEW c \in Logins, IssueCommit(c) PROVE ResetInv'
  <2>1. /\ resets' = resets /\ login' = [login EXCEPT ![c] = Idle]
        /\ login \in [Logins -> Request] /\ login[c].pc = "issuing"
    BY <1>3 DEF IssueCommit, Sound, SessionsTypeOK
  <2>2. ~Idle.reset
    BY DEF Idle
  <2>3. \A e \in Logins : login'[e].reset => login[e].reset /\ login'[e].list = login[e].list
    BY <2>1, <2>2
  <2>4. ResetsListed \in Nat /\ ResetsListed >= resets
    BY ListedCount
  <2>5. (\E e \in Logins : login[e].reset) => ResetsListed > resets
    BY ListedCount
  <2> DEFINE n == Len(session) + 1
  <2>6. /\ Live' \subseteq Live \cup {n} /\ session'[n].born = ResetsListed
        /\ \A s \in Live : session'[s].born = session[s].born
    BY <1>3, IssuedLive
  <2>7. QED
    BY <1>1, <2>1, <2>3, <2>4, <2>5, <2>6 DEF ResetInv, ResetEndsEarlierSessions
<1>4. ASSUME NEW c \in Logins, RevokeCommit(c) PROVE ResetInv'
  <2>1. /\ session' = Revoked(login[c].list) /\ login' = [login EXCEPT ![c] = Idle]
        /\ resets' = resets + IF login[c].reset THEN 1 ELSE 0
        /\ login \in [Logins -> Request]
    BY <1>4 DEF RevokeCommit, RevokeAndTell, Sound, SessionsTypeOK
  <2>2. ~Idle.reset
    BY DEF Idle
  <2>3. \A e \in Logins : login'[e].reset =>
          e # c /\ login[e].reset /\ login'[e].list = login[e].list
    BY <2>1, <2>2
  <2>4. /\ Live' = Live \ login[c].list
        /\ \A s \in Live : session'[s].born = session[s].born
    BY <2>1, RevokedLive
  <2>5. CASE login[c].reset
    <3>1. \A e \in Logins : ~login'[e].reset
      BY <2>3, <2>5 DEF Sound, RequestsKnown
    <3>2. QED
      BY <1>1, <2>1, <2>4, <2>5, <3>1 DEF ResetInv, ResetEndsEarlierSessions
  <2>6. CASE ~login[c].reset
    BY <1>1, <2>1, <2>3, <2>4, <2>6 DEF ResetInv, ResetEndsEarlierSessions
  <2>7. QED
    BY <2>5, <2>6
<1>5. ASSUME NEW c \in Logins, NEW reset \in BOOLEAN, RevokeList(c, reset) PROVE ResetInv'
  <2>1. PICK keep \in KeepOf(reset) :
          login' = [login EXCEPT ![c] =
            [Idle EXCEPT !.pc = "listed", !.list = Live \ {keep}, !.reset = reset]]
    BY <1>5 DEF RevokeList
  <2>2. /\ login'[c].reset = reset /\ login'[c].list = Live \ {keep}
        /\ \A e \in Logins : e # c => login'[e] = login[e]
    BY <2>1 DEF Idle, Sound, SessionsTypeOK
  <2>3. reset => keep = Unset /\ Unset \notin Live
    BY <2>1, SessionsAssumption DEF KeepOf
  <2>4. resets' = resets /\ \E S : session' = Revoked(S)
    BY <1>5, NothingRevoked DEF RevokeList
  <2>5. QED
    BY <1>2, <2>2, <2>3, <2>4
<1>6. ASSUME NEW c \in Logins,
             (\E d \in Devices : LoginVerify(c, d)) \/ IssueRead(c) \/ Abort(c)
      PROVE  ResetInv'
  <2>1. /\ login \in [Logins -> Request] /\ login[c] \in Request
    BY DEF Sound, SessionsTypeOK
  <2>2. resets' = resets /\ \E S : session' = Revoked(S)
    BY <1>6, NothingRevoked DEF LoginVerify, IssueRead, Abort
  <2>3. login[c].pc = "verified" => ~login[c].reset
    BY DEF Sound, RequestsKnown
  <2> ~Idle.reset
    BY DEF Idle
  <2>4. ~login'[c].reset /\ \A e \in Logins : e # c => login'[e] = login[e]
    <3>1. CASE \E d \in Devices : LoginVerify(c, d)
      BY <2>1, <3>1 DEF LoginVerify, Idle
    <3>2. CASE IssueRead(c)
      <4>1. \/ login' = [login EXCEPT ![c] = Idle]
            \/ login' = [login EXCEPT ![c] =
                 [login[c] EXCEPT !.pc = "issuing", !.saw = device[login[c].device]]]
        BY <2>1, <3>2 DEF IssueRead
      <4>2. login[c].pc = "verified"
        BY <3>2 DEF IssueRead
      <4>3. QED
        BY <2>1, <2>3, <4>1, <4>2 DEF Request
    <3>3. CASE Abort(c)
      BY <2>1, <3>3 DEF Abort, Idle
    <3>4. QED
      BY <1>6, <3>1, <3>2, <3>3
  <2>5. QED
    BY <1>2, <2>2, <2>4
<1>7. ASSUME \/ \E d \in Devices : RemoveDevice(d)
             \/ DeleteAccount
      PROVE  ResetInv'
  <2>1. resets' = resets /\ \E S : session' = Revoked(S) /\ \E D : login' = Crossing(D)
    BY <1>7 DEF RemoveDevice, DeleteAccount, RevokeAndTell
  <2>2. \A c \in Logins : login'[c].reset = login[c].reset /\ login'[c].list = login[c].list
    BY <2>1, RevokedLive, CrossedRequests
  <2>3. QED
    BY <1>2, <2>1, <2>2
<1>8. ASSUME NEW s, \/ Logout(s) \/ RemoveSession(s) \/ RefreshReused(s) \/ RefreshUnavailable(s)
                    \/ Handshake(s) \/ Join(s) \/ Tell(s) \/ TellNobody(s)
      PROVE  ResetInv'
  <2>1. UNCHANGED <<login, resets>> /\ \E S : session' = Revoked(S)
    BY <1>8, NothingRevoked
       DEF Logout, RemoveSession, RefreshReused, RefreshUnavailable, Handshake, Join, Tell,
           TellNobody, RevokeAndTell
  <2>2. QED
    BY <1>2, <2>1
<1>9. QED
  BY <1>3, <1>4, <1>5, <1>6, <1>7, <1>8 DEF SessionsNext

\* A committed reset has ended every session inserted before it listed them.
THEOREM ResetEnds == SessionsSpec => []ResetEndsEarlierSessions
<1>1. SessionsInit => ResetInv
  BY DEF SessionsInit, ResetInv, ResetEndsEarlierSessions, Live, Idle
<1>2. Sound /\ ResetInv /\ [SessionsNext]_sessionsVars => ResetInv'
  <2>1. ASSUME ResetInv, UNCHANGED sessionsVars PROVE ResetInv'
    BY <2>1 DEF ResetInv, ResetEndsEarlierSessions, Live, sessionsVars
  <2>2. QED
    BY <2>1, ResetNext
<1>3. ResetInv => ResetEndsEarlierSessions
  BY DEF ResetInv
<1>4. QED
  BY <1>1, <1>2, <1>3, SoundInit, SoundNext, PTL DEF SessionsSpec

-----------------------------------------------------------------------------
(* Who is told. A socket that passed its check is pending from the moment  *)
(* its session cannot be used, also while it has still to join.            *)

SocketInv ==
  \A s \in DOMAIN session : socket[s] \in {"joining", "joined"} /\ ~Usable(s) => s \in pending

\* A step that can only make a session unusable that it puts into pending.
LEMMA ToldOfEach ==
  ASSUME Sound, SocketInv, NEW S, session' = Revoked(S),
         \A s \in DOMAIN session :
           socket'[s] \in {"joining", "joined"} =>
             /\ socket[s] \in {"joining", "joined"} \/ Usable(s)
             /\ s \in pending => s \in pending'
             /\ Usable(s) /\ ~Usable(s)' => s \in pending'
  PROVE  SocketInv'
<1>1. DOMAIN session' = DOMAIN session
  BY RevokedLive
<1>2. QED
  BY <1>1 DEF SocketInv

LEMMA SocketNext ==
  ASSUME Sound, SocketInv, SessionsNext
  PROVE  SocketInv'
<1> USE DEF Usable
<1>1. \A s \in DOMAIN session : session[s].device \in Devices
  BY RowTypes DEF Sound, SessionRow
<1>2. ASSUME NEW c \in Logins, IssueCommit(c) PROVE SocketInv'
  <2> DEFINE n == Len(session) + 1
             d == login[c].device
  <2>1. /\ user' = user /\ pending' = pending \cup LiveOn(d)
        /\ device \in [Devices -> Statuses]
        /\ device' = [device EXCEPT ![d] = IF login[c].saw = "ACTIVE" THEN device[d] ELSE "ACTIVE"]
    BY <1>2 DEF IssueCommit, Replaced, Sound, SessionsTypeOK
  <2>2. \A e \in Devices : device[e] = "ACTIVE" => device'[e] = "ACTIVE"
    BY <2>1
  <2>3. /\ DOMAIN session' = DOMAIN session \cup {n} /\ socket'[n] = "none"
        /\ Live' = (Live \ LiveOn(d)) \cup {n} /\ n \notin DOMAIN session
        /\ \A s \in DOMAIN session : /\ session'[s].device = session[s].device
                                     /\ socket'[s] = socket[s]
    BY <1>2, IssuedLive
  <2>4. QED
    BY <1>1, <2>1, <2>2, <2>3 DEF SocketInv
<1>3. ASSUME NEW S, session' = Revoked(S), pending' = pending \cup S, socket' = socket,
             \A e \in Devices : device[e] = "ACTIVE" =>
               device'[e] = "ACTIVE" \/ LiveOn(e) \subseteq S,
             user = "ACTIVE" => user' = "ACTIVE" \/ Live \subseteq S
      PROVE  SocketInv'
  <2>1. /\ Live' = Live \ S
        /\ \A s \in DOMAIN session : session'[s].device = session[s].device
    BY <1>3, RevokedLive
  <2>2. QED
    BY <1>1, <1>3, <2>1, ToldOfEach DEF LiveOn
<1>4. ASSUME NEW d \in Devices, RemoveDevice(d) PROVE SocketInv'
  <2>1. \A e \in Devices : e # d => device'[e] = device[e]
    BY <1>4 DEF RemoveDevice, Sound, SessionsTypeOK
  <2>2. QED
    BY <1>3, <1>4, <2>1 DEF RemoveDevice, RevokeAndTell
<1>5. ASSUME DeleteAccount PROVE SocketInv'
  BY <1>3, <1>5 DEF DeleteAccount, RevokeAndTell, LiveOn
<1>6. ASSUME UNCHANGED <<user, device, socket>>, \E S : RevokeAndTell(S) PROVE SocketInv'
  BY <1>3, <1>6 DEF RevokeAndTell
<1>7. ASSUME UNCHANGED <<user, device, session, socket, pending>> PROVE SocketInv'
  BY <1>7 DEF SocketInv, Live
<1>8. ASSUME NEW c \in Logins,
             \/ \E d \in Devices : LoginVerify(c, d)
             \/ \E reset \in BOOLEAN : RevokeList(c, reset)
             \/ IssueRead(c) \/ RevokeCommit(c) \/ Abort(c)
      PROVE  SocketInv'
  BY <1>6, <1>7, <1>8 DEF LoginVerify, RevokeList, IssueRead, RevokeCommit, Abort
<1>9. ASSUME NEW s \in DOMAIN session,
             Logout(s) \/ RemoveSession(s) \/ RefreshReused(s) \/ RefreshUnavailable(s)
      PROVE  SocketInv'
  <2>1. CASE Logout(s) \/ RemoveSession(s) \/ RefreshReused(s)
    BY <1>6, <2>1 DEF Logout, RemoveSession, RefreshReused
  <2>2. CASE RefreshUnavailable(s)
    <3>1. /\ session' = Revoked({s}) /\ UNCHANGED <<user, device, pending>>
          /\ socket' = [socket EXCEPT ![s] = IF socket[s] = "none" THEN "none" ELSE "missed"]
      BY <2>2 DEF RefreshUnavailable, PassOver
    <3>2. /\ Live' = Live \ {s}
          /\ \A t \in DOMAIN session : session'[t].device = session[t].device
      BY <3>1, RevokedLive
    <3>3. socket'[s] \notin {"joining", "joined"} /\ \A t \in DOMAIN session : t # s => socket'[t] = socket[t]
      BY <3>1, RowTypes DEF Sound
    <3>4. QED
      BY <3>1, <3>2, <3>3, ToldOfEach
  <2>3. QED
    BY <1>9, <2>1, <2>2
<1>10. ASSUME NEW s \in DOMAIN session, Handshake(s) \/ Join(s) \/ Tell(s) \/ TellNobody(s)
      PROVE  SocketInv'
  <2>1. /\ UNCHANGED <<user, device, session>> /\ session = Revoked({})
        /\ Live' = Live /\ DOMAIN socket = DOMAIN session
    BY <1>10, NothingRevoked, RowTypes DEF Handshake, Join, Tell, TellNobody, Live, Sound
  <2>2. CASE Handshake(s)
    <3>1. pending' = pending /\ Usable(s) /\ socket' = [socket EXCEPT ![s] = "joining"]
      BY <2>2 DEF Handshake
    <3>2. QED
      BY <2>1, <3>1 DEF SocketInv
  <2>3. CASE Join(s)
    BY <2>1, <2>3 DEF SocketInv, Join
  <2>4. CASE Tell(s) \/ TellNobody(s)
    <3>1. pending' = pending \ {s}
      BY <2>4 DEF Tell, TellNobody
    <3>2. /\ socket'[s] \notin {"joining", "joined"}
          /\ \A t \in DOMAIN session : t # s => socket'[t] = socket[t]
      BY <2>1, <2>4, RowTypes DEF Tell, TellNobody, PassOver, Sound
    <3>3. QED
      BY <2>1, <3>1, <3>2 DEF SocketInv
  <2>5. QED
    BY <1>10, <2>2, <2>3, <2>4
<1>11. pending \subseteq DOMAIN session
  BY DEF Sound, SessionsTypeOK
<1>12. QED
  BY <1>2, <1>4, <1>5, <1>8, <1>9, <1>10, <1>11 DEF SessionsNext

\* A socket in the rooms of a session that can no longer be used is told, unless it is
\* passed over.
THEOREM SocketsTold == SessionsSpec => []SocketsAreTold
<1>1. SessionsInit => SocketInv
  BY DEF SessionsInit, SocketInv
<1>2. Sound /\ SocketInv /\ [SessionsNext]_sessionsVars => SocketInv'
  <2>1. ASSUME SocketInv, UNCHANGED sessionsVars PROVE SocketInv'
    BY <2>1 DEF SocketInv, Live, Usable, sessionsVars
  <2>2. QED
    BY <2>1, SocketNext
<1>3. SocketInv => SocketsAreTold
  BY DEF SocketInv, SocketsAreTold
<1>4. QED
  BY <1>1, <1>2, <1>3, SoundInit, SoundNext, PTL DEF SessionsSpec

\* Whatever is revoked stays so, but for the logins and the sockets that a revocation
\* crosses (removeDevice, revokeUserSessionsInManager, deleteCurrent).
THEOREM RevocationsKept == SessionsSpec => []RevocationsHold
<1>1. RemovalEndsSessions /\ ResetEndsEarlierSessions /\ SocketsAreTold => RevocationsHold
  BY DEF RevocationsHold
<1>2. QED
  BY <1>1, RemovalEnds, ResetEnds, SocketsTold, PTL

-----------------------------------------------------------------------------
(* The device limit. Only the login that holds the advisory lock turns a   *)
(* device ACTIVE, and what it counted can only have become less.           *)

LimitInv ==
  /\ \A c, e \in Logins : login[c].pc = "issuing" /\ login[e].pc = "issuing" => c = e
  /\ \A c \in Logins : login[c].pc = "issuing" =>
       /\ login[c].saw = "NONE" => Cardinality(LiveDevices) < MaxDevices
       /\ login[c].saw # "NONE" => device[login[c].device] # "NONE"

LEMMA FewerDevices ==
  ASSUME LiveDevices' \subseteq LiveDevices
  PROVE  /\ Cardinality(LiveDevices') \in Nat /\ Cardinality(LiveDevices) \in Nat
         /\ Cardinality(LiveDevices') <= Cardinality(LiveDevices)
<1>1. IsFiniteSet(LiveDevices)
  BY SessionsAssumption, FS_Subset DEF LiveDevices
<1>2. QED
  BY <1>1, FS_Subset, FS_CardinalityType

\* A step that makes no device ACTIVE, and no login issue.
LEMMA LimitStays ==
  ASSUME Sound, LimitInv,
         \A d \in Devices : /\ device'[d] = "ACTIVE" => device[d] = "ACTIVE"
                            /\ device[d] # "NONE" => device'[d] # "NONE",
         \A c \in Logins : login'[c].pc = "issuing" =>
           /\ login[c].pc = "issuing" /\ login'[c].saw = login[c].saw
           /\ login'[c].device = login[c].device
  PROVE  LimitInv'
<1>1. LiveDevices' \subseteq LiveDevices
  BY DEF LiveDevices
<1>2. MaxDevices \in Nat
  BY SessionsAssumption
<1>3. \A c \in Logins : login[c].pc = "issuing" => login[c].device \in Devices
  BY DEF Sound, RequestsKnown
<1>4. /\ Cardinality(LiveDevices') \in Nat /\ Cardinality(LiveDevices) \in Nat
      /\ Cardinality(LiveDevices') <= Cardinality(LiveDevices)
  BY <1>1, FewerDevices
<1>5. ASSUME NEW c \in Logins, login'[c].pc = "issuing"
      PROVE  /\ login'[c].saw = "NONE" => Cardinality(LiveDevices') < MaxDevices
             /\ login'[c].saw # "NONE" => device'[login'[c].device] # "NONE"
  BY <1>2, <1>3, <1>4, <1>5 DEF LimitInv
<1>6. QED
  BY <1>5 DEF LimitInv

LEMMA LimitNext ==
  ASSUME Sound, LimitInv, SessionsNext
  PROVE  LimitInv'
<1>1. login \in [Logins -> Request] /\ device \in [Devices -> Statuses]
  BY DEF Sound, SessionsTypeOK
<1>2. ASSUME NEW c \in Logins, device' = device,
             \E r : login' = [login EXCEPT ![c] = r] /\ r.pc # "issuing"
      PROVE  LimitInv'
  BY <1>1, <1>2, LimitStays
<1> Idle.pc = "idle"
  BY DEF Idle
<1>3. ASSUME NEW c \in Logins,
             \/ \E d \in Devices : LoginVerify(c, d)
             \/ \E reset \in BOOLEAN : RevokeList(c, reset)
             \/ RevokeCommit(c) \/ Abort(c)
      PROVE  LimitInv'
  <2>1. CASE \E d \in Devices : LoginVerify(c, d)
    <3>1. PICK d \in Devices : LoginVerify(c, d)
      BY <2>1
    <3>2. [Idle EXCEPT !.pc = "verified", !.device = d].pc # "issuing"
      BY DEF Idle
    <3>3. QED
      BY <1>2, <3>1, <3>2 DEF LoginVerify
  <2>2. CASE \E reset \in BOOLEAN : RevokeList(c, reset)
    <3> PICK reset \in BOOLEAN : RevokeList(c, reset)
      BY <2>2
    <3>1. PICK keep \in KeepOf(reset) : login' = [login EXCEPT ![c] =
              [Idle EXCEPT !.pc = "listed", !.list = Live \ {keep}, !.reset = reset]]
      BY DEF RevokeList
    <3>2. [Idle EXCEPT !.pc = "listed", !.list = Live \ {keep}, !.reset = reset].pc # "issuing"
      BY DEF Idle
    <3>3. device' = device
      BY <2>2 DEF RevokeList
    <3>4. QED
      BY <1>2, <3>1, <3>2, <3>3
  <2>3. CASE RevokeCommit(c) \/ Abort(c)
    BY <1>2, <2>3 DEF RevokeCommit, Abort
  <2>4. QED
    BY <1>3, <2>1, <2>2, <2>3
<1>4. ASSUME NEW c \in Logins, IssueRead(c) PROVE LimitInv'
  <2> DEFINE d == login[c].device
             full == device[d] = "NONE" /\ Cardinality(LiveDevices) >= MaxDevices
             r == [login[c] EXCEPT !.pc = "issuing", !.saw = device[d]]
  <2>1. device' = device /\ login[c].pc = "verified" /\ HoldsLock(c) /\ login[c] \in Request
    BY <1>1, <1>4 DEF IssueRead
  <2>2. CASE full
    <3>1. login' = [login EXCEPT ![c] = Idle]
      BY <1>4, <2>2 DEF IssueRead
    <3>2. QED
      BY <1>2, <2>1, <3>1
  <2>3. CASE ~full
    <3>1. login' = [login EXCEPT ![c] = r]
      BY <1>1, <1>4, <2>3 DEF IssueRead
    <3>2. r.pc = "issuing" /\ r.saw = device[d] /\ r.device = d
      BY <2>1 DEF Request
    <3>3. login'[c] = r /\ \A e \in Logins : e # c => login'[e].pc # "issuing"
      BY <1>1, <2>1, <3>1 DEF HoldsLock
    <3>4. LiveDevices' = LiveDevices /\ Cardinality(LiveDevices) \in Nat /\ MaxDevices \in Nat
      BY <2>1, FewerDevices, SessionsAssumption DEF LiveDevices
    <3> HIDE DEF r
    <3>5. QED
      BY <2>1, <2>3, <3>2, <3>3, <3>4 DEF LimitInv
  <2>4. QED
    BY <2>2, <2>3
<1>5. ASSUME NEW c \in Logins, IssueCommit(c) PROVE LimitInv'
  <2>1. login[c].pc = "issuing" /\ login' = [login EXCEPT ![c] = Idle]
    BY <1>5 DEF IssueCommit
  <2>2. \A e \in Logins : login'[e].pc # "issuing"
    BY <1>1, <2>1 DEF LimitInv
  <2>3. QED
    BY <2>2 DEF LimitInv
<1>6. ASSUME \E D : login' = Crossing(D), \E S : session' = Revoked(S),
             \A d \in Devices : /\ device'[d] = "ACTIVE" => device[d] = "ACTIVE"
                                /\ device[d] # "NONE" => device'[d] # "NONE"
      PROVE  LimitInv'
  <2>1. DOMAIN session' = DOMAIN session
    BY <1>6, RevokedLive
  <2>2. \A c \in Logins : /\ login'[c].pc = login[c].pc /\ login'[c].saw = login[c].saw
                          /\ login'[c].device = login[c].device
    BY <1>6, <2>1, CrossedRequests
  <2>3. QED
    BY <1>6, <2>2, LimitStays
<1>7. ASSUME NEW d \in Devices, RemoveDevice(d) PROVE LimitInv'
  <2>1. /\ device' = [device EXCEPT ![d] = "REVOKED"] /\ device[d] # "NONE"
        /\ \E D : login' = Crossing(D) /\ \E S : session' = Revoked(S)
    BY <1>7 DEF RemoveDevice, RevokeAndTell
  <2>2. QED
    BY <1>1, <1>6, <2>1
<1>8. ASSUME DeleteAccount PROVE LimitInv'
  BY <1>1, <1>6, <1>8 DEF DeleteAccount, RevokeAndTell
<1>9. ASSUME NEW s, \/ Logout(s) \/ RemoveSession(s) \/ RefreshReused(s) \/ RefreshUnavailable(s)
                    \/ Handshake(s) \/ Join(s) \/ Tell(s) \/ TellNobody(s)
      PROVE  LimitInv'
  <2>1. UNCHANGED <<login, device>>
    BY <1>9 DEF Logout, RemoveSession, RefreshReused, RefreshUnavailable, Handshake, Join, Tell,
         TellNobody
  <2>2. QED
    BY <2>1, LimitStays
<1>10. QED
  BY <1>3, <1>4, <1>5, <1>7, <1>8, <1>9 DEF SessionsNext

\* What the step of a login may do to the devices.
LimitStep ==
  \A d \in Devices : device[d] = "NONE" /\ device'[d] = "ACTIVE" =>
    Cardinality({e \in Devices : device'[e] = "ACTIVE"}) <= MaxDevices

LEMMA OnlyLoginsActivate ==
  ASSUME Sound, LimitInv, SessionsNext
  PROVE  LimitStep
<1>1. device \in [Devices -> Statuses]
  BY DEF Sound, SessionsTypeOK
<1>2. ASSUME NEW c \in Logins, IssueCommit(c), NEW d \in Devices,
             device[d] = "NONE", device'[d] = "ACTIVE"
      PROVE  Cardinality({e \in Devices : device'[e] = "ACTIVE"}) <= MaxDevices
  <2>1. /\ login[c].pc = "issuing" /\ login[c].device = d
        /\ device' = [device EXCEPT ![d] = IF login[c].saw = "ACTIVE" THEN device[d] ELSE "ACTIVE"]
    BY <1>1, <1>2 DEF IssueCommit
  <2>2. Cardinality(LiveDevices) < MaxDevices
    BY <1>2, <2>1, Zenon DEF LimitInv
  <2>3. {e \in Devices : device'[e] = "ACTIVE"} = LiveDevices \cup {d}
    <3>1. \A e \in Devices : e # d => device'[e] = device[e]
      BY <1>1, <2>1
    <3>2. QED
      BY <1>2, <3>1 DEF LiveDevices
  <2>4. IsFiniteSet(LiveDevices) /\ Cardinality(LiveDevices) \in Nat /\ MaxDevices \in Nat
    <3>1. LiveDevices \in SUBSET Devices
      BY DEF LiveDevices
    <3>2. QED
      BY <3>1, SessionsAssumption, FS_Subset, FS_CardinalityType
  <2>5. /\ IsFiniteSet(LiveDevices \cup {d})
        /\ Cardinality(LiveDevices \cup {d}) =
             IF d \in LiveDevices THEN Cardinality(LiveDevices) ELSE Cardinality(LiveDevices) + 1
    BY <2>4, FS_AddElement
  <2>6. Cardinality(LiveDevices \cup {d}) <= MaxDevices
    BY <2>2, <2>4, <2>5
  <2>7. QED
    BY <2>3, <2>6, Zenon
<1>3. ASSUME \A d \in Devices : device[d] = "NONE" => device'[d] = "NONE"
      PROVE  LimitStep
  BY <1>3 DEF LimitStep
<1>4. \/ \E c \in Logins : IssueCommit(c)
      \/ \A d \in Devices : device[d] = "NONE" => device'[d] = "NONE"
  BY <1>1 DEF SessionsNext, LoginVerify, RevokeList, IssueRead, RevokeCommit, Abort,
         RemoveDevice, Logout, RemoveSession, RefreshReused, RefreshUnavailable, Handshake,
         Join, Tell, TellNobody, DeleteAccount
<1>5. QED
  BY <1>2, <1>3, <1>4 DEF LimitStep

\* However many logins run at once, a device that is new to the account never takes it
\* over the limit.
THEOREM LimitKept == SessionsSpec => NewDevicesRespectLimit
<1>1. SessionsInit => LimitInv
  BY DEF SessionsInit, LimitInv, Idle
<1>2. Sound /\ LimitInv /\ [SessionsNext]_sessionsVars => LimitInv'
  <2>1. ASSUME LimitInv, UNCHANGED sessionsVars PROVE LimitInv'
    BY <2>1 DEF LimitInv, LiveDevices, sessionsVars
  <2>2. QED
    BY <2>1, LimitNext
<1>3. Sound /\ LimitInv /\ [SessionsNext]_sessionsVars => [LimitStep]_sessionsVars
  BY OnlyLoginsActivate
<1>4. QED
  BY <1>1, <1>2, <1>3, SoundInit, SoundNext, PTL
     DEF SessionsSpec, NewDevicesRespectLimit, LimitStep

=============================================================================
